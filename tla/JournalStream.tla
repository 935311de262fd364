---------------------------- MODULE JournalStream ----------------------------
(***************************************************************************)
(* A conversation that a console follows: the session's log, which is the  *)
(* records of its turns in one sequence (dshwire/session.go), the stream   *)
(* and the pages the host serves of it (dshstream/follow.go,               *)
(* dshapi/session.go), and the browser's side: the reconnecting stream and *)
(* the window of records kept over it (gateway/client.js,                  *)
(* session-controller/client.js, connection/client.js).                    *)
(*                                                                         *)
(* A record is a number, given in the order in which records are written;  *)
(* its place in `log` is the sequence number under which the host serves   *)
(* it.  The text of records and the frames of live prose are left out.     *)
(***************************************************************************)
EXTENDS Integers, Sequences, FiniteSets

CONSTANTS MaxTurns,    \* bound on the turns of the conversation
          MaxRecords,  \* bound on its records
          MaxFaults,   \* bound on losses, crashes, failing pages and rebaselines
          PageSize     \* the records of a window or a page, at most

ASSUME JournalAssumption ==
  MaxTurns \in Nat /\ MaxRecords \in Nat /\ MaxFaults \in Nat /\ PageSize \in Nat \ {0}

VARIABLES
  log,      \* the records of the conversation, in the order in which they are served
  starts,   \* how many records precede each turn
  ends,     \* how many records a turn had when it ended; Running or Orphaned without an end
  closed,   \* the turns whose run is closed on the bus of this process
  srv,      \* the goroutine of the host that serves the stream
  online,   \* the WebSocket is open
  ready,    \* Connection has published a Host generation
  wire,     \* frames on their way to the browser
  phase,    \* what the browser's stream is doing
  attempt,  \* carrier failures in a row, counted to two
  why,      \* what ended the stream
  opened,   \* the session shows a window: openState is "open"
  base,     \* the number of the first record of the window
  win,      \* the records of the window
  last,     \* the last applied cursor, or None
  more,     \* older history remains
  repair,   \* the replacement page that is being read
  older,    \* the older page that is being read
  skew,     \* history: why what the stream, the window or the older page holds is misnumbered
  faults

host == <<log, starts, ends, closed>>
network == <<srv, online, ready, wire>>
stream == <<phase, attempt, why>>
window == <<opened, base, win, last, more>>
pages == <<repair, older>>
vars == <<host, network, stream, window, pages, skew, faults>>

Running == -1
Orphaned == -3  \* the host has died before the end was logged
None == -2      \* no cursor yet
Empty == -1     \* the cursor of a log without records

-----------------------------------------------------------------------------
\* The session's log.
Turns == Len(starts)
TurnEnd(t) == IF t = Turns THEN Len(log) ELSE starts[t + 1]
Size(t) == TurnEnd(t) - starts[t]
Ended(t) == ends[t] >= 0
Cursor == IF log = <<>> THEN Empty ELSE Len(log)

Least(a, b) == IF a < b THEN a ELSE b
Most(a, b) == IF a > b THEN a ELSE b

\* What Window and Through select: the newest PageSize records up to `top`.
Page(top) ==
  LET from == Most(1, top - PageSize + 1)
  IN  [tail |-> top, recs |-> SubSeq(log, from, top), more |-> top > 0 /\ from > 1]

\* Mutant: the page is not cut at the cursor it was asked for.
ThroughNewest(cursor, before) == Page(before - 1)

\* A cursor beyond the log is served as the log's own.
Through(cursor, before) ==
  Page(Least(IF cursor < 0 \/ cursor > Len(log) THEN Len(log) ELSE cursor, before - 1))

NoPage == [state |-> "none"]
NoRepair == [state |-> "none"]
NoStream == [phase |-> "off", turn |-> 0]

Init ==
  /\ log = <<>> /\ starts = <<>> /\ ends = <<>> /\ closed = {}
  /\ srv = NoStream /\ online = TRUE /\ ready = TRUE /\ wire = <<>>
  /\ phase = "cold" /\ attempt = 0 /\ why = "none"
  /\ opened = FALSE /\ base = 0 /\ win = <<>> /\ last = None /\ more = FALSE
  /\ repair = NoRepair /\ older = NoPage /\ faults = 0
  /\ skew = [stream |-> {}, window |-> {}, older |-> {}]

-----------------------------------------------------------------------------
\* The conversation.  A turn starts when the turn before is not running.
Prompt ==
  /\ Turns < MaxTurns /\ (Turns > 0 => ends[Turns] # Running)
  /\ starts' = Append(starts, Len(log)) /\ ends' = Append(ends, Running)
  /\ UNCHANGED <<log, closed, network, stream, window, pages, skew, faults>>

NewRecord == Len(log) + 1

Record ==
  /\ Turns > 0 /\ ends[Turns] = Running /\ (Len(log) < MaxRecords \/ Size(Turns) = 0)
  /\ log' = Append(log, NewRecord)
  /\ UNCHANGED <<starts, ends, closed, network, stream, window, pages, skew, faults>>

FirstRecord == Turns > 0 /\ Size(Turns) = 0 /\ Record

\* The end of a run is logged, which closes the run on the bus.
Finish ==
  /\ Turns > 0 /\ ends[Turns] = Running /\ Size(Turns) > 0
  /\ ends' = [ends EXCEPT ![Turns] = Size(Turns)] /\ closed' = closed \cup {Turns}
  /\ UNCHANGED <<log, starts, network, stream, window, pages, skew, faults>>

\* sessionRename appends the title to the log of the session's own run, which is
\* its first turn, at any time: every later turn moves up by one, and what was
\* numbered before is misnumbered from there on.
Rename ==
  /\ Turns > 0 /\ Size(1) > 0 /\ Len(log) < MaxRecords
  /\ log' = SubSeq(log, 1, TurnEnd(1)) \o <<NewRecord>> \o SubSeq(log, TurnEnd(1) + 1, Len(log))
  /\ starts' = [t \in DOMAIN starts |-> IF t = 1 THEN 0 ELSE starts[t] + 1]
  /\ LET moved(holds, later) == IF later THEN holds \cup {"title"} ELSE holds
     IN  skew' = [stream |-> moved(skew.stream, srv.turn > 1),
                  window |-> moved(skew.window, last > TurnEnd(1)),
                  older  |-> moved(skew.older, older.state = "answered" /\ older.page.tail > TurnEnd(1))]
  /\ UNCHANGED <<ends, closed, network, stream, window, pages, faults>>

-----------------------------------------------------------------------------
\* The host's stream (runFollow): the snapshot, then the records of the newest turn,
\* then those of the turns after it.  `ahead` says that the follower of the run
\* (EventFollow) was attached before the end of the run, and stops there.
Pump(turn, offset, sent, ahead) ==
  [phase |-> "pump", turn |-> turn, offset |-> offset, sent |-> sent, ahead |-> ahead]

ServeFollow ==
  /\ phase = "opening" /\ online /\ srv = NoStream
  /\ wire' = <<[type |-> "opened", cursor |-> Cursor, page |-> Page(Len(log))]>>
  /\ srv' = IF Turns = 0 THEN Pump(1, 0, 0, TRUE)
            ELSE Pump(Turns, starts[Turns], Size(Turns), ~Ended(Turns))
  /\ skew' = [skew EXCEPT !.stream = {}]
  /\ UNCHANGED <<host, online, ready, stream, window, pages, faults>>

\* The projection numbers a record by the offset the turn was given when the stream
\* came to it.  A follower that was attached before the end returns with the end, and
\* sends no title behind it.  `turn` is history: whose record it is.
SendRecord ==
  /\ srv.phase = "pump" /\ srv.turn <= Turns /\ srv.sent < Size(srv.turn)
  /\ (srv.ahead /\ Ended(srv.turn)) => srv.sent < ends[srv.turn]
  /\ wire' = Append(wire, [type |-> "entry", seq |-> srv.offset + srv.sent + 1,
                           rec |-> log[starts[srv.turn] + srv.sent + 1], turn |-> srv.turn])
  /\ srv' = [srv EXCEPT !.sent = @ + 1]
  /\ UNCHANGED <<host, online, ready, stream, window, pages, skew, faults>>

\* Mutant: the closed runs of the bus are not asked.
EndTurnAtTerminal ==
  /\ srv.phase = "pump" /\ srv.turn <= Turns /\ Ended(srv.turn)
  /\ srv.sent = ends[srv.turn] /\ (srv.ahead \/ Size(srv.turn) = ends[srv.turn])
  /\ srv' = [srv EXCEPT !.phase = "await"]
  /\ UNCHANGED <<host, online, ready, wire, stream, window, pages, skew, faults>>

\* A follower that was attached after the end stops if the end is the last event
\* of the run, or, with what it has sent by then, if this process has closed the run.
EndTurn ==
  /\ srv.phase = "pump" /\ srv.turn <= Turns /\ Ended(srv.turn)
  /\ IF srv.ahead THEN srv.sent = ends[srv.turn]
     ELSE srv.turn \in closed \/ (srv.sent = Size(srv.turn) /\ srv.sent = ends[srv.turn])
  /\ srv' = [srv EXCEPT !.phase = "await"]
  /\ UNCHANGED <<host, online, ready, wire, stream, window, pages, skew, faults>>

\* A follower whose channel has overflowed stops, without an error, once the run is
\* closed: pumpTurn takes the turn for ended, whatever has not been sent.
CutTurn ==
  /\ srv.phase = "pump" /\ srv.ahead /\ srv.turn \in closed /\ srv.sent < ends[srv.turn]
  /\ faults < MaxFaults /\ faults' = faults + 1
  /\ srv' = [srv EXCEPT !.phase = "await"]
  /\ UNCHANGED <<host, online, ready, wire, stream, window, pages, skew>>

\* awaitSessionTurn names the newest turn, which need not be the next.
Locate ==
  /\ srv.phase = "await" /\ Turns > srv.turn
  /\ srv' = [srv EXCEPT !.phase = "locate", !.turn = Turns]
  /\ UNCHANGED <<host, online, ready, wire, stream, window, pages, skew, faults>>

\* The offset is that of the newest turn when the log is read again: of another turn
\* if one has started since.
FollowNext ==
  /\ srv.phase = "locate" /\ srv' = Pump(srv.turn, starts[Turns], 0, TRUE)
  /\ skew' = [skew EXCEPT !.stream = IF srv.turn = Turns THEN @ ELSE @ \cup {"prompt"}]
  /\ UNCHANGED <<host, online, ready, wire, stream, window, pages, faults>>

\* session/page, for a repair and for "load earlier".
ServeRepair ==
  /\ repair.state = "asked"
  /\ repair' = [repair EXCEPT !.state = "answered", !.page = Through(repair.through, Len(log) + 1)]
  /\ UNCHANGED <<host, network, stream, window, older, skew, faults>>

ServeOlder ==
  /\ older.state = "asked"
  /\ older' = [older EXCEPT !.state = "answered", !.page = Through(older.through, older.before)]
  /\ skew' = [skew EXCEPT !.older = {}]
  /\ UNCHANGED <<host, network, stream, window, repair, faults>>

-----------------------------------------------------------------------------
\* The browser's stream.
NoFrames == srv' = NoStream /\ wire' = <<>>

\* The stream has failed for good: the session is in error until it is opened again.
Fail(reason) ==
  /\ phase' = "error" /\ why' = reason /\ opened' = FALSE
  /\ NoFrames /\ repair' = NoRepair /\ older' = NoPage
  /\ UNCHANGED <<attempt, base, win, last, more, skew>>

Open ==
  /\ phase \in {"cold", "error"}
  /\ phase' = "opening" /\ attempt' = 0 /\ why' = "none" /\ last' = None
  /\ UNCHANGED <<host, network, opened, base, win, more, pages, skew, faults>>

PageTail(p) == IF p.recs = <<>> THEN Empty ELSE p.tail
PageBase(p) == IF p.recs = <<>> THEN 0 ELSE p.tail - Len(p.recs) + 1

\* The opening frame of a generation replaces the window.
TakeOpened ==
  /\ phase = "opening" /\ wire # <<>>
  /\ LET frame == Head(wire)
     IN  IF frame.cursor < last \/ PageTail(frame.page) # frame.cursor THEN Fail("violation")
         ELSE /\ phase' = "live" /\ attempt' = 0 /\ opened' = TRUE /\ last' = frame.cursor
              /\ base' = PageBase(frame.page) /\ win' = frame.page.recs /\ more' = frame.page.more
              /\ wire' = Tail(wire) /\ skew' = [skew EXCEPT !.window = skew.stream]
              /\ UNCHANGED <<srv, why, pages>>
  /\ UNCHANGED <<host, online, ready, faults>>

\* acceptEntry: an old entry is dropped, the next one extends the window, and one
\* after a gap has the window read again up to it.
TakeEntry ==
  /\ phase = "live" /\ wire # <<>> /\ repair = NoRepair
  /\ wire' = Tail(wire)
  /\ LET entry == Head(wire)
     IN  \/ entry.seq <= last /\ UNCHANGED <<window, repair, skew>>
         \/ /\ entry.seq = last + 1
            /\ win' = Append(win, entry.rec) /\ last' = entry.seq
            /\ base' = IF win = <<>> THEN entry.seq ELSE base
            /\ skew' = [skew EXCEPT !.window = @ \cup skew.stream]
            /\ UNCHANGED <<opened, more, repair>>
         \/ /\ entry.seq > last + 1
            /\ repair' = [state |-> "asked", round |-> 1, through |-> entry.seq,
                          queued |-> <<entry>>, page |-> Page(0)]
            /\ UNCHANGED <<window, skew>>
  /\ UNCHANGED <<host, srv, online, ready, stream, older, faults>>

\* Entries that arrive while the page is read wait for it.
TakeQueued ==
  /\ phase = "live" /\ wire # <<>> /\ repair # NoRepair
  /\ wire' = Tail(wire) /\ repair' = [repair EXCEPT !.queued = Append(@, Head(wire))]
  /\ UNCHANGED <<host, srv, online, ready, stream, window, older, skew, faults>>

\* mergeReplacement: the page, and after it the entries that waited.  Reach is the
\* newest number among them.
Reach(r) ==
  CHOOSE m \in {r.through} \cup {r.queued[i].seq : i \in DOMAIN r.queued} :
    /\ m >= r.through /\ \A i \in DOMAIN r.queued : r.queued[i].seq <= m
QueuedAt(r, seq) == {i \in DOMAIN r.queued : r.queued[i].seq = seq}
Complete(r) == \A seq \in r.page.tail + 1 .. Reach(r) : QueuedAt(r, seq) # {}
FirstAt(r, seq) == CHOOSE i \in QueuedAt(r, seq) : \A j \in QueuedAt(r, seq) : i <= j

\* Mutant: the entry that asked for the repair is appended to the page that has it.
MergedWhole(r) == r.page.recs \o [i \in DOMAIN r.queued |-> r.queued[i].rec]

Merged(r) ==
  r.page.recs \o [k \in 1 .. Reach(r) - r.page.tail |-> r.queued[FirstAt(r, r.page.tail + k)].rec]

\* replaceThrough: when more is missing behind the page, it is read once more, and no
\* more than once.
TakeRepair ==
  /\ repair.state = "answered"
  /\ IF PageTail(repair.page) # repair.through THEN Fail("violation")
     ELSE IF ~Complete(repair) /\ repair.round = 2 THEN Fail("gaps")
     ELSE /\ IF Complete(repair)
             THEN /\ base' = PageBase(repair.page) /\ win' = Merged(repair) /\ last' = Reach(repair)
                  /\ more' = repair.page.more /\ repair' = NoRepair /\ UNCHANGED opened
                  /\ skew' = [skew EXCEPT !.window = skew.stream]
             ELSE /\ repair' = [repair EXCEPT !.state = "asked", !.round = 2, !.through = Reach(repair)]
                  /\ UNCHANGED <<window, skew>>
          /\ UNCHANGED <<srv, wire, stream, older>>
  /\ UNCHANGED <<host, online, ready, faults>>

\* A page that cannot be read ends the stream, the console's window with it.
RepairFails ==
  /\ repair # NoRepair /\ faults < MaxFaults
  /\ faults' = faults + 1 /\ Fail("page")
  /\ UNCHANGED <<host, online, ready>>

-----------------------------------------------------------------------------
\* "Load earlier": one page at a time, bound by the number the window began with when
\* it was asked for.
LoadOlder ==
  /\ opened /\ more /\ older = NoPage
  /\ older' = [state |-> "asked", through |-> last, before |-> base, page |-> Page(0)]
  /\ UNCHANGED <<host, network, stream, window, repair, skew, faults>>

\* How many records of a page come before the window.
Earlier(p) == IF win = <<>> THEN Len(p.recs)
              ELSE Least(Len(p.recs), Most(0, base - PageBase(p)))

\* Mutant: the page is not compared with the window it was asked for.
TakeOlderUnchecked ==
  /\ older.state = "answered" /\ older' = NoPage
  /\ LET n == Earlier(older.page)
     IN  /\ base' = IF n = 0 THEN base ELSE PageBase(older.page)
         /\ win' = SubSeq(older.page.recs, 1, n) \o win
         /\ more' = older.page.more
         /\ skew' = [skew EXCEPT !.window = @ \cup skew.older]
  /\ UNCHANGED <<host, network, stream, opened, last, repair, faults>>

\* A page that does not reach the window is refused, and with it all older history.
TakeOlder ==
  /\ older.state = "answered" /\ older' = NoPage
  /\ LET n == Earlier(older.page)
     IN  IF n > 0 /\ win # <<>> /\ PageBase(older.page) + n # base
         THEN more' = FALSE /\ UNCHANGED <<base, win, skew>>
         ELSE /\ base' = IF n = 0 THEN base ELSE PageBase(older.page)
              /\ win' = SubSeq(older.page.recs, 1, n) \o win
              /\ more' = older.page.more
              /\ skew' = [skew EXCEPT !.window = @ \cup skew.older]
  /\ UNCHANGED <<host, network, stream, opened, last, repair, faults>>

\* A failure leaves the window as it was, and the console may ask again.
OlderFails ==
  /\ older # NoPage /\ faults < MaxFaults
  /\ faults' = faults + 1 /\ older' = NoPage
  /\ UNCHANGED <<host, network, stream, window, repair, skew>>

-----------------------------------------------------------------------------
\* Mutant: the page that is being read survives the generation it was asked in.
RetryKeepsRepair(seen) ==
  IF seen /\ attempt > 0 THEN Fail("carrier")
  ELSE /\ phase' = (IF seen THEN "opening" ELSE "waiting") /\ attempt' = Least(2, attempt + 1)
       /\ NoFrames /\ UNCHANGED <<why, window, pages, skew>>

\* Losing the socket ends the stream's generation and, later, Connection's Host
\* generation: the stream's handler may run before that one is cleared (`seen`), and
\* then retries at once the first time and gives up the second
\* (waitForRemoteStreamRetry).
Retry(seen) ==
  IF seen /\ attempt > 0 THEN Fail("carrier")
  ELSE /\ phase' = (IF seen THEN "opening" ELSE "waiting") /\ attempt' = Least(2, attempt + 1)
       /\ NoFrames /\ repair' = NoRepair /\ UNCHANGED <<why, window, older, skew>>

\* A restart of the host also forgets which runs it has closed on its bus, and
\* leaves a running turn without an end.
Lose(restart) ==
  /\ online /\ faults < MaxFaults
  /\ faults' = faults + 1 /\ online' = FALSE /\ ready' = FALSE
  /\ closed' = IF restart THEN {} ELSE closed
  /\ ends' = [t \in DOMAIN ends |-> IF restart /\ ends[t] = Running THEN Orphaned ELSE ends[t]]
  /\ IF phase \in {"opening", "live"} THEN \E seen \in {ready, FALSE} : Retry(seen)
     ELSE NoFrames /\ UNCHANGED <<stream, window, pages, skew>>
  /\ UNCHANGED <<log, starts>>

\* Opening needs a socket: a connection that cannot be made is a carrier failure too,
\* and with no socket there is no Host generation.
ConnectFails ==
  /\ ~online /\ phase = "opening" /\ faults < MaxFaults
  /\ faults' = faults + 1 /\ Retry(FALSE)
  /\ UNCHANGED <<host, online, ready>>

Reconnect ==
  /\ ~online /\ online' = TRUE
  /\ UNCHANGED <<host, srv, ready, wire, stream, window, pages, skew, faults>>

\* Connection publishes a Host generation: a stream that waits for one opens again.
Ready ==
  /\ online /\ ~ready /\ ready' = TRUE
  /\ phase' = IF phase = "waiting" THEN "opening" ELSE phase
  /\ UNCHANGED <<host, srv, online, wire, attempt, why, window, pages, skew, faults>>

\* The live prose asks for a new baseline (restart), or has skipped a revision, which
\* counts as a carrier failure.
Rebaseline ==
  /\ phase = "live" /\ faults < MaxFaults
  /\ faults' = faults + 1
  /\ \/ /\ phase' = "opening" /\ attempt' = 0 /\ NoFrames /\ repair' = NoRepair
        /\ UNCHANGED <<why, window, older, skew>>
     \/ Retry(ready)
  /\ UNCHANGED <<host, online, ready>>

-----------------------------------------------------------------------------
Next ==
  \/ Prompt \/ Record \/ Finish \/ Rename
  \/ ServeFollow \/ SendRecord \/ EndTurn \/ CutTurn \/ Locate \/ FollowNext \/ ServeRepair \/ ServeOlder
  \/ Open \/ TakeOpened \/ TakeEntry \/ TakeQueued \/ TakeRepair \/ RepairFails
  \/ LoadOlder \/ TakeOlder \/ OlderFails
  \/ (\E restart \in BOOLEAN : Lose(restart)) \/ ConnectFails \/ Reconnect \/ Ready \/ Rebaseline

\* The goroutines and the browser's callbacks run, the console reconnects for ever, and
\* a turn that was accepted writes its first event.
Fairness ==
  /\ WF_vars(ServeFollow) /\ WF_vars(SendRecord) /\ WF_vars(EndTurn) /\ WF_vars(Locate)
  /\ WF_vars(FollowNext) /\ WF_vars(ServeRepair) /\ WF_vars(ServeOlder)
  /\ WF_vars(TakeOpened) /\ WF_vars(TakeEntry) /\ WF_vars(TakeQueued) /\ WF_vars(TakeRepair)
  /\ WF_vars(TakeOlder) /\ WF_vars(Reconnect) /\ WF_vars(Ready)
  /\ WF_vars(FirstRecord)

Spec == Init /\ [][Next]_vars /\ Fairness

-----------------------------------------------------------------------------
\* Every variable holds what the code may store in it: the numbers in the window, on the
\* wire and in the pages are those of records, and a page is being read only over a window.
TypeOK ==
  /\ log \in Seq(Nat) /\ starts \in Seq(Nat) /\ Len(ends) = Len(starts)
  /\ \A t \in DOMAIN ends : ends[t] \in Nat \cup {Running, Orphaned}
  /\ closed \subseteq DOMAIN starts
  /\ srv.phase \in {"off", "pump", "await", "locate"}
  /\ {online, ready, opened, more} \subseteq BOOLEAN  \* each a flag
  /\ phase \in {"cold", "opening", "live", "waiting", "error"} /\ attempt \in 0 .. 2
  /\ why \in {"none", "carrier", "page", "violation", "gaps"}
  /\ base \in Nat /\ win \in Seq(Nat) /\ last \in Nat \cup {Empty, None}
  /\ repair.state \in {"none", "asked", "answered"} /\ older.state \in {"none", "asked", "answered"}
  /\ repair # NoRepair => phase = "live" /\ repair.round \in {1, 2} /\ Len(repair.queued) > 0
  /\ \A holder \in {"stream", "window", "older"} : skew[holder] \subseteq {"title", "prompt"}
  /\ faults \in 0 .. MaxFaults

\* The window the console shows is a run of the session's log, without a record missing,
\* twice or under another record's number, and ends at the cursor the stream has applied:
\* through gaps, repairs, "load earlier", turns that were skipped or cut short, reconnections
\* and restarts.  Two things only spoil it (`skew`): a title that went in front of a record
\* it had numbered already, and a turn that was followed at the offset of another; opening
\* the stream again repairs it (gateway/client.js acceptEntry, replaceThrough and prepend;
\* follow.go's offsets).
WindowIsLog ==
  opened =>
    /\ last = base + Len(win) - 1
    /\ skew.window = {} =>
         \A i \in DOMAIN win : base + i - 1 \in DOMAIN log /\ win[i] = log[base + i - 1]

\* The console takes the host's stream for a protocol violation only after a turn was
\* followed at the offset of another, because a prompt fell between the two reads: titles
\* at any time, turns cut short, losses and restarts leave every page reaching the cursor it
\* was asked for, and every resumed cursor at or ahead of the applied one.  One more read
\* is enough for a repair, unless the stream has gone through three turns meanwhile
\* (gateway/client.js opening, assertPageThrough and replaceThrough; follow.go's
\* awaitSessionTurn and Session).
PagesReach == why = "violation" => "prompt" \in skew.stream \cup skew.window
RepairsSuffice == why = "gaps" => Turns > 2
NoFalseAlarm == PagesReach /\ RepairsSuffice

\* A console that stays open sees what was logged up to the end of the newest turn, or is
\* told that the stream has failed, unless its numbers are askew, or its follower has
\* returned before the end (CutTurn), or waits for an end that nobody will append: the host
\* has died and the turn was left without one, or a title follows the end and the new host
\* does not know that the run is closed.  Nothing else leaves it behind (follow.go's
\* runFollow and client.js's RemoteStream.read together).
Shown == Turns = 0 \/ (Ended(Turns) => last >= starts[Turns] + ends[Turns])
CutShort == srv.phase = "await" /\ srv.turn = Turns /\ srv.sent < ends[Turns]
Stranded ==
  /\ srv.phase = "pump" /\ srv.turn <= Turns
  /\ \/ ends[srv.turn] = Orphaned
     \/ ~srv.ahead /\ Ended(srv.turn) /\ Size(srv.turn) > ends[srv.turn] /\ srv.turn \notin closed
CatchesUp ==
  []<>(phase \in {"cold", "error"} \/ Shown \/ CutShort \/ Stranded \/ skew.stream \cup skew.window # {})

\* Stream, pages and reconnections together implement a view of a conversation to which
\* records are added: whatever replaces the window, what the console shows while it is not
\* askew never ends earlier than what it showed before, and a record put in front of part
\* of it is the only thing that makes it wrong from outside (RemoteJournalStream as a whole).
View == INSTANCE ConversationView WITH
          Records <- 1 .. MaxRecords + MaxTurns, log <- log,
          view <- IF opened /\ skew.window = {} THEN [open |-> TRUE, first |-> base, recs |-> win]
                  ELSE [open |-> FALSE, first |-> 0, recs |-> <<>>]
ShowsTheConversation == View!Spec

\* A record keeps the number under which it was served: "the same session always serves
\* the same numbers" (dshwire/session.go).
SameNumbers == [][\A k \in DOMAIN log : k \in DOMAIN log' /\ log'[k] = log[k]]_vars
=============================================================================
