----------------------------- MODULE EventFollow -----------------------------
(***************************************************************************)
(* The event log of one run, the bus that announces its appends and the    *)
(* followers that stream it (eventlog/bus.go, eventlog/follow.go).  A      *)
(* follower subscribes first, then replays the log up to a watermark; a    *)
(* message of the bus, a closed subscription or a tick sends it back to    *)
(* the log.  The store is taken as correct and append-only, so an event is *)
(* its place in the log.  A log may go on behind an end: a title is added  *)
(* to it, the run is resumed and ends again.  What an earlier process      *)
(* wrote, or another one writes, was never announced on this bus.          *)
(***************************************************************************)
EXTENDS Naturals, Sequences

CONSTANTS Followers,   \* the calls of Follow
          MaxEvents,   \* bound on the log
          LiveBuffer,  \* the capacity of a subscription
          MaxFaults,   \* bound on reads, publications and contexts that fail
          OthersAppend \* other processes append to the log too

ASSUME FollowAssumption ==
  MaxEvents \in Nat /\ LiveBuffer \in Nat /\ MaxFaults \in Nat /\ OthersAppend \in BOOLEAN

VARIABLES log,         \* the events in the store: "end" ends a run, or its resumption
          fanout,      \* what FanoutStore.Append holds its mutex for, and its step
          closed,      \* the bus has closed the run
          subscribed,  \* whose channel the bus sends to
          channel,     \* the channel of each follower, and whether it is open
          pc,          \* where each follower is
          last,        \* the newest event it has delivered
          target,      \* how far it is replaying
          live,        \* it replays for a message, not for a watermark
          told,        \* an end ahead of it was there when it subscribed, or was sent to it
          faults       \* failures so far

writers == <<log, fanout>>
bus == <<closed, subscribed, channel>>
position == <<last, target, live>>
vars == <<writers, bus, pc, position, told, faults>>

Running == {"mark", "replay", "select", "resubscribe"}
Final == {"done", "stopped", "error"}

NoAppend == [event |-> 0, step |-> "none"]

NewChannel == [queue |-> <<>>, open |-> TRUE]
Close(c) == [queue |-> c.queue, open |-> FALSE]

EndsAt(n) == n \in DOMAIN log /\ log[n] = "end"
Ended == EndsAt(Len(log))
EndBeyond(n) == \E m \in DOMAIN log : m > n /\ EndsAt(m)

Init ==
  /\ log = <<>> /\ fanout = NoAppend /\ closed = FALSE /\ subscribed = {}
  /\ channel = [f \in Followers |-> Close(NewChannel)]
  /\ pc = [f \in Followers |-> "idle"]
  /\ last = [f \in Followers |-> 0] /\ target = [f \in Followers |-> 0]
  /\ live = {} /\ told = {} /\ faults = 0

-----------------------------------------------------------------------------
\* The writers: the agent, its resumption, or a title at any time.
Extend == Len(log) < MaxEvents /\ \E e \in {"step", "end"} : log' = Append(log, e)

FanoutAppend ==
  /\ fanout = NoAppend /\ Extend
  /\ fanout' = [event |-> Len(log'), step |-> "publish"]
  /\ UNCHANGED <<bus, pc, position, told, faults>>

\* An append of another process, of an earlier one, or around the bus.
DirectAppend ==
  OthersAppend /\ Extend /\ UNCHANGED <<fanout, bus, pc, position, told, faults>>

\* A full subscription is dropped and closed, a closed run is told nothing.
Full(f) == Len(channel[f].queue) >= LiveBuffer
Reached == {f \in subscribed : ~Full(f)}
Sent(f) ==
  IF f \in Reached THEN [channel[f] EXCEPT !.queue = Append(@, fanout.event)]
  ELSE IF f \in subscribed THEN Close(channel[f]) ELSE channel[f]

Published ==
  fanout' = IF EndsAt(fanout.event) THEN [fanout EXCEPT !.step = "close"] ELSE NoAppend

Publish ==
  /\ fanout.step = "publish" /\ Published
  /\ IF closed THEN UNCHANGED <<bus, told>>
     ELSE /\ channel' = [f \in Followers |-> Sent(f)] /\ subscribed' = Reached
          /\ told' = IF EndsAt(fanout.event)
                     THEN told \cup {f \in Reached : last[f] < fanout.event} ELSE told
          /\ UNCHANGED closed
  /\ UNCHANGED <<log, pc, position, faults>>

\* The context expires after the append: the event is stored and not published,
\* and the run is not closed.
PublishFails ==
  /\ fanout.step = "publish" /\ faults < MaxFaults
  /\ fanout' = NoAppend /\ faults' = faults + 1
  /\ UNCHANGED <<log, bus, pc, position, told>>

CloseBus ==
  /\ closed' = TRUE /\ subscribed' = {}
  /\ channel' = [f \in Followers |-> IF f \in subscribed THEN Close(channel[f]) ELSE channel[f]]

CloseRun ==
  /\ fanout.step = "close" /\ CloseBus /\ fanout' = NoAppend
  /\ UNCHANGED <<log, pc, position, told, faults>>

\* RunManager.finishLocked, after the agent's stream has ended, closes a run whose
\* end is in the log, or whose end could not be appended.
ManagerCloses ==
  /\ ~closed /\ fanout = NoAppend /\ CloseBus
  /\ IF Ended THEN UNCHANGED faults ELSE faults < MaxFaults /\ faults' = faults + 1
  /\ UNCHANGED <<writers, pc, position, told>>

-----------------------------------------------------------------------------
\* The followers.
Goto(f, place) == pc' = [pc EXCEPT ![f] = place]

\* Mutant: the bus does not look whether the run is closed.
SubscribeUnchecked(f, cursor) ==
  /\ channel' = [channel EXCEPT ![f] = NewChannel] /\ subscribed' = subscribed \cup {f}
  /\ told' = IF EndBeyond(cursor) THEN told \cup {f} ELSE told
  /\ Goto(f, "mark") /\ UNCHANGED <<closed, faults>>

\* A subscription to a closed run is closed from the start.
Subscribe(f, cursor) ==
  /\ channel' = [channel EXCEPT ![f] = IF closed THEN Close(NewChannel) ELSE NewChannel]
  /\ subscribed' = IF closed THEN subscribed ELSE subscribed \cup {f}
  /\ told' = IF EndBeyond(cursor) THEN told \cup {f} ELSE told
  /\ Goto(f, "mark") /\ UNCHANGED <<closed, faults>>

\* Leaving takes the follower's own channel off the bus, if it is still there.
Unsubscribed(f) ==
  /\ subscribed' = subscribed \ {f}
  /\ channel' = IF f \in subscribed THEN [channel EXCEPT ![f] = Close(@)] ELSE channel
  /\ UNCHANGED closed
Leave(f, outcome) == Goto(f, outcome) /\ Unsubscribed(f) /\ UNCHANGED <<told, faults>>

Follow(f) ==
  /\ pc[f] = "idle"
  /\ \E afterSeq \in 0 .. MaxEvents :
       Subscribe(f, afterSeq) /\ last' = [last EXCEPT ![f] = afterSeq]
  /\ UNCHANGED <<writers, target, live>>

\* Mutant: the watermark is the next number, not the latest.
MarkNext(f) ==
  /\ pc[f] = "mark" /\ Len(log) < MaxEvents
  /\ target' = [target EXCEPT ![f] = Len(log) + 1] /\ live' = live \ {f}
  /\ Goto(f, "replay") /\ UNCHANGED <<writers, bus, last, told, faults>>

Mark(f) ==
  /\ pc[f] = "mark"
  /\ target' = [target EXCEPT ![f] = Len(log)] /\ live' = live \ {f}
  /\ Goto(f, "replay") /\ UNCHANGED <<writers, bus, last, told, faults>>

\* One event handed to the client, the last one of a run ends the call; a target
\* that the store does not have is an error.
Deliver(f) ==
  /\ pc[f] = "replay" /\ last[f] < target[f]
  /\ IF last[f] < Len(log)
     THEN /\ last' = [last EXCEPT ![f] = @ + 1]
          /\ IF EndsAt(last'[f]) THEN Leave(f, "done") ELSE UNCHANGED <<bus, pc, told, faults>>
     ELSE Leave(f, "error") /\ UNCHANGED last
  /\ UNCHANGED <<writers, target, live>>

\* Mutant: the event at the watermark is not looked at.
ReplayedUnchecked(f) ==
  /\ pc[f] = "replay" /\ last[f] >= target[f]
  /\ Goto(f, IF f \in live THEN "mark" ELSE "select")
  /\ UNCHANGED <<writers, bus, position, told, faults>>

\* A cursor at or behind the watermark has nothing to wait for if that is an end.
Replayed(f) ==
  /\ pc[f] = "replay" /\ last[f] >= target[f]
  /\ IF f \in live THEN Goto(f, "mark") /\ UNCHANGED <<bus, told, faults>>
     ELSE IF EndsAt(target[f]) THEN Leave(f, "done")
     ELSE Goto(f, "select") /\ UNCHANGED <<bus, told, faults>>
  /\ UNCHANGED <<writers, position>>

\* Mutant: a message sets the replay beyond its event.
ReceiveNext(f) ==
  /\ pc[f] = "select" /\ channel[f].queue # <<>>
  /\ Goto(f, "replay") /\ live' = live \cup {f}
  /\ target' = [target EXCEPT ![f] = Head(channel[f].queue) + 1]
  /\ channel' = [channel EXCEPT ![f].queue = Tail(@)]
  /\ UNCHANGED <<writers, closed, subscribed, last, told, faults>>

Receive(f) ==
  /\ pc[f] = "select" /\ channel[f].queue # <<>>
  /\ LET n == Head(channel[f].queue)
     IN  IF n <= last[f] THEN Goto(f, "mark") /\ UNCHANGED <<target, live>>
         ELSE Goto(f, "replay") /\ target' = [target EXCEPT ![f] = n] /\ live' = live \cup {f}
  /\ channel' = [channel EXCEPT ![f].queue = Tail(@)]
  /\ UNCHANGED <<writers, closed, subscribed, last, told, faults>>

\* Mutant: the store is not polled.
NoTick(f) == FALSE

Tick(f) ==
  pc[f] = "select" /\ Goto(f, "mark") /\ UNCHANGED <<writers, bus, position, told, faults>>

\* Mutant: a closed channel is not read to its end.
ClosedChannel(f) == pc[f] = "select" /\ ~channel[f].open

\* The channel is drained and closed: by the end of the run or by an overflow.
Drained(f) == pc[f] = "select" /\ channel[f] = Close(NewChannel)

RunClosed(f) ==
  Drained(f) /\ closed /\ Leave(f, "done") /\ UNCHANGED <<writers, position>>

Overflowed(f) ==
  /\ Drained(f) /\ ~closed
  /\ Goto(f, "resubscribe") /\ UNCHANGED <<writers, bus, position, told, faults>>

Resubscribe(f) ==
  pc[f] = "resubscribe" /\ Subscribe(f, last[f]) /\ UNCHANGED <<writers, position>>

\* The client goes away, or a read of the store fails.
Stop(f) ==
  /\ pc[f] \in Running /\ faults < MaxFaults
  /\ faults' = faults + 1 /\ Goto(f, "stopped") /\ Unsubscribed(f)
  /\ UNCHANGED <<writers, position, told>>

\* The case of the select that is ready when the channel is.
ReadsChannel(f) == Receive(f) \/ RunClosed(f) \/ Overflowed(f)

FollowerStep(f) ==
  Mark(f) \/ Deliver(f) \/ Replayed(f) \/ ReadsChannel(f) \/ Tick(f) \/ Resubscribe(f)

Next ==
  \/ FanoutAppend \/ DirectAppend \/ Publish \/ PublishFails \/ CloseRun \/ ManagerCloses
  \/ \E f \in Followers : Follow(f) \/ FollowerStep(f) \/ Stop(f)

\* The goroutine of a follower runs, its client reads, its ticker ticks, and a
\* select that finds its channel ready each time does not take the ticker for
\* ever: it chooses by chance, and the ticker is not ready every time.
Fairness == \A f \in Followers : WF_vars(FollowerStep(f)) /\ SF_vars(ReadsChannel(f))

Spec == Init /\ [][Next]_vars /\ Fairness

-----------------------------------------------------------------------------
TypeOK ==
  /\ log \in Seq({"step", "end"}) /\ Len(log) <= MaxEvents
  /\ fanout \in [event : 0 .. Len(log), step : {"none", "publish", "close"}]
  /\ closed \in BOOLEAN /\ subscribed \subseteq Followers
  /\ channel \in [Followers -> [queue : Seq(1 .. MaxEvents), open : BOOLEAN]]
  /\ pc \in [Followers -> {"idle"} \cup Running \cup Final]
  /\ last \in [Followers -> 0 .. MaxEvents] /\ target \in [Followers -> 0 .. MaxEvents]
  /\ live \subseteq Followers /\ told \subseteq Followers

\* The bus never sends to a closed channel nor closes one twice, either of which
\* panics, no channel stays open behind a closed run, and no call that has ended
\* keeps its channel on the bus.
BusIsSound ==
  /\ \A f \in Followers : channel[f].open <=> f \in subscribed
  /\ closed => subscribed = {}
  /\ \A f \in subscribed : pc[f] \in Running

\* No message of the bus runs ahead of the log: a follower never reports that
\* what it was told of cannot be read.
NoFalseAlarm == \A f \in Followers : pc[f] # "error"

\* "Closed or overflowed subscriptions are replaced before a new watermark is
\* taken" (follow.go:28): a stream that ends by itself has an end behind it.
EndsWithTheEnd == \A f \in Followers : pc[f] = "done" => \E n \in 1 .. last[f] : EndsAt(n)

\* A stream that subscribed with an end ahead of it, or was sent one, ends by
\* itself only at an end: the one it has delivered last, or the one that was the
\* newest event and not ahead of its cursor.
ToldIsServed ==
  \A f \in told : pc[f] = "done" => EndsAt(last[f]) \/ EndsAt(target[f])

\* Whatever the bus loses, every event reaches the client of a stream that goes
\* on.
EverythingArrives ==
  \A f \in Followers : \A n \in 1 .. MaxEvents :
    (Len(log) >= n /\ pc[f] \in Running) ~> (last[f] >= n \/ pc[f] \in Final)

\* A stream ends that has an end ahead of it, or that the bus has closed the run
\* of; and one that has reached an end which stays the newest event.  (A stream
\* whose cursor is at or behind an end that a title was appended to, on a bus that
\* has not closed the run, goes on.)
StreamsEnd ==
  \A f \in Followers :
    /\ (pc[f] \in Running /\ (closed \/ EndBeyond(last[f]))) ~> (pc[f] \in Final)
    /\ (pc[f] \in Running /\ Ended) ~> (pc[f] \in Final \/ ~Ended)
=============================================================================
