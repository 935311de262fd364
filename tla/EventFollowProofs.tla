--------------------------- MODULE EventFollowProofs ---------------------------
(***************************************************************************)
(* Proofs about EventFollow for any set of followers, any log and any      *)
(* capacity of the subscriptions.                                          *)
(***************************************************************************)
EXTENDS EventFollow, TLAPS

\* What FanoutStore.Append publishes is in the log.
LogIsSound == fanout.step # "none" => fanout.event \in DOMAIN log

\* Everything a follower is told of, and replays to, is in the log.
Stored(f) ==
  /\ \A i \in DOMAIN channel[f].queue : channel[f].queue[i] <= Len(log)
  /\ pc[f] = "replay" => target[f] <= Len(log)
  /\ pc[f] # "error"
MessagesAreStored == \A f \in Followers : Stored(f)

\* A follower that was told of an end has the message of an end before it, or is
\* on its way to one, or has left.
Served(f) == pc[f] \in Final /\ (pc[f] = "done" => EndsAt(last[f]) \/ EndsAt(target[f]))
HasMessage(f, n) == \E i \in DOMAIN channel[f].queue : channel[f].queue[i] = n
Catching(f, n) == pc[f] = "replay" /\ n <= target[f]
Awaits(f, n) ==
  /\ EndsAt(n) /\ last[f] < n
  /\ HasMessage(f, n) \/ pc[f] = "mark" \/ Catching(f, n)
EndIsAhead(f) == Served(f) \/ (pc[f] \in Running /\ \E n \in Nat : Awaits(f, n))
EndsAreAhead == \A f \in told : EndIsAhead(f)

Inv == TypeOK /\ LogIsSound /\ BusIsSound /\ MessagesAreStored /\ EndsAreAhead

-----------------------------------------------------------------------------
\* Initially every part holds.
LEMMA Initially == Init => Inv
<1> SUFFICES ASSUME Init PROVE Inv
  OBVIOUS
<1>1. Close(NewChannel) = [queue |-> <<>>, open |-> FALSE]
  BY DEF NewChannel, Close
<1>2. channel = [f \in Followers |-> [queue |-> <<>>, open |-> FALSE]]
  BY <1>1 DEF Init
<1>3. TypeOK
  <2>1. log \in Seq({"step", "end"}) /\ Len(log) = 0
    BY DEF Init
  <2>2. channel \in [Followers -> [queue : Seq(1 .. MaxEvents), open : BOOLEAN]]
    <3>1. <<>> \in Seq(1 .. MaxEvents)
      OBVIOUS
    <3> QED
      BY <1>2, <3>1
  <2>3. fanout \in [event : 0 .. Len(log), step : {"none", "publish", "close"}]
    BY <2>1 DEF Init, NoAppend
  <2>4. pc \in [Followers -> {"idle"} \cup Running \cup Final]
    BY DEF Init
  <2>5. /\ last \in [Followers -> 0 .. MaxEvents] /\ target \in [Followers -> 0 .. MaxEvents]
        /\ Len(log) <= MaxEvents
    BY <2>1, FollowAssumption DEF Init
  <2>6. closed \in BOOLEAN /\ subscribed \subseteq Followers
        /\ live \subseteq Followers /\ told \subseteq Followers
    BY DEF Init
  <2> QED
    BY <2>1, <2>2, <2>3, <2>4, <2>5, <2>6 DEF TypeOK
<1>4. LogIsSound /\ BusIsSound /\ MessagesAreStored
  BY <1>2 DEF Init, LogIsSound, NoAppend, BusIsSound, MessagesAreStored, Stored, Running
<1>5. EndsAreAhead
  BY DEF Init, EndsAreAhead
<1> QED
  BY <1>3, <1>4, <1>5 DEF Inv

-----------------------------------------------------------------------------
\* What an append does to the log.
LEMMA Extended ==
  ASSUME TypeOK, Extend
  PROVE  /\ log' \in Seq({"step", "end"}) /\ Len(log') = Len(log) + 1 /\ Len(log') <= MaxEvents
         /\ \A n : EndsAt(n) => EndsAt(n)'
<1>1. PICK e \in {"step", "end"} : log' = Append(log, e)
  BY DEF Extend
<1>2. log \in Seq({"step", "end"}) /\ Len(log) \in Nat /\ Len(log) < MaxEvents
  BY DEF TypeOK, Extend
<1>3. log' \in Seq({"step", "end"}) /\ Len(log') = Len(log) + 1
  BY <1>1, <1>2
<1>4. ASSUME NEW n, EndsAt(n) PROVE EndsAt(n)'
  BY <1>1, <1>2, <1>4 DEF EndsAt
<1> QED
  BY <1>2, <1>3, <1>4, FollowAssumption DEF TypeOK

\* What Publish does to each channel.
LEMMA PublishedChannel ==
  ASSUME TypeOK, LogIsSound, Publish, ~closed, NEW f \in Followers
  PROVE  /\ fanout.event \in 1 .. Len(log) /\ subscribed' = Reached /\ closed' = closed
         /\ channel' \in [Followers -> [queue : Seq(1 .. MaxEvents), open : BOOLEAN]]
         /\ f \in Reached =>
              /\ channel'[f].queue = Append(channel[f].queue, fanout.event)
              /\ channel'[f].open = channel[f].open
         /\ f \in subscribed \ Reached =>
              channel'[f].queue = channel[f].queue /\ ~channel'[f].open
         /\ f \notin subscribed => channel'[f] = channel[f]
<1>1. fanout.event \in 1 .. Len(log) /\ Len(log) <= MaxEvents /\ Len(log) \in Nat
  BY DEF Publish, LogIsSound, TypeOK
<1>2. /\ channel' = [g \in Followers |-> Sent(g)] /\ subscribed' = Reached /\ closed' = closed
  BY DEF Publish
<1>3. ASSUME NEW g \in Followers
      PROVE  Sent(g) \in [queue : Seq(1 .. MaxEvents), open : BOOLEAN]
  <2>1. channel[g] \in [queue : Seq(1 .. MaxEvents), open : BOOLEAN]
    BY DEF TypeOK
  <2>2. fanout.event \in 1 .. MaxEvents
    BY <1>1, FollowAssumption
  <2>3. Append(channel[g].queue, fanout.event) \in Seq(1 .. MaxEvents)
    BY <2>1, <2>2
  <2> QED
    BY <2>1, <2>3 DEF Sent, Close
<1>4. channel[f] \in [queue : Seq(1 .. MaxEvents), open : BOOLEAN] /\ Reached \subseteq subscribed
  BY DEF TypeOK, Reached
<1> QED
  BY <1>1, <1>2, <1>3, <1>4 DEF Sent, Close

\* Closing the bus leaves every queue as it is.
LEMMA ClosedChannels ==
  ASSUME TypeOK, CloseBus
  PROVE  /\ channel' \in [Followers -> [queue : Seq(1 .. MaxEvents), open : BOOLEAN]]
         /\ \A f \in Followers : /\ channel'[f].queue = channel[f].queue
                                 /\ channel'[f].open = (channel[f].open /\ f \notin subscribed)
BY DEF TypeOK, CloseBus, Close

\* So does leaving.
LEMMA LeftChannels ==
  ASSUME TypeOK, NEW f \in Followers, Unsubscribed(f)
  PROVE  /\ channel' \in [Followers -> [queue : Seq(1 .. MaxEvents), open : BOOLEAN]]
         /\ \A g \in Followers : channel'[g].queue = channel[g].queue
         /\ \A g \in Followers : g # f => channel'[g] = channel[g]
         /\ f \in subscribed => ~channel'[f].open
         /\ f \notin subscribed => channel'[f] = channel[f]
         /\ subscribed' = subscribed \ {f} /\ closed' = closed
BY DEF TypeOK, Unsubscribed, Close

\* A subscription starts with an empty channel.
LEMMA NewChannels ==
  ASSUME TypeOK, NEW f \in Followers, NEW cursor, Subscribe(f, cursor)
  PROVE  /\ channel' \in [Followers -> [queue : Seq(1 .. MaxEvents), open : BOOLEAN]]
         /\ channel'[f].queue = <<>> /\ channel'[f].open = ~closed
         /\ \A g \in Followers : g # f => channel'[g] = channel[g]
         /\ subscribed' = (IF closed THEN subscribed ELSE subscribed \cup {f})
         /\ pc' = [pc EXCEPT ![f] = "mark"] /\ closed' = closed
         /\ told' = (IF EndBeyond(cursor) THEN told \cup {f} ELSE told)
<1>1. <<>> \in Seq(1 .. MaxEvents)
  OBVIOUS
<1> QED
  BY <1>1 DEF TypeOK, Subscribe, NewChannel, Close, Goto

\* A step of a follower, by what it does to the bus.
Follows(f) == Follow(f) \/ FollowerStep(f) \/ Stop(f)

LEMMA FollowersWriteNothing ==
  ASSUME NEW f \in Followers, Follows(f)
  PROVE  log' = log /\ fanout' = fanout /\ closed' = closed
BY DEF Follows, FollowerStep, ReadsChannel, Follow, Mark, Deliver, Replayed, Receive, Tick, RunClosed,
       Overflowed, Resubscribe, Stop, Subscribe, Leave, Unsubscribed, writers, bus

LEMMA SubscribedTypes ==
  ASSUME TypeOK, NEW f \in Followers, NEW cursor, Subscribe(f, cursor)
  PROVE  /\ channel' \in [Followers -> [queue : Seq(1 .. MaxEvents), open : BOOLEAN]]
         /\ subscribed' \subseteq Followers /\ told' \subseteq Followers /\ closed' \in BOOLEAN
         /\ pc' \in [Followers -> {"idle"} \cup Running \cup Final]
<1>1. channel' \in [Followers -> [queue : Seq(1 .. MaxEvents), open : BOOLEAN]]
  BY NewChannels
<1>2. subscribed' \subseteq Followers /\ told' \subseteq Followers /\ closed' \in BOOLEAN
  <2>1. /\ subscribed \subseteq Followers /\ told \subseteq Followers /\ closed \in BOOLEAN
    BY DEF TypeOK
  <2> QED
    BY <2>1 DEF Subscribe
<1>3. pc' \in [Followers -> {"idle"} \cup Running \cup Final]
  BY DEF Subscribe, Goto, TypeOK, Running
<1> QED
  BY <1>1, <1>2, <1>3

\* A sequence that is not empty has a first element and a rest.
LEMMA NonEmptySequence ==
  ASSUME NEW S, NEW q \in Seq(S), q # <<>>
  PROVE  Head(q) \in S /\ Tail(q) \in Seq(S)
OBVIOUS

-----------------------------------------------------------------------------
\* Types.
LEMMA TypeStep ==
  ASSUME TypeOK, LogIsSound, [Next]_vars
  PROVE  TypeOK'
<1> USE FollowAssumption
<1>1. CASE FanoutAppend
  <2>1. log' \in Seq({"step", "end"}) /\ Len(log') <= MaxEvents /\ Len(log') \in Nat
    BY <1>1, Extended DEF FanoutAppend
  <2>2. fanout' \in [event : 0 .. Len(log'), step : {"none", "publish", "close"}]
    BY <1>1, <2>1 DEF FanoutAppend
  <2> QED
    BY <1>1, <2>1, <2>2 DEF FanoutAppend, TypeOK, bus, position
<1>2. CASE DirectAppend
  <2>1. log' \in Seq({"step", "end"}) /\ Len(log') <= MaxEvents /\ Len(log') = Len(log) + 1
    BY <1>2, Extended DEF DirectAppend
  <2>2. fanout' \in [event : 0 .. Len(log'), step : {"none", "publish", "close"}]
    BY <1>2, <2>1 DEF DirectAppend, TypeOK
  <2> QED
    BY <1>2, <2>1, <2>2 DEF DirectAppend, TypeOK, bus, position
<1>3. CASE Publish
  <2>1. fanout' \in [event : 0 .. Len(log), step : {"none", "publish", "close"}]
    <3>1. fanout' = [fanout EXCEPT !.step = "close"] \/ fanout' = NoAppend
      BY <1>3 DEF Publish, Published
    <3> QED
      <4>1. fanout \in [event : 0 .. Len(log), step : {"none", "publish", "close"}] /\ Len(log) \in Nat
        BY DEF TypeOK
      <4> QED
        BY <3>1, <4>1 DEF NoAppend
  <2>2. CASE closed
    BY <1>3, <2>1, <2>2 DEF Publish, TypeOK, bus, position
  <2>3. CASE ~closed
    <3>1. Reached \subseteq Followers
      BY DEF Reached, TypeOK
    <3>2. channel' \in [Followers -> [queue : Seq(1 .. MaxEvents), open : BOOLEAN]]
      <4>1. CASE Followers = {}
        BY <1>3, <2>3, <4>1 DEF Publish
      <4>2. CASE Followers # {}
        BY <1>3, <2>3, <4>2, PublishedChannel
      <4> QED
        BY <4>1, <4>2
    <3> QED
      BY <1>3, <2>1, <2>3, <3>1, <3>2 DEF Publish, TypeOK, position
  <2> QED
    BY <2>2, <2>3
<1>4. CASE PublishFails
  BY <1>4 DEF PublishFails, TypeOK, NoAppend, bus, position
<1>5. CASE CloseRun
  BY <1>5, ClosedChannels DEF CloseRun, CloseBus, TypeOK, NoAppend, position
<1>6. CASE ManagerCloses
  BY <1>6, ClosedChannels DEF ManagerCloses, CloseBus, TypeOK, writers, position
<1>7. ASSUME NEW f \in Followers, Follow(f) PROVE TypeOK'
  <2>1. /\ channel' \in [Followers -> [queue : Seq(1 .. MaxEvents), open : BOOLEAN]]
        /\ subscribed' \subseteq Followers /\ told' \subseteq Followers /\ closed' \in BOOLEAN
        /\ pc' \in [Followers -> {"idle"} \cup Running \cup Final]
    <3>1. PICK cursor : Subscribe(f, cursor)
      BY <1>7 DEF Follow
    <3> QED
      BY <3>1, SubscribedTypes
  <2>2. last' \in [Followers -> 0 .. MaxEvents]
    <3>1. PICK afterSeq \in 0 .. MaxEvents : last' = [last EXCEPT ![f] = afterSeq]
      BY <1>7 DEF Follow
    <3> QED
      BY <3>1 DEF TypeOK
  <2> QED
    BY <1>7, <2>1, <2>2 DEF Follow, TypeOK, writers
<1>8. ASSUME NEW f \in Followers, Mark(f) PROVE TypeOK'
  BY <1>8 DEF Mark, Goto, TypeOK, writers, bus, Running
<1>9. ASSUME NEW f \in Followers, Leave(f, "done") \/ Leave(f, "error") \/ Leave(f, "stopped")
      PROVE  /\ pc' \in [Followers -> {"idle"} \cup Running \cup Final]
             /\ channel' \in [Followers -> [queue : Seq(1 .. MaxEvents), open : BOOLEAN]]
             /\ subscribed' \subseteq Followers /\ closed' = closed /\ told' = told
  <2>1. Unsubscribed(f)
    BY <1>9 DEF Leave
  <2>2. pc' \in [Followers -> {"idle"} \cup Running \cup Final]
    BY <1>9 DEF Leave, Goto, TypeOK, Final
  <2>3. /\ channel' \in [Followers -> [queue : Seq(1 .. MaxEvents), open : BOOLEAN]]
        /\ subscribed' \subseteq Followers /\ closed' = closed
    BY <2>1, LeftChannels DEF TypeOK
  <2> QED
    BY <1>9, <2>2, <2>3 DEF Leave
<1>10. ASSUME NEW f \in Followers, Deliver(f) PROVE TypeOK'
  <2>0. last' \in [Followers -> 0 .. MaxEvents]
    <3>1. last' = [last EXCEPT ![f] = last[f] + 1] \/ last' = last
      BY <1>10 DEF Deliver
    <3>2. last \in [Followers -> 0 .. MaxEvents] /\ target[f] \in 0 .. MaxEvents
      BY DEF TypeOK
    <3>3. last[f] < target[f]
      BY <1>10 DEF Deliver
    <3>4. last[f] + 1 \in 0 .. MaxEvents
      BY <3>2, <3>3
    <3> QED
      BY <3>1, <3>2, <3>4
  <2>1. CASE last[f] < Len(log) /\ ~EndsAt(last'[f])
    BY <1>10, <2>0, <2>1 DEF Deliver, TypeOK, writers, bus
  <2>2. CASE last[f] < Len(log) /\ EndsAt(last'[f])
    <3>1. Leave(f, "done")
      BY <1>10, <2>2 DEF Deliver
    <3> QED
      BY <1>9, <1>10, <2>0, <3>1 DEF Deliver, TypeOK, writers
  <2>3. CASE ~(last[f] < Len(log))
    <3>1. Leave(f, "error")
      BY <1>10, <2>3 DEF Deliver
    <3> QED
      BY <1>9, <1>10, <2>0, <3>1 DEF Deliver, TypeOK, writers
  <2> QED
    BY <2>1, <2>2, <2>3
<1>11. ASSUME NEW f \in Followers, Replayed(f) PROVE TypeOK'
  <2>1. CASE Goto(f, "mark") \/ Goto(f, "select")
    BY <1>11, <2>1, <1>9 DEF Replayed, Goto, TypeOK, writers, bus, position, Running, Leave
  <2>2. CASE Leave(f, "done")
    BY <1>9, <1>11, <2>2 DEF Replayed, TypeOK, writers, position
  <2> QED
    BY <1>11, <2>1, <2>2 DEF Replayed
<1>12. ASSUME NEW f \in Followers, Receive(f) PROVE TypeOK'
  <2>1. channel[f].queue \in Seq(1 .. MaxEvents) /\ channel[f].queue # <<>>
    <3>1. channel[f] \in [queue : Seq(1 .. MaxEvents), open : BOOLEAN]
      BY DEF TypeOK
    <3> QED
      BY <1>12, <3>1 DEF Receive
  <2>2. Head(channel[f].queue) \in 1 .. MaxEvents /\ Tail(channel[f].queue) \in Seq(1 .. MaxEvents)
    BY <2>1, NonEmptySequence
  <2>3. channel' \in [Followers -> [queue : Seq(1 .. MaxEvents), open : BOOLEAN]]
    <3>1. channel \in [Followers -> [queue : Seq(1 .. MaxEvents), open : BOOLEAN]]
      BY DEF TypeOK
    <3>2. channel' = [channel EXCEPT ![f].queue = Tail(channel[f].queue)]
      BY <1>12 DEF Receive
    <3> QED
      BY <2>2, <3>1, <3>2
  <2>4. target' \in [Followers -> 0 .. MaxEvents] /\ live' \subseteq Followers
    <3>1. \/ target' = target /\ live' = live
          \/ target' = [target EXCEPT ![f] = Head(channel[f].queue)] /\ live' = live \cup {f}
      BY <1>12 DEF Receive
    <3>2. Head(channel[f].queue) \in 0 .. MaxEvents
      BY <2>2
    <3> QED
      BY <3>1, <3>2 DEF TypeOK
  <2>5. pc' \in [Followers -> {"idle"} \cup Running \cup Final]
    BY <1>12 DEF Receive, TypeOK, Goto, Running
  <2> QED
    BY <1>12, <2>3, <2>4, <2>5 DEF Receive, TypeOK, writers
<1>13. ASSUME NEW f \in Followers, Tick(f) PROVE TypeOK'
  BY <1>13 DEF Tick, Goto, TypeOK, writers, bus, position, Running
<1>14. ASSUME NEW f \in Followers, RunClosed(f) PROVE TypeOK'
  BY <1>9, <1>14 DEF RunClosed, TypeOK, writers, position
<1>15. ASSUME NEW f \in Followers, Overflowed(f) PROVE TypeOK'
  BY <1>15 DEF Overflowed, Goto, TypeOK, writers, bus, position, Running
<1>16. ASSUME NEW f \in Followers, Resubscribe(f) PROVE TypeOK'
  <2>1. Subscribe(f, last[f]) /\ UNCHANGED <<writers, position>> /\ faults' = faults
    BY <1>16 DEF Resubscribe, Subscribe
  <2> QED
    BY <2>1, SubscribedTypes DEF TypeOK, writers, position
<1>17. ASSUME NEW f \in Followers, Stop(f) PROVE TypeOK'
  BY <1>17, LeftChannels DEF Stop, Goto, TypeOK, writers, position, Final
<1>18. CASE UNCHANGED vars
  BY <1>18 DEF vars, writers, bus, position, TypeOK
<1> QED
  BY <1>1, <1>2, <1>3, <1>4, <1>5, <1>6, <1>7, <1>8, <1>10, <1>11, <1>12, <1>13, <1>14, <1>15,
     <1>16, <1>17, <1>18 DEF Next, FollowerStep, ReadsChannel

\* The log.
LEMMA LogStep ==
  ASSUME TypeOK, LogIsSound, [Next]_vars
  PROVE  LogIsSound'
<1>1. CASE FanoutAppend
  <2>1. log' \in Seq({"step", "end"}) /\ Len(log') = Len(log) + 1
    BY <1>1, Extended DEF FanoutAppend
  <2>2. fanout'.event \in DOMAIN log'
    BY <1>1, <2>1 DEF FanoutAppend, TypeOK
  <2> QED
    BY <2>1, <2>2 DEF LogIsSound
<1>2. CASE DirectAppend
  <2>1. log' \in Seq({"step", "end"}) /\ Len(log') = Len(log) + 1
    BY <1>2, Extended DEF DirectAppend
  <2>2. fanout'.step # "none" => fanout'.event \in DOMAIN log'
    BY <1>2, <2>1 DEF DirectAppend, LogIsSound, TypeOK
  <2> QED
    BY <2>1, <2>2 DEF LogIsSound
<1>3. CASE Publish
  <2>1. fanout' = [fanout EXCEPT !.step = "close"] \/ fanout' = NoAppend
    BY <1>3 DEF Publish, Published
  <2>2. fanout'.step # "none" => fanout'.event = fanout.event
    BY <2>1 DEF NoAppend, TypeOK
  <2>3. log' = log /\ fanout.event \in DOMAIN log
    BY <1>3 DEF Publish, LogIsSound
  <2> QED
    BY <2>2, <2>3 DEF LogIsSound
<1>4. CASE PublishFails \/ CloseRun
  BY <1>4 DEF PublishFails, CloseRun, LogIsSound, NoAppend
<1>5. CASE ManagerCloses \/ UNCHANGED vars
  BY <1>5 DEF ManagerCloses, LogIsSound, vars, writers
<1>6. ASSUME NEW f \in Followers, Follows(f) PROVE LogIsSound'
  BY <1>6, FollowersWriteNothing DEF LogIsSound
<1> QED
  BY <1>1, <1>2, <1>3, <1>4, <1>5, <1>6 DEF Next, Follows

-----------------------------------------------------------------------------
\* The bus.  A follower whose place changes is still running, or has left.
LEMMA SoundWhenItLeaves ==
  ASSUME TypeOK, BusIsSound, NEW f \in Followers, NEW outcome, Goto(f, outcome), Unsubscribed(f)
  PROVE  BusIsSound'
<1>1. /\ \A g \in Followers : g # f => channel'[g] = channel[g] /\ pc'[g] = pc[g]
      /\ f \in subscribed => ~channel'[f].open
      /\ f \notin subscribed => channel'[f] = channel[f]
      /\ subscribed' = subscribed \ {f} /\ closed' = closed
  BY LeftChannels DEF Goto, TypeOK
<1>2. ASSUME NEW g \in Followers PROVE channel'[g].open <=> g \in subscribed'
  <2>1. channel[g].open <=> g \in subscribed
    BY DEF BusIsSound
  <2>2. CASE g = f
    BY <1>1, <2>1, <2>2
  <2>3. CASE g # f
    BY <1>1, <2>1, <2>3
  <2> QED
    BY <2>2, <2>3
<1>3. \A g \in subscribed' : pc'[g] \in Running
  BY <1>1 DEF BusIsSound, TypeOK
<1>4. closed' => subscribed' = {}
  BY <1>1 DEF BusIsSound
<1> QED
  BY <1>2, <1>3, <1>4 DEF BusIsSound

LEMMA SoundWhenItMoves ==
  ASSUME TypeOK, BusIsSound, NEW f \in Followers, NEW place \in Running, Goto(f, place),
         subscribed' = subscribed, closed' = closed,
         \A g \in Followers : channel'[g].open = channel[g].open
  PROVE  BusIsSound'
BY DEF BusIsSound, Goto, TypeOK, Running

LEMMA SoundWhenItSubscribes ==
  ASSUME TypeOK, BusIsSound, NEW f \in Followers, NEW cursor, Subscribe(f, cursor)
  PROVE  BusIsSound'
<1>1. /\ \A g \in Followers : g # f => channel'[g] = channel[g] /\ pc'[g] = pc[g]
      /\ channel'[f].open = ~closed /\ pc'[f] = "mark" /\ closed' = closed
      /\ subscribed' = (IF closed THEN subscribed ELSE subscribed \cup {f})
  BY NewChannels DEF TypeOK
<1>2. ASSUME NEW g \in Followers PROVE channel'[g].open <=> g \in subscribed'
  <2>1. (channel[g].open <=> g \in subscribed) /\ (closed => subscribed = {})
    BY DEF BusIsSound
  <2>2. CASE g = f
    BY <1>1, <2>1, <2>2
  <2>3. CASE g # f
    BY <1>1, <2>1, <2>3
  <2> QED
    BY <2>2, <2>3
<1>3. \A g \in subscribed' : pc'[g] \in Running
  BY <1>1 DEF BusIsSound, TypeOK, Running
<1>4. closed' => subscribed' = {}
  BY <1>1 DEF BusIsSound
<1> QED
  BY <1>2, <1>3, <1>4 DEF BusIsSound

LEMMA BusStep ==
  ASSUME TypeOK, LogIsSound, BusIsSound, [Next]_vars
  PROVE  BusIsSound'
<1>1. CASE FanoutAppend \/ DirectAppend \/ PublishFails \/ UNCHANGED vars
  BY <1>1 DEF FanoutAppend, DirectAppend, PublishFails, vars, bus, BusIsSound
<1>2. CASE Publish
  <2>1. CASE closed
    BY <1>2, <2>1 DEF Publish, bus, BusIsSound
  <2>2. CASE ~closed
    <3>1. pc' = pc /\ subscribed' = Reached /\ closed' = closed /\ Reached \subseteq subscribed
      BY <1>2, <2>2 DEF Publish, Reached
    <3>2. ASSUME NEW f \in Followers PROVE channel'[f].open <=> f \in subscribed'
      <4>1. channel[f].open <=> f \in subscribed
        BY DEF BusIsSound
      <4>2. channel[f].open \in BOOLEAN
        BY DEF TypeOK
      <4> QED
        BY <1>2, <2>2, <3>1, <4>1, <4>2, PublishedChannel
    <3> QED
      BY <2>2, <3>1, <3>2 DEF BusIsSound, TypeOK
  <2> QED
    BY <2>1, <2>2
<1>3. CASE CloseRun \/ ManagerCloses
  <2>1. CloseBus /\ pc' = pc
    BY <1>3 DEF CloseRun, ManagerCloses
  <2>2. \A f \in Followers : ~channel'[f].open
    BY <2>1, ClosedChannels DEF BusIsSound
  <2> QED
    BY <2>1, <2>2 DEF CloseBus, BusIsSound
<1>4. ASSUME NEW f \in Followers, Follow(f) \/ Resubscribe(f) PROVE BusIsSound'
  <2>1. PICK cursor : Subscribe(f, cursor)
    BY <1>4 DEF Follow, Resubscribe
  <2> QED
    BY <2>1, SoundWhenItSubscribes
<1>5. ASSUME NEW f \in Followers, Mark(f) \/ Tick(f) \/ Overflowed(f) PROVE BusIsSound'
  <2>1. \E place \in Running : Goto(f, place)
    BY <1>5 DEF Mark, Tick, Overflowed, Running
  <2>2. UNCHANGED bus
    BY <1>5 DEF Mark, Tick, Overflowed
  <2> QED
    BY <2>1, <2>2, SoundWhenItMoves DEF bus
<1>6. ASSUME NEW f \in Followers, Deliver(f) PROVE BusIsSound'
  <2>1. \/ \E outcome : Goto(f, outcome) /\ Unsubscribed(f)
        \/ UNCHANGED <<bus, pc>>
    BY <1>6 DEF Deliver, Leave
  <2>2. CASE UNCHANGED <<bus, pc>>
    BY <2>2 DEF bus, BusIsSound
  <2> QED
    BY <2>1, <2>2, SoundWhenItLeaves
<1>7. ASSUME NEW f \in Followers, Replayed(f) PROVE BusIsSound'
  <2>1. \/ \E outcome : Goto(f, outcome) /\ Unsubscribed(f)
        \/ UNCHANGED bus /\ (Goto(f, "mark") \/ Goto(f, "select"))
    BY <1>7 DEF Replayed, Leave
  <2>2. "mark" \in Running /\ "select" \in Running
    BY DEF Running
  <2> QED
    BY <2>1, <2>2, SoundWhenItLeaves, SoundWhenItMoves DEF bus
<1>8. ASSUME NEW f \in Followers, Receive(f) PROVE BusIsSound'
  <2>1. (Goto(f, "mark") \/ Goto(f, "replay")) /\ subscribed' = subscribed /\ closed' = closed
    BY <1>8 DEF Receive
  <2>2. \A g \in Followers : channel'[g].open = channel[g].open
    BY <1>8 DEF Receive, TypeOK
  <2>3. "mark" \in Running /\ "replay" \in Running
    BY DEF Running
  <2> QED
    BY <2>1, <2>2, <2>3, SoundWhenItMoves
<1>9. ASSUME NEW f \in Followers, RunClosed(f) PROVE BusIsSound'
  BY <1>9, SoundWhenItLeaves DEF RunClosed, Leave
<1>10. ASSUME NEW f \in Followers, Stop(f) PROVE BusIsSound'
  BY <1>10, SoundWhenItLeaves DEF Stop
<1> QED
  BY <1>1, <1>2, <1>3, <1>4, <1>5, <1>6, <1>7, <1>8, <1>9, <1>10 DEF Next, FollowerStep, ReadsChannel

-----------------------------------------------------------------------------
\* The messages.
LEMMA StoredWhenElsewhere ==
  ASSUME NEW f \in Followers, Stored(f), Len(log') = Len(log),
         channel'[f].queue = channel[f].queue, pc'[f] = pc[f], target'[f] = target[f]
  PROVE  Stored(f)'
BY DEF Stored

\* A step of another follower.
LEMMA OthersStay ==
  ASSUME TypeOK, NEW f \in Followers, Follows(f), NEW g \in Followers, g # f
  PROVE  /\ channel'[g] = channel[g] /\ pc'[g] = pc[g]
         /\ target'[g] = target[g] /\ last'[g] = last[g] /\ (g \in live' <=> g \in live)
         /\ (g \in told' <=> g \in told)
<1>1. ASSUME NEW cursor, Subscribe(f, cursor)
      PROVE channel'[g] = channel[g] /\ pc'[g] = pc[g] /\ (g \in told' <=> g \in told)
  <2>1. channel'[g] = channel[g] /\ pc' = [pc EXCEPT ![f] = "mark"]
    BY <1>1, NewChannels
  <2>2. g \in told' <=> g \in told
    BY <1>1 DEF Subscribe
  <2> QED
    BY <2>1, <2>2 DEF TypeOK
<1>2. ASSUME Unsubscribed(f) PROVE channel'[g] = channel[g]
  BY <1>2, LeftChannels
<1>3. CASE Follow(f) \/ Resubscribe(f)
  BY <1>1, <1>3 DEF Follow, Resubscribe, position, TypeOK
<1>4. CASE Mark(f) \/ Tick(f) \/ Overflowed(f)
  BY <1>4 DEF Mark, Tick, Overflowed, Goto, bus, position, TypeOK
<1>5. CASE Deliver(f)
  <2>1. /\ target' = target /\ live' = live /\ told' = told
        /\ last' = last \/ last' = [last EXCEPT ![f] = @ + 1]
        /\ \/ UNCHANGED <<bus, pc>>
           \/ Unsubscribed(f) /\ \E outcome : Goto(f, outcome)
    BY <1>5 DEF Deliver, Leave
  <2> QED
    BY <2>1, <1>2 DEF Goto, bus, TypeOK
<1>6. CASE Replayed(f)
  <2>1. /\ UNCHANGED position /\ told' = told
        /\ UNCHANGED bus \/ Unsubscribed(f)
        /\ \E outcome : Goto(f, outcome)
    BY <1>6 DEF Replayed, Leave
  <2> QED
    BY <2>1, <1>2 DEF Goto, bus, position, TypeOK
<1>7. CASE Receive(f)
  BY <1>7 DEF Receive, Goto, TypeOK
<1>8. CASE RunClosed(f) \/ Stop(f)
  <2>1. /\ UNCHANGED position /\ told' = told /\ Unsubscribed(f)
        /\ \E outcome : Goto(f, outcome)
    BY <1>8 DEF RunClosed, Stop, Leave
  <2> QED
    BY <2>1, <1>2 DEF Goto, position, TypeOK
<1> QED
  BY <1>3, <1>4, <1>5, <1>6, <1>7, <1>8 DEF Follows, FollowerStep, ReadsChannel

LEMMA MessageStep ==
  ASSUME TypeOK, LogIsSound, MessagesAreStored, [Next]_vars
  PROVE  MessagesAreStored'
<1> SUFFICES ASSUME NEW g \in Followers PROVE Stored(g)'
  BY DEF MessagesAreStored
<1>0. Stored(g) /\ Len(log) \in Nat
  BY DEF MessagesAreStored, TypeOK
<1>1. CASE FanoutAppend \/ DirectAppend
  <2>1. Len(log') = Len(log) + 1 /\ UNCHANGED <<channel, pc, target>>
    BY <1>1, Extended DEF FanoutAppend, DirectAppend, bus, position
  <2>2. target[g] \in Nat
    BY DEF TypeOK
  <2>3. \A i \in DOMAIN channel[g].queue : channel[g].queue[i] \in Nat
    <3>1. channel[g] \in [queue : Seq(1 .. MaxEvents), open : BOOLEAN]
      BY DEF TypeOK
    <3>2. channel[g].queue \in Seq(1 .. MaxEvents)
      BY <3>1
    <3> QED
      BY <3>2, FollowAssumption
  <2> QED
    BY <1>0, <2>1, <2>2, <2>3 DEF Stored
<1>2. CASE Publish
  <2>1. log' = log /\ pc' = pc /\ target' = target
    BY <1>2 DEF Publish, position
  <2>2. CASE channel'[g].queue = channel[g].queue
    BY <1>0, <2>1, <2>2, StoredWhenElsewhere
  <2>3. CASE ~closed /\ g \in Reached
    <3>1. channel'[g].queue = Append(channel[g].queue, fanout.event)
          /\ fanout.event \in 1 .. Len(log) /\ channel[g].queue \in Seq(1 .. MaxEvents)
      <4>1. channel[g] \in [queue : Seq(1 .. MaxEvents), open : BOOLEAN]
        BY DEF TypeOK
      <4> QED
        BY <1>2, <2>3, <4>1, PublishedChannel
    <3> QED
      BY <1>0, <2>1, <3>1 DEF Stored
  <2>4. CASE closed
    BY <1>2, <2>2, <2>4 DEF Publish, bus
  <2> QED
    BY <1>2, <2>2, <2>3, <2>4, PublishedChannel
<1>3. CASE PublishFails \/ UNCHANGED vars
  BY <1>0, <1>3, StoredWhenElsewhere DEF PublishFails, vars, writers, bus, position
<1>4. CASE CloseRun \/ ManagerCloses
  <2>1. CloseBus /\ log' = log /\ pc' = pc /\ target' = target
    BY <1>4 DEF CloseRun, ManagerCloses, writers, position
  <2> QED
    BY <1>0, <2>1, ClosedChannels, StoredWhenElsewhere
<1>5. ASSUME NEW f \in Followers, Follows(f), g # f PROVE Stored(g)'
  BY <1>0, <1>5, OthersStay, FollowersWriteNothing, StoredWhenElsewhere
<1>6. ASSUME Follows(g) PROVE Stored(g)'
  <2>0. log' = log
    BY <1>6, FollowersWriteNothing
  <2>1. CASE Follow(g) \/ Resubscribe(g)
    <3>1. channel'[g].queue = <<>> /\ pc'[g] = "mark"
      BY <2>1, NewChannels DEF Follow, Resubscribe, TypeOK
    <3> QED
      BY <3>1 DEF Stored
  <2>2. CASE Mark(g)
    <3>1. target'[g] = Len(log) /\ channel' = channel /\ pc'[g] = "replay"
      BY <2>2 DEF Mark, Goto, bus, TypeOK
    <3> QED
      BY <1>0, <2>0, <3>1 DEF Stored
  <2>3. CASE Tick(g) \/ Overflowed(g)
    <3>1. channel' = channel /\ pc'[g] \in {"mark", "resubscribe"}
      BY <2>3 DEF Tick, Overflowed, Goto, bus, TypeOK
    <3> QED
      BY <1>0, <2>0, <3>1 DEF Stored
  <2>4. CASE Deliver(g)
    <3>1. last[g] < Len(log) /\ target' = target
      BY <1>0, <2>4 DEF Deliver, Stored, TypeOK
    <3>2. Leave(g, "done") \/ UNCHANGED <<bus, pc>>
      BY <2>4, <3>1 DEF Deliver
    <3>3. channel'[g].queue = channel[g].queue /\ (pc'[g] = pc[g] \/ pc'[g] = "done")
      BY <3>2, LeftChannels DEF Leave, Goto, bus, TypeOK
    <3> QED
      BY <1>0, <2>0, <3>1, <3>3 DEF Stored
  <2>5. CASE Replayed(g)
    <3>1. channel'[g].queue = channel[g].queue /\ pc'[g] \in {"mark", "select", "done"}
      <4>1. CASE Leave(g, "done")
        BY <4>1, LeftChannels DEF Leave, Goto, TypeOK
      <4>2. CASE UNCHANGED bus /\ (Goto(g, "mark") \/ Goto(g, "select"))
        BY <4>2 DEF Goto, bus, TypeOK
      <4> QED
        BY <2>5, <4>1, <4>2 DEF Replayed
    <3> QED
      BY <1>0, <2>0, <3>1 DEF Stored
  <2>6. CASE Receive(g)
    <3>1. channel[g].queue \in Seq(1 .. MaxEvents) /\ channel[g].queue # <<>>
      <4>1. channel[g] \in [queue : Seq(1 .. MaxEvents), open : BOOLEAN]
        BY DEF TypeOK
      <4> QED
        BY <2>6, <4>1 DEF Receive
    <3>2. channel'[g].queue = Tail(channel[g].queue)
      BY <2>6 DEF Receive, TypeOK
    <3>3. \A i \in DOMAIN Tail(channel[g].queue) : Tail(channel[g].queue)[i] <= Len(log)
      BY <1>0, <3>1 DEF Stored
    <3>4. Head(channel[g].queue) <= Len(log)
      BY <1>0, <3>1 DEF Stored
    <3>5. pc'[g] = "mark" \/ (pc'[g] = "replay" /\ target'[g] = Head(channel[g].queue))
      BY <2>6 DEF Receive, Goto, TypeOK
    <3> QED
      BY <2>0, <3>2, <3>3, <3>4, <3>5 DEF Stored
  <2>7. CASE RunClosed(g) \/ Stop(g)
    <3>1. channel'[g].queue = channel[g].queue /\ pc'[g] \in {"done", "stopped"}
      BY <2>7, LeftChannels DEF RunClosed, Stop, Leave, Goto, TypeOK
    <3> QED
      BY <1>0, <2>0, <3>1 DEF Stored
  <2> QED
    BY <1>6, <2>1, <2>2, <2>3, <2>4, <2>5, <2>6, <2>7 DEF Follows, FollowerStep, ReadsChannel
<1> QED
  BY <1>1, <1>2, <1>3, <1>4, <1>5, <1>6 DEF Next, Follows

-----------------------------------------------------------------------------
\* The ends of the run.
LEMMA AheadWhenElsewhere ==
  ASSUME NEW f, EndIsAhead(f), \A n : EndsAt(n) => EndsAt(n)',
         channel'[f].queue = channel[f].queue, pc'[f] = pc[f], target'[f] = target[f],
         last'[f] = last[f]
  PROVE  EndIsAhead(f)'
<1>1. ASSUME Served(f) PROVE Served(f)'
  BY <1>1 DEF Served
<1>2. ASSUME NEW n \in Nat, Awaits(f, n) PROVE Awaits(f, n)'
  BY <1>2 DEF Awaits, HasMessage, Catching
<1> QED
  BY <1>1, <1>2 DEF EndIsAhead

\* A message that is added leaves the others where they are.
LEMMA AheadWhenSent ==
  ASSUME TypeOK, NEW f \in Followers, EndIsAhead(f), log' = log, NEW m,
         channel'[f].queue = Append(channel[f].queue, m), pc'[f] = pc[f],
         target'[f] = target[f], last'[f] = last[f]
  PROVE  EndIsAhead(f)'
<1>1. channel[f].queue \in Seq(1 .. MaxEvents)
  <2>1. channel[f] \in [queue : Seq(1 .. MaxEvents), open : BOOLEAN]
    BY DEF TypeOK
  <2> QED
    BY <2>1
<1>2. ASSUME NEW n, HasMessage(f, n) PROVE HasMessage(f, n)'
  <2>1. PICK i \in DOMAIN channel[f].queue : channel[f].queue[i] = n
    BY <1>2 DEF HasMessage
  <2>2. i \in DOMAIN channel'[f].queue /\ channel'[f].queue[i] = n
    BY <1>1, <2>1
  <2> QED
    BY <2>2 DEF HasMessage
<1>3. ASSUME Served(f) PROVE Served(f)'
  BY <1>3 DEF Served, EndsAt
<1>4. ASSUME NEW n \in Nat, Awaits(f, n) PROVE Awaits(f, n)'
  BY <1>2, <1>4 DEF Awaits, Catching, EndsAt
<1> QED
  BY <1>3, <1>4 DEF EndIsAhead

\* A step of the follower itself.
LEMMA AheadWhenFollowing ==
  ASSUME TypeOK, LogIsSound, MessagesAreStored, NEW f \in Followers, Follows(f),
         f \in told => EndIsAhead(f), f \in told'
  PROVE  EndIsAhead(f)'
<1>0. /\ log' = log /\ Len(log) \in Nat /\ last[f] \in Nat /\ target[f] \in Nat
      /\ \A n : EndsAt(n)' <=> EndsAt(n)
      /\ \A n : EndsAt(n) => n \in Nat /\ n <= Len(log)
  BY FollowersWriteNothing DEF TypeOK, EndsAt
<1>1. CASE Follow(f)
  <2>1. PICK cursor \in 0 .. MaxEvents :
          Subscribe(f, cursor) /\ last' = [last EXCEPT ![f] = cursor]
    BY <1>1 DEF Follow
  <2>2. pc[f] = "idle" /\ pc'[f] = "mark" /\ last'[f] = cursor
    BY <1>1, <2>1 DEF Follow, Subscribe, Goto, TypeOK
  <2>3. f \notin told
    BY <2>2 DEF EndIsAhead, Served, Running, Final
  <2>4. PICK n \in DOMAIN log : n > cursor /\ EndsAt(n)
    BY <2>1, <2>3 DEF Subscribe, EndBeyond
  <2>5. Awaits(f, n)' /\ n \in Nat
    BY <1>0, <2>2, <2>4 DEF Awaits
  <2> QED
    BY <2>2, <2>5 DEF EndIsAhead, Running
<1>2. CASE Resubscribe(f)
  <2>1. /\ Subscribe(f, last[f]) /\ pc[f] = "resubscribe" /\ pc'[f] = "mark"
        /\ last'[f] = last[f]
    BY <1>2 DEF Resubscribe, Subscribe, Goto, TypeOK, position
  <2>2. PICK n \in Nat : EndsAt(n) /\ last[f] < n
    <3>1. CASE f \in told
      BY <2>1, <3>1 DEF EndIsAhead, Served, Awaits, Final
    <3>2. CASE f \notin told
      <4>1. EndBeyond(last[f])
        BY <2>1, <3>2 DEF Subscribe
      <4> QED
        BY <1>0, <4>1 DEF EndBeyond
    <3> QED
      BY <3>1, <3>2
  <2>3. Awaits(f, n)'
    BY <1>0, <2>1, <2>2 DEF Awaits
  <2> QED
    BY <2>1, <2>3 DEF EndIsAhead, Running
<1> SUFFICES ASSUME f \in told, ~(Follow(f) \/ Resubscribe(f)) PROVE EndIsAhead(f)'
  <2>1. ASSUME ~(Follow(f) \/ Resubscribe(f)) PROVE f \in told
    BY <2>1 DEF Follows, FollowerStep, ReadsChannel, Mark, Deliver, Replayed, Receive, Tick,
                RunClosed, Overflowed, Stop, Leave
  <2> QED
    BY <1>1, <1>2, <2>1
<1>3. CASE Stop(f)
  BY <1>3 DEF Stop, Goto, TypeOK, EndIsAhead, Served, Final
<1> SUFFICES ASSUME ~Stop(f) PROVE EndIsAhead(f)'
  BY <1>3
<1>4. pc[f] \in Running /\ pc[f] \notin Final
  BY DEF Follows, FollowerStep, ReadsChannel, Mark, Deliver, Replayed, Receive, Tick,
         RunClosed, Overflowed, Drained, Running, Final
<1>5. PICK n \in Nat : Awaits(f, n)
  BY <1>4 DEF EndIsAhead, Served
<1>6. EndsAt(n) /\ last[f] < n /\ n <= Len(log)
  BY <1>0, <1>5 DEF Awaits
<1>7. ASSUME pc'[f] \in Running, last'[f] < n,
             HasMessage(f, n)' \/ pc'[f] = "mark" \/ Catching(f, n)'
      PROVE EndIsAhead(f)'
  BY <1>0, <1>6, <1>7 DEF EndIsAhead, Awaits
<1>8. CASE Mark(f)
  <2>1. pc'[f] = "replay" /\ target'[f] = Len(log) /\ last' = last
    BY <1>8 DEF Mark, Goto, TypeOK
  <2> QED
    BY <1>6, <1>7, <2>1 DEF Catching, Running
<1>9. CASE Tick(f)
  <2>1. pc'[f] = "mark" /\ last' = last
    BY <1>9 DEF Tick, Goto, TypeOK, position
  <2> QED
    BY <1>6, <1>7, <2>1 DEF Running
<1>10. CASE Drained(f)
  <2>1. pc[f] = "select" /\ channel[f].queue = <<>>
    BY <1>10 DEF Drained, NewChannel, Close
  <2> QED
    BY <1>5, <2>1 DEF Awaits, HasMessage, Catching
<1>11. CASE Receive(f)
  <2>1. channel[f].queue \in Seq(1 .. MaxEvents) /\ channel[f].queue # <<>> /\ pc[f] = "select"
    <3>1. channel[f] \in [queue : Seq(1 .. MaxEvents), open : BOOLEAN]
      BY DEF TypeOK
    <3> QED
      BY <1>11, <3>1 DEF Receive
  <2>2. PICK i \in DOMAIN channel[f].queue : channel[f].queue[i] = n
    BY <1>5, <2>1 DEF Awaits, HasMessage, Catching
  <2>3. /\ channel'[f].queue = Tail(channel[f].queue) /\ last'[f] = last[f]
        /\ \/ pc'[f] = "mark"
           \/ pc'[f] = "replay" /\ target'[f] = Head(channel[f].queue)
    BY <1>11 DEF Receive, Goto, TypeOK
  <2>4. CASE i = 1
    <3>1. Head(channel[f].queue) = n
      BY <2>1, <2>2, <2>4
    <3> QED
      BY <1>6, <1>7, <2>3, <3>1 DEF Catching, Running
  <2>5. CASE i # 1
    <3>1. i - 1 \in DOMAIN Tail(channel[f].queue) /\ Tail(channel[f].queue)[i - 1] = n
      BY <2>1, <2>2, <2>5
    <3>2. HasMessage(f, n)'
      BY <2>3, <3>1 DEF HasMessage
    <3> QED
      BY <1>6, <1>7, <2>3, <3>2 DEF Running
  <2> QED
    BY <2>4, <2>5
<1>12. CASE Deliver(f)
  <2>1. /\ pc[f] = "replay" /\ last[f] < target[f] /\ last[f] < Len(log)
        /\ last'[f] = last[f] + 1 /\ target' = target
    BY <1>0, <1>12 DEF Deliver, MessagesAreStored, Stored, TypeOK
  <2>2. CASE EndsAt(last'[f])
    <3>1. pc'[f] = "done"
      BY <1>12, <2>1, <2>2 DEF Deliver, Leave, Goto, TypeOK
    <3>2. EndsAt(last[f])'
      BY <1>0, <2>2 DEF EndsAt
    <3> QED
      BY <3>1, <3>2 DEF EndIsAhead, Served, Final
  <2>3. CASE ~EndsAt(last'[f])
    <3>1. channel' = channel /\ pc' = pc
      BY <1>12, <2>1, <2>3 DEF Deliver, bus
    <3>2. n # last'[f]
      BY <1>6, <2>3
    <3>3. last'[f] < n
      BY <1>0, <1>6, <2>1, <3>2
    <3> QED
      BY <1>4, <1>5, <1>7, <2>1, <3>1, <3>3 DEF Awaits, HasMessage, Catching
  <2> QED
    BY <2>2, <2>3
<1>13. CASE Replayed(f)
  <2>1. /\ pc[f] = "replay" /\ last[f] >= target[f] /\ last' = last /\ target' = target
        /\ HasMessage(f, n)
    BY <1>0, <1>5, <1>6, <1>13 DEF Replayed, Awaits, Catching, position
  <2>2. CASE f \in live \/ ~EndsAt(target[f])
    <3>1. channel' = channel /\ pc'[f] \in {"mark", "select"}
      BY <1>13, <2>2 DEF Replayed, Goto, bus, TypeOK
    <3> QED
      BY <1>6, <1>7, <2>1, <3>1 DEF HasMessage, Running
  <2>3. CASE f \notin live /\ EndsAt(target[f])
    <3>1. pc'[f] = "done"
      BY <1>13, <2>3 DEF Replayed, Leave, Goto, TypeOK
    <3>2. EndsAt(target[f])'
      BY <1>0, <2>1, <2>3 DEF EndsAt
    <3> QED
      BY <3>1, <3>2 DEF EndIsAhead, Served, Final
  <2> QED
    BY <2>2, <2>3
<1> QED
  BY <1>8, <1>9, <1>10, <1>11, <1>12, <1>13
     DEF Follows, FollowerStep, ReadsChannel, RunClosed, Overflowed

LEMMA EndStep ==
  ASSUME Inv, [Next]_vars
  PROVE  EndsAreAhead'
<1> USE DEF Inv
<1> SUFFICES ASSUME NEW g \in told' PROVE EndIsAhead(g)'
  BY DEF EndsAreAhead
<1>0. g \in Followers /\ (g \in told => EndIsAhead(g))
  BY TypeStep DEF EndsAreAhead, TypeOK
<1>1. CASE FanoutAppend \/ DirectAppend
  <2>1. g \in told /\ UNCHANGED <<bus, pc, position>> /\ \A n : EndsAt(n) => EndsAt(n)'
    BY <1>1, Extended DEF FanoutAppend, DirectAppend
  <2> QED
    BY <1>0, <2>1, AheadWhenElsewhere DEF bus, position
<1>2. CASE Publish
  <2>1. log' = log /\ pc' = pc /\ UNCHANGED position /\ \A n : EndsAt(n) => EndsAt(n)'
    BY <1>2 DEF Publish, EndsAt
  <2>2. CASE closed
    BY <1>0, <1>2, <2>1, <2>2, AheadWhenElsewhere DEF Publish, bus, position
  <2>3. CASE ~closed /\ g \in told
    <3>1. \/ channel'[g].queue = channel[g].queue
          \/ channel'[g].queue = Append(channel[g].queue, fanout.event)
      BY <1>0, <1>2, <2>3, PublishedChannel
    <3> QED
      BY <1>0, <2>1, <2>3, <3>1, AheadWhenElsewhere, AheadWhenSent DEF position
  <2>4. CASE ~closed /\ g \notin told
    <3>1. EndsAt(fanout.event) /\ g \in Reached /\ last[g] < fanout.event /\ g \in subscribed
      BY <1>2, <2>4 DEF Publish, Reached
    <3>2. /\ fanout.event \in 1 .. Len(log) /\ Len(log) \in Nat
          /\ channel'[g].queue = Append(channel[g].queue, fanout.event)
      BY <1>0, <1>2, <2>4, <3>1, PublishedChannel DEF TypeOK
    <3>3. channel[g].queue \in Seq(1 .. MaxEvents)
      <4>1. channel[g] \in [queue : Seq(1 .. MaxEvents), open : BOOLEAN]
        BY <1>0 DEF TypeOK
      <4> QED
        BY <4>1
    <3>4. \E i \in DOMAIN channel'[g].queue : channel'[g].queue[i] = fanout.event
      BY <3>2, <3>3
    <3>5. \E n \in Nat : Awaits(g, n)'
      <4>1. PICK n \in Nat : n = fanout.event
        BY <3>2
      <4>2. Awaits(g, n)'
        BY <2>1, <3>1, <3>4, <4>1 DEF Awaits, HasMessage, EndsAt, position
      <4> QED
        BY <4>2
    <3>6. pc'[g] \in Running
      BY <2>1, <3>1 DEF BusIsSound
    <3> QED
      BY <3>5, <3>6 DEF EndIsAhead
  <2> QED
    BY <2>2, <2>3, <2>4
<1>3. CASE PublishFails \/ UNCHANGED vars
  <2>1. log' = log /\ told' = told /\ UNCHANGED <<bus, pc, position>>
    BY <1>3 DEF PublishFails, vars, writers
  <2>2. \A n : EndsAt(n) => EndsAt(n)'
    BY <2>1 DEF EndsAt
  <2> QED
    BY <1>0, <2>1, <2>2, AheadWhenElsewhere DEF bus, position
<1>4. CASE CloseRun \/ ManagerCloses
  <2>1. CloseBus /\ log' = log /\ pc' = pc /\ UNCHANGED position /\ told' = told
    BY <1>4 DEF CloseRun, ManagerCloses, writers
  <2>2. \A n : EndsAt(n) => EndsAt(n)'
    BY <2>1 DEF EndsAt
  <2> QED
    BY <1>0, <2>1, <2>2, ClosedChannels, AheadWhenElsewhere DEF position
<1>5. ASSUME NEW f \in Followers, Follows(f), g # f PROVE EndIsAhead(g)'
  <2>1. g \in told /\ \A n : EndsAt(n) => EndsAt(n)'
    BY <1>0, <1>5, OthersStay, FollowersWriteNothing DEF EndsAt
  <2> QED
    BY <1>0, <1>5, <2>1, OthersStay, AheadWhenElsewhere
<1>6. ASSUME Follows(g) PROVE EndIsAhead(g)'
  BY <1>0, <1>6, AheadWhenFollowing
<1> QED
  BY <1>1, <1>2, <1>3, <1>4, <1>5, <1>6 DEF Next, Follows

-----------------------------------------------------------------------------
\* The inductive invariant: what is published is in the log, the bus is sound, a
\* message is never ahead of the log, and a follower that was told of an end has
\* one before it.
THEOREM Invariance == Spec => []Inv
<1>1. Inv /\ [Next]_vars => Inv'
  BY TypeStep, LogStep, BusStep, MessageStep, EndStep DEF Inv
<1> QED
  BY Initially, <1>1, PTL DEF Spec

\* The state keeps its shape: no subscription and no replay goes beyond the log's
\* bound.
THEOREM TypeCorrect == Spec => []TypeOK
BY Invariance, PTL DEF Inv

\* Bus.Publish, CloseRun and unsubscribe never send to a closed channel nor
\* close one twice, however many followers come and go.
THEOREM BusSound == Spec => []BusIsSound
BY Invariance, PTL DEF Inv

\* replayThrough never reports a watermark or a message that it cannot read.
THEOREM NoFalseAlarms == Spec => []NoFalseAlarm
<1>1. Inv => NoFalseAlarm
  BY DEF Inv, MessagesAreStored, Stored, NoFalseAlarm
<1> QED
  BY Invariance, <1>1, PTL

\* A follower that the bus told of an end ahead of its cursor, or that subscribed
\* with one ahead, ends its stream only at an end, however the log goes on.
THEOREM ToldAreServed == Spec => []ToldIsServed
<1>1. Inv => ToldIsServed
  BY DEF Inv, EndsAreAhead, EndIsAhead, Served, Running, ToldIsServed
<1> QED
  BY Invariance, <1>1, PTL
=============================================================================
