------------------------------- MODULE EventLog -------------------------------
(***************************************************************************)
(* The file event log of one run (eventlog/jsonl/store.go), used by several*)
(* processes, each of which appends to it and asks for its newest number,  *)
(* as FanoutStore.Append, Agent.emit and appendTitle do.  An Append holds  *)
(* the file lock from the lookup of the newest number to the sync of its   *)
(* line; LatestSeq looks the number up without that lock.  Each process    *)
(* caches the number together with the size of the file.  Read changes     *)
(* nothing and is left out.                                                *)
(***************************************************************************)
EXTENDS Naturals, Sequences

CONSTANTS Procs,      \* the processes
          MaxEvents,  \* bound on the log
          MaxFaults   \* bound on failing writes, deaths and losses of power

VARIABLES file,      \* events.jsonl, by what each Append wrote
          synced,    \* how much of it no loss of power can take
          flock,     \* who holds the file lock
          cache,     \* the tail each process remembers
          pc,        \* where each process is in its call
          asked,     \* the number its Append asks for, 0 for any
          found,     \* the newest number it has found
          acked,     \* what Append has reported as stored, and where it stands
          overtaken, \* who has noted a size that is not that of what it scanned
          faults

vars == <<file, synced, flock, cache, pc, asked, found, acked, overtaken, faults>>

Nobody == "nobody"
ASSUME LogAssumption == Nobody \notin Procs /\ MaxEvents \in Nat /\ MaxFaults \in Nat

Lines == [seq : Nat, by : Procs]

\* A line that is being written, or whose writing was cut short.  What is written
\* behind it runs on from it and cannot be read.
Torn(p) == [seq |-> 0, by |-> p]

\* The size of a file: a torn line is shorter than the whole one.
Size(lines) == [lines |-> Len(lines), torn |-> lines # <<>> /\ lines[Len(lines)].seq = 0]

NoTail == [seq |-> 0, size |-> [lines |-> 0, torn |-> TRUE]]
Tails == [seq : Nat, size : [lines : Nat, torn : BOOLEAN]]

\* Where a process is in an Append holding the lock, and in a LatestSeq.
Appending == {"lookup", "scan", "remember", "check", "write", "finish", "sync"}
Asking == {"asklookup", "askscan", "askremember"}

Init ==
  /\ file = <<>> /\ synced = 0 /\ flock = Nobody
  /\ cache = [p \in Procs |-> NoTail] /\ pc = [p \in Procs |-> "idle"]
  /\ asked = [p \in Procs |-> 0] /\ found = [p \in Procs |-> 0]
  /\ acked = {} /\ overtaken = {} /\ faults = 0

-----------------------------------------------------------------------------
Goto(p, place) == pc' = [pc EXCEPT ![p] = place]
Leave(p) == Goto(p, "idle") /\ flock' = IF flock = p THEN Nobody ELSE flock

\* Mutant: nobody waits for the file lock.
AppendUnlocked(p) ==
  /\ pc[p] = "idle" /\ Len(file) < MaxEvents
  /\ Goto(p, "lookup") /\ flock' = p
  /\ \E seq \in 0 .. MaxEvents : asked' = [asked EXCEPT ![p] = seq]
  /\ UNCHANGED <<file, synced, cache, found, acked, overtaken, faults>>

\* The lock is taken.  The number asked for is the one after what LatestSeq has
\* answered at some earlier time (bus.go:149, agent.go:632, session.go:760).
AppendEvent(p) ==
  /\ pc[p] = "idle" /\ flock = Nobody /\ Len(file) < MaxEvents
  /\ Goto(p, "lookup") /\ flock' = p
  /\ \E seq \in 0 .. MaxEvents : asked' = [asked EXCEPT ![p] = seq]
  /\ UNCHANGED <<file, synced, cache, found, acked, overtaken, faults>>

LatestSeq(p) ==
  /\ pc[p] = "idle" /\ Goto(p, "asklookup")
  /\ UNCHANGED <<file, synced, flock, cache, asked, found, acked, overtaken, faults>>

\* Mutant: the size is not compared.
CachedWhatever(p) == cache[p] # NoTail

\* The cache answers for a file that has the size it was noted with.
Cached(p) == cache[p] # NoTail /\ cache[p].size = Size(file)

Hit(p) ==
  /\ Cached(p) /\ found' = [found EXCEPT ![p] = cache[p].seq]
  /\ \/ pc[p] = "lookup" /\ Goto(p, "check") /\ UNCHANGED flock
     \/ pc[p] = "asklookup" /\ Leave(p)
  /\ UNCHANGED <<file, synced, cache, asked, acked, overtaken, faults>>

Miss(p) ==
  /\ ~Cached(p)
  /\ \/ pc[p] = "lookup" /\ Goto(p, "scan")
     \/ pc[p] = "asklookup" /\ Goto(p, "askscan")
  /\ UNCHANGED <<file, synced, flock, cache, asked, found, acked, overtaken, faults>>

\* A scan fails on a line that does not parse or is out of order.
Readable == \A n \in DOMAIN file : file[n].seq = n

Scan(p) ==
  /\ IF ~Readable
     THEN pc[p] \in {"scan", "askscan"} /\ Leave(p) /\ UNCHANGED found
     ELSE /\ found' = [found EXCEPT ![p] = Len(file)] /\ UNCHANGED flock
          /\ \/ pc[p] = "scan" /\ Goto(p, "remember")
             \/ pc[p] = "askscan" /\ Goto(p, "askremember")
  /\ UNCHANGED <<file, synced, cache, asked, acked, overtaken, faults>>

\* rememberTail: the size is that of the file now, which may have grown since it
\* was scanned.  A missing file clears the entry; it is not told from an empty one.
Noted(seq, lines) == IF lines = <<>> THEN NoTail ELSE [seq |-> seq, size |-> Size(lines)]

Remember(p) ==
  /\ cache' = [cache EXCEPT ![p] = Noted(found[p], file)]
  /\ overtaken' = IF found[p] = Len(file) THEN overtaken ELSE overtaken \cup {p}
  /\ \/ pc[p] = "remember" /\ Goto(p, "check") /\ UNCHANGED flock
     \/ pc[p] = "askremember" /\ Leave(p)
  /\ UNCHANGED <<file, synced, asked, found, acked, faults>>

Refuse(p) ==
  /\ pc[p] = "check" /\ asked[p] \notin {0, found[p] + 1} /\ Leave(p)
  /\ UNCHANGED <<file, synced, cache, asked, found, acked, overtaken, faults>>

\* The number is accepted.
Accept(p) ==
  /\ pc[p] = "check" /\ asked[p] \in {0, found[p] + 1}
  /\ Goto(p, "write")
  /\ UNCHANGED <<file, synced, flock, cache, asked, found, acked, overtaken, faults>>

\* Mutant: the tail is remembered before the line is whole.
WriteRemembered(p) ==
  /\ pc[p] = "write" /\ file' = Append(file, Torn(p)) /\ Goto(p, "finish")
  /\ cache' = [cache EXCEPT ![p] = Noted(found[p] + 1, file')]
  /\ UNCHANGED <<synced, flock, asked, found, acked, overtaken, faults>>

\* Others may see the line before it is whole.
Write(p) ==
  /\ pc[p] = "write" /\ file' = Append(file, Torn(p)) /\ Goto(p, "finish")
  /\ UNCHANGED <<synced, flock, cache, asked, found, acked, overtaken, faults>>

Event(p) == [seq |-> found[p] + 1, by |-> p]

Finish(p) ==
  /\ pc[p] = "finish" /\ file' = [file EXCEPT ![Len(file)] = Event(p)]
  /\ Goto(p, "sync") /\ UNCHANGED <<synced, flock, cache, asked, found, acked, overtaken, faults>>

\* Mutant: the file is not synced.
AppendedUnsynced(p) ==
  /\ pc[p] = "sync" /\ UNCHANGED synced /\ acked' = acked \cup {[line |-> Event(p), at |-> Len(file)]}
  /\ cache' = [cache EXCEPT ![p] = Noted(found[p] + 1, file)]
  /\ Leave(p) /\ UNCHANGED <<file, asked, found, overtaken, faults>>

\* The line is synced and the tail remembered, still under the lock.
Appended(p) ==
  /\ pc[p] = "sync" /\ synced' = Len(file) /\ acked' = acked \cup {[line |-> Event(p), at |-> Len(file)]}
  /\ cache' = [cache EXCEPT ![p] = Noted(found[p] + 1, file)]
  /\ Leave(p) /\ UNCHANGED <<file, asked, found, overtaken, faults>>

-----------------------------------------------------------------------------
Fault == faults < MaxFaults /\ faults' = faults + 1

\* A write or a sync fails, a process dies; what was written stays.
Fail(p) ==
  /\ pc[p] # "idle" /\ Fault /\ Leave(p)
  /\ UNCHANGED <<file, synced, cache, asked, found, acked, overtaken>>

Die(p) ==
  /\ Fault /\ Leave(p) /\ cache' = [cache EXCEPT ![p] = NoTail]
  /\ UNCHANGED <<file, synced, asked, found, acked, overtaken>>

\* The power fails: of the lines that were not synced some are left, the last of
\* them perhaps torn.  The name of a synced file is taken to survive with it.
PowerFails ==
  /\ Fault
  /\ \E n \in synced .. Len(file) :
       \/ file' = SubSeq(file, 1, n)
       \/ n < Len(file) /\ file' = Append(SubSeq(file, 1, n), Torn(file[n + 1].by))
  /\ flock' = Nobody /\ cache' = [p \in Procs |-> NoTail] /\ pc' = [p \in Procs |-> "idle"]
  /\ UNCHANGED <<synced, asked, found, acked, overtaken>>

Next ==
  \/ \E p \in Procs :
       \/ AppendEvent(p) \/ Refuse(p) \/ Accept(p) \/ Write(p) \/ Finish(p) \/ Appended(p)
       \/ LatestSeq(p)
       \/ Hit(p) \/ Miss(p) \/ Scan(p) \/ Remember(p) \/ Fail(p) \/ Die(p)
  \/ PowerFails

Spec == Init /\ [][Next]_vars

-----------------------------------------------------------------------------
\* The first so many lines are there, whole and in order.
WholeUpTo(k) == \A n \in 1 .. k : n \in DOMAIN file /\ file[n].seq = n

\* Types, and that an Append works under the file lock throughout.
TypeOK ==
  /\ file \in Seq(Lines) /\ synced \in 0 .. Len(file)
  /\ flock \in Procs \cup {Nobody} /\ cache \in [Procs -> Tails]
  /\ pc \in [Procs -> {"idle"} \cup Appending \cup Asking]
  /\ asked \in [Procs -> Nat] /\ found \in [Procs -> Nat]
  /\ acked \subseteq [line : Lines, at : Nat] /\ overtaken \subseteq Procs
  /\ faults \in Nat
  /\ \A p \in Procs : pc[p] \in Appending <=> flock = p

\* What a process writes has the next number and stands behind a log that can be
\* read, over failing writes, deaths and losses of power, unless the process has
\* noted the size of a file that grew while it looked its end up without the file
\* lock (store.go:170-181).  Only such a process can repeat a number or write
\* behind a torn line; while there is none, the numbers have no gap and no
\* repetition and a log that was readable can lose its end and nothing else.
Gapless ==
  \A n \in DOMAIN file :
    file[n].by \notin overtaken => file[n].seq \in {0, n} /\ WholeUpTo(n - 1)

\* What Append has reported as stored stays where it was written, over deaths and
\* losses of power, and can be read there unless its process was overtaken.
AckedIsKept ==
  \A a \in acked :
    /\ a.at \in DOMAIN file /\ file[a.at] = a.line
    /\ a.line.by \notin overtaken => WholeUpTo(a.at)

\* No process takes an event for stored that is not: what LatestSeq answers can
\* be read (follow.go:198 reports an error otherwise), unless the process has been
\* overtaken and wrote where it should not.
CacheIsNotAhead ==
  \A p \in Procs \ overtaken : cache[p] # NoTail => WholeUpTo(cache[p].seq)

\* "The size check is what keeps the cache honest across processes" (store.go:28):
\* a tail that would answer is the tail of the file.
CacheIsHonest ==
  \A p \in Procs : (Cached(p) /\ flock = Nobody) => cache[p].seq = Len(file)
=============================================================================
