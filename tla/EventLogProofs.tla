---------------------------- MODULE EventLogProofs ----------------------------
(***************************************************************************)
(* Proofs about EventLog for any processes, each of which appends and asks *)
(* at any time, and for a log of any length.                               *)
(***************************************************************************)
EXTENDS EventLog, TLAPS

\* What a process knows under the lock, and what a process that has not been
\* overtaken knows: its tail was noted for a file that could be read and ended
\* with it, and the newest number it has looked up is still the newest.
ProcKnows(p) ==
  /\ pc[p] = "remember" => found[p] = Len(file) /\ WholeUpTo(Len(file))
  /\ pc[p] = "askremember" => WholeUpTo(found[p])
  /\ pc[p] = "finish" => Len(file) > 0 /\ file[Len(file)] = Torn(p)
  /\ pc[p] = "sync" => Len(file) > 0 /\ file[Len(file)] = Event(p)
  /\ p \notin overtaken =>
       /\ cache[p] # NoTail =>
            cache[p].size = [lines |-> cache[p].seq, torn |-> FALSE] /\ WholeUpTo(cache[p].seq)
       /\ pc[p] \in {"check", "write"} => found[p] = Len(file) /\ WholeUpTo(Len(file))
       /\ pc[p] \in {"finish", "sync"} => found[p] + 1 = Len(file) /\ WholeUpTo(found[p])
ProcsKnow == \A p \in Procs : ProcKnows(p)

\* What was acknowledged is whole and has been synced.
AckedIsSynced == \A a \in acked : a.at <= synced /\ a.line.seq # 0

Inv == TypeOK /\ Gapless /\ ProcsKnow /\ AckedIsKept /\ AckedIsSynced

\* What a step may do to the log, a loss of power apart: whole lines stay.
Grows ==
  \A n \in DOMAIN file :
    n \in DOMAIN file' /\ (file[n].seq # 0 => file'[n] = file[n])

-----------------------------------------------------------------------------
\* A log that can be read is whole, and does not end in a torn line.
LEMMA ReadableIsWhole ==
  ASSUME TypeOK
  PROVE /\ Readable <=> WholeUpTo(Len(file))
        /\ WholeUpTo(Len(file)) => Size(file) = [lines |-> Len(file), torn |-> FALSE]
<1>1. DOMAIN file = 1 .. Len(file) /\ Len(file) \in Nat /\ (Len(file) = 0 => file = <<>>)
  BY DEF TypeOK
<1>2. Readable <=> WholeUpTo(Len(file))
  BY <1>1 DEF Readable, WholeUpTo
<1>3. ASSUME WholeUpTo(Len(file)), file # <<>> PROVE file[Len(file)].seq # 0
  BY <1>1, <1>3 DEF WholeUpTo
<1> QED
  BY <1>2, <1>3 DEF Size

\* What is whole stays whole while the log grows.
LEMMA WholeStays ==
  ASSUME TypeOK, Grows, NEW k \in Nat, WholeUpTo(k) PROVE WholeUpTo(k)'
<1> SUFFICES ASSUME NEW n \in 1 .. k PROVE n \in DOMAIN file' /\ file'[n].seq = n
  BY DEF WholeUpTo
<1>1. n \in DOMAIN file /\ file[n].seq = n /\ n # 0
  BY DEF WholeUpTo
<1> QED
  BY <1>1 DEF Grows

\* The cache of a process that was not overtaken answers with the length of the
\* file, for a file that can be read.
LEMMA HitIsRight ==
  ASSUME TypeOK, NEW p \in Procs, ProcKnows(p), p \notin overtaken, Cached(p)
  PROVE cache[p].seq = Len(file) /\ WholeUpTo(Len(file))
<1>1. Size(file) = [lines |-> cache[p].seq, torn |-> FALSE] /\ WholeUpTo(cache[p].seq)
  BY DEF ProcKnows, Cached
<1>2. cache[p].seq = Len(file)
  BY <1>1 DEF Size
<1> QED
  BY <1>1, <1>2

\* Only the one process that holds the lock is in an Append.
LEMMA OneWriter ==
  ASSUME TypeOK, NEW p \in Procs, NEW q \in Procs, pc[p] \in Appending
  PROVE flock = p /\ (q # p => pc[q] \notin Appending)
BY LogAssumption DEF TypeOK

\* Initially every part holds.
LEMMA Initially == Init => Inv
<1> SUFFICES ASSUME Init PROVE Inv
  OBVIOUS
<1>1. file = <<>> /\ acked = {} /\ overtaken = {} /\ Len(file) = 0
  BY DEF Init
<1>2. TypeOK
  <2>1. NoTail \in Tails
    BY DEF NoTail, Tails
  <2>2. \A p \in Procs : pc[p] = "idle" /\ flock # p
    BY LogAssumption DEF Init
  <2>3. file \in Seq(Lines) /\ Len(file) = 0
    BY <1>1
  <2> QED
    BY <1>1, <2>1, <2>2, <2>3, LogAssumption DEF Init, TypeOK, Appending
<1>3. Gapless /\ AckedIsKept /\ AckedIsSynced
  BY <1>1 DEF Gapless, AckedIsKept, AckedIsSynced
<1>4. ProcsKnow
  BY DEF Init, ProcsKnow, ProcKnows
<1> QED
  BY <1>2, <1>3, <1>4 DEF Inv

-----------------------------------------------------------------------------
\* A step of one process that touches no line keeps the invariant if that
\* process keeps its part; who has been overtaken stays so.
LEMMA QuietStep ==
  ASSUME Inv, NEW p \in Procs, TypeOK', UNCHANGED <<file, synced, acked>>,
         overtaken' \in {overtaken, overtaken \cup {p}},
         \A q \in Procs \ {p} :
           pc'[q] = pc[q] /\ cache'[q] = cache[q] /\ found'[q] = found[q],
         ProcKnows(p)'
  PROVE Inv'
<1>1. overtaken \subseteq overtaken'
  OBVIOUS
<1>2. Gapless' /\ AckedIsKept' /\ AckedIsSynced'
  BY <1>1 DEF Inv, Gapless, AckedIsKept, AckedIsSynced, WholeUpTo
<1>3. ProcsKnow'
  <2> SUFFICES ASSUME NEW q \in Procs, q # p PROVE ProcKnows(q)'
    BY DEF ProcsKnow
  <2>1. ProcKnows(q) /\ (q \notin overtaken' => q \notin overtaken)
    BY <1>1 DEF Inv, ProcsKnow
  <2>2. pc'[q] = pc[q] /\ cache'[q] = cache[q] /\ found'[q] = found[q]
    OBVIOUS
  <2> QED
    BY <2>1, <2>2 DEF ProcKnows, WholeUpTo, Event
<1> QED
  BY <1>2, <1>3 DEF Inv

LEMMA AppendEventKeeps ==
  ASSUME Inv, NEW p \in Procs, AppendEvent(p) PROVE Inv'
<1>1. pc[p] = "idle" /\ pc' = [pc EXCEPT ![p] = "lookup"]
  BY DEF AppendEvent, Goto
<1>2. TypeOK'
  <2>1. asked' \in [Procs -> Nat]
    <3>1. PICK seq \in 0 .. MaxEvents : asked' = [asked EXCEPT ![p] = seq]
      BY DEF AppendEvent
    <3>2. seq \in Nat
      BY <3>1, LogAssumption
    <3> QED
      BY <3>1, <3>2 DEF Inv, TypeOK
  <2>2. \A q \in Procs : pc'[q] \in Appending <=> flock' = q
    BY <1>1, LogAssumption DEF Inv, TypeOK, AppendEvent, Appending
  <2> QED
    BY <1>1, <2>1, <2>2 DEF Inv, TypeOK, AppendEvent, Appending
<1>3. ProcKnows(p)'
  BY <1>1 DEF Inv, TypeOK, AppendEvent, ProcsKnow, ProcKnows, WholeUpTo
<1> QED
  BY <1>1, <1>2, <1>3, QuietStep DEF AppendEvent, Inv, TypeOK

LEMMA LatestSeqKeeps ==
  ASSUME Inv, NEW p \in Procs, LatestSeq(p) PROVE Inv'
<1>1. pc[p] = "idle" /\ pc' = [pc EXCEPT ![p] = "asklookup"]
  BY DEF LatestSeq, Goto
<1>2. TypeOK'
  BY <1>1 DEF Inv, TypeOK, LatestSeq, Appending, Asking
<1>3. ProcKnows(p)'
  BY <1>1 DEF Inv, TypeOK, LatestSeq, ProcsKnow, ProcKnows, WholeUpTo
<1> QED
  BY <1>1, <1>2, <1>3, QuietStep DEF LatestSeq, Inv, TypeOK

LEMMA HitKeeps ==
  ASSUME Inv, NEW p \in Procs, Hit(p) PROVE Inv'
<1>1. ProcKnows(p) /\ cache[p].seq \in Nat
  BY DEF Inv, ProcsKnow, TypeOK, Tails
<1>2. p \notin overtaken => cache[p].seq = Len(file) /\ WholeUpTo(Len(file))
  BY <1>1, HitIsRight DEF Inv, Hit
<1>3. found' = [found EXCEPT ![p] = cache[p].seq]
  BY DEF Hit
<1>4. PICK place \in {"check", "idle"} : pc' = [pc EXCEPT ![p] = place] /\ TypeOK'
  <2>1. CASE pc[p] = "lookup"
    <3>1. pc' = [pc EXCEPT ![p] = "check"] /\ UNCHANGED flock
      BY <2>1 DEF Hit, Goto
    <3> QED
      BY <1>1, <1>3, <2>1, <3>1 DEF Inv, TypeOK, Hit, Appending
  <2>2. CASE pc[p] = "asklookup"
    <3>1. pc' = [pc EXCEPT ![p] = "idle"]
      BY <2>2 DEF Hit, Leave, Goto
    <3>2. flock' = flock
      BY <2>2 DEF Inv, TypeOK, Appending, Hit, Leave
    <3> QED
      BY <1>1, <1>3, <2>2, <3>1, <3>2 DEF Inv, TypeOK, Hit, Appending
  <2> QED
    BY <2>1, <2>2 DEF Hit
<1>5. ProcKnows(p)'
  BY <1>1, <1>2, <1>3, <1>4 DEF Inv, TypeOK, Hit, ProcKnows, WholeUpTo
<1> QED
  BY <1>3, <1>4, <1>5, QuietStep DEF Hit, Inv, TypeOK

LEMMA MissKeeps ==
  ASSUME Inv, NEW p \in Procs, Miss(p) PROVE Inv'
<1>1. PICK place \in {"scan", "askscan"} :
        /\ pc' = [pc EXCEPT ![p] = place]
        /\ place = "scan" <=> pc[p] = "lookup"
        /\ place = "askscan" <=> pc[p] = "asklookup"
  BY DEF Miss, Goto
<1>2. TypeOK'
  BY <1>1 DEF Inv, TypeOK, Miss, Appending, Asking
<1>3. ProcKnows(p)'
  BY <1>1 DEF Inv, TypeOK, Miss, ProcsKnow, ProcKnows, WholeUpTo
<1> QED
  BY <1>1, <1>2, <1>3, QuietStep DEF Miss, Inv, TypeOK

LEMMA ScanKeeps ==
  ASSUME Inv, NEW p \in Procs, Scan(p) PROVE Inv'
<1>1. CASE ~Readable
  <2>1. pc[p] \in {"scan", "askscan"} /\ pc' = [pc EXCEPT ![p] = "idle"]
    BY <1>1 DEF Scan, Leave, Goto
  <2>2. flock' = (IF flock = p THEN Nobody ELSE flock) /\ UNCHANGED found
    BY <1>1 DEF Scan, Leave
  <2>3. TypeOK'
    BY <2>1, <2>2, LogAssumption DEF Inv, TypeOK, Scan, Appending
  <2>4. ProcKnows(p)'
    BY <2>1, <2>2 DEF Inv, TypeOK, Scan, ProcsKnow, ProcKnows, WholeUpTo
  <2> QED
    BY <2>1, <2>2, <2>3, <2>4, QuietStep DEF Scan, Inv, TypeOK
<1>2. CASE Readable
  <2>1. PICK place \in {"remember", "askremember"} :
          /\ pc' = [pc EXCEPT ![p] = place]
          /\ place = "remember" <=> pc[p] = "scan"
          /\ place = "askremember" <=> pc[p] = "askscan"
    BY <1>2 DEF Scan, Goto
  <2>2. found' = [found EXCEPT ![p] = Len(file)] /\ UNCHANGED flock
    BY <1>2 DEF Scan
  <2>3. TypeOK'
    BY <2>1, <2>2 DEF Inv, TypeOK, Scan, Appending, Asking
  <2>4. WholeUpTo(Len(file))
    BY <1>2, ReadableIsWhole DEF Inv
  <2>5. ProcKnows(p)'
    BY <2>1, <2>2, <2>4 DEF Inv, TypeOK, Scan, ProcsKnow, ProcKnows, WholeUpTo
  <2> QED
    BY <2>1, <2>2, <2>3, <2>5, QuietStep DEF Scan, Inv, TypeOK
<1> QED
  BY <1>1, <1>2

\* A tail that is noted is a tail, and says what it was given.
LEMMA NotedTail ==
  ASSUME TypeOK, NEW k \in Nat
  PROVE /\ Noted(k, file) \in Tails
        /\ Noted(k, file) # NoTail => Noted(k, file) = [seq |-> k, size |-> Size(file)]
<1>1. NoTail \in Tails
  BY DEF NoTail, Tails
<1>2. Size(file) \in [lines : Nat, torn : BOOLEAN]
  BY DEF Size, TypeOK
<1> QED
  BY <1>1, <1>2 DEF Noted, Tails

\* What is noted is right unless the file has grown since the scan, and then the
\* process is known to have been overtaken.
LEMMA RememberKeeps ==
  ASSUME Inv, NEW p \in Procs, Remember(p) PROVE Inv'
<1>1. found[p] \in Nat /\ cache' = [cache EXCEPT ![p] = Noted(found[p], file)]
  BY DEF Remember, Inv, TypeOK
<1>2. pc[p] \in {"remember", "askremember"} /\ WholeUpTo(found[p]) /\ ProcKnows(p)
  BY DEF Remember, Inv, ProcsKnow, ProcKnows
<1>3. PICK place \in {"check", "idle"} :
        /\ pc' = [pc EXCEPT ![p] = place]
        /\ place = "check" <=> pc[p] = "remember"
        /\ place = "check" => flock' = flock
        /\ place = "idle" => flock' = IF flock = p THEN Nobody ELSE flock
  BY DEF Remember, Goto, Leave
<1>4. cache' \in [Procs -> Tails]
  BY <1>1, NotedTail DEF Inv, TypeOK
<1>5. overtaken' \in {overtaken, overtaken \cup {p}} /\ (p \notin overtaken' => found[p] = Len(file))
  BY DEF Remember
<1>6. TypeOK'
  BY <1>2, <1>3, <1>4, <1>5, LogAssumption DEF Inv, TypeOK, Remember, Appending
<1>7. cache'[p] # NoTail => cache'[p] = [seq |-> found[p], size |-> Size(file)]
  BY <1>1, NotedTail DEF Inv, TypeOK
<1>8. p \notin overtaken' => Size(file) = [lines |-> found[p], torn |-> FALSE]
  BY <1>2, <1>5, ReadableIsWhole DEF Inv
<1>9. ASSUME p \notin overtaken', cache'[p] # NoTail
      PROVE cache'[p].size = [lines |-> cache'[p].seq, torn |-> FALSE] /\ cache'[p].seq = found[p]
  <2>1. cache'[p].seq = found[p] /\ cache'[p].size = Size(file)
    BY <1>7, <1>9
  <2> QED
    BY <1>8, <1>9, <2>1
<1>10. pc'[p] \in {"check", "idle"} /\ UNCHANGED <<file, found>>
  BY <1>3 DEF Remember, Inv, TypeOK
<1>11. ProcKnows(p)'
  <2>1. p \notin overtaken' /\ cache'[p] # NoTail => WholeUpTo(cache'[p].seq)
    BY <1>2, <1>9
  <2> QED
    BY <1>2, <1>5, <1>9, <1>10, <2>1 DEF ProcKnows, WholeUpTo
<1> QED
  BY <1>1, <1>3, <1>5, <1>6, <1>11, QuietStep DEF Remember, Inv, TypeOK

LEMMA RefuseKeeps ==
  ASSUME Inv, NEW p \in Procs, Refuse(p) PROVE Inv'
<1>1. pc[p] = "check" /\ pc' = [pc EXCEPT ![p] = "idle"]
  BY DEF Refuse, Leave, Goto
<1>2. TypeOK'
  BY <1>1, LogAssumption DEF Inv, TypeOK, Refuse, Leave, Appending
<1>3. ProcKnows(p)'
  BY <1>1 DEF Inv, TypeOK, Refuse, ProcsKnow, ProcKnows, WholeUpTo
<1> QED
  BY <1>1, <1>2, <1>3, QuietStep DEF Refuse, Inv, TypeOK

LEMMA AcceptKeeps ==
  ASSUME Inv, NEW p \in Procs, Accept(p) PROVE Inv'
<1>1. pc[p] = "check" /\ pc' = [pc EXCEPT ![p] = "write"]
  BY DEF Accept, Goto
<1>2. TypeOK'
  BY <1>1 DEF Inv, TypeOK, Accept, Appending
<1>3. ProcKnows(p)'
  BY <1>1 DEF Inv, TypeOK, Accept, ProcsKnow, ProcKnows, WholeUpTo
<1> QED
  BY <1>1, <1>2, <1>3, QuietStep DEF Accept, Inv, TypeOK

LEMMA FailKeeps ==
  ASSUME Inv, NEW p \in Procs, Fail(p) PROVE Inv'
<1>1. pc' = [pc EXCEPT ![p] = "idle"] /\ faults' = faults + 1
  BY DEF Fail, Leave, Goto, Fault
<1>2. TypeOK'
  BY <1>1, LogAssumption DEF Inv, TypeOK, Fail, Leave, Appending
<1>3. ProcKnows(p)'
  BY <1>1 DEF Inv, TypeOK, Fail, ProcsKnow, ProcKnows, WholeUpTo
<1> QED
  BY <1>1, <1>2, <1>3, QuietStep DEF Fail, Inv, TypeOK

LEMMA DieKeeps ==
  ASSUME Inv, NEW p \in Procs, Die(p) PROVE Inv'
<1>1. pc' = [pc EXCEPT ![p] = "idle"] /\ faults' = faults + 1
  BY DEF Die, Leave, Goto, Fault
<1>2. cache' = [cache EXCEPT ![p] = NoTail] /\ NoTail \in Tails
  BY DEF Die, NoTail, Tails
<1>3. TypeOK'
  BY <1>1, <1>2, LogAssumption DEF Inv, TypeOK, Die, Leave, Appending
<1>4. ProcKnows(p)'
  BY <1>1, <1>2 DEF Inv, TypeOK, ProcKnows
<1> QED
  BY <1>1, <1>2, <1>3, <1>4, QuietStep DEF Die, Inv, TypeOK

\* A step of the process that holds the lock, by which the log grows, keeps the
\* invariant if that process keeps its part.
LEMMA GrowingStep ==
  ASSUME Inv, TypeOK', Grows, Gapless', AckedIsKept', AckedIsSynced', UNCHANGED overtaken,
         NEW p \in Procs, pc[p] \in Appending,
         \A q \in Procs \ {p} :
           pc'[q] = pc[q] /\ cache'[q] = cache[q] /\ found'[q] = found[q],
         ProcKnows(p)'
  PROVE Inv'
<1>1. ProcsKnow'
  <2> SUFFICES ASSUME NEW q \in Procs, q # p PROVE ProcKnows(q)'
    BY DEF ProcsKnow
  <2>1. ProcKnows(q) /\ pc[q] \notin Appending
    BY OneWriter DEF Inv, ProcsKnow
  <2>2. pc'[q] = pc[q] /\ cache'[q] = cache[q] /\ found'[q] = found[q]
    OBVIOUS
  <2>3. cache[q].seq \in Nat /\ found[q] \in Nat
    BY DEF Inv, TypeOK, Tails
  <2>4. ASSUME NEW k \in Nat, WholeUpTo(k)
        PROVE \A n \in 1 .. k : n \in DOMAIN file' /\ file'[n].seq = n
    BY <2>4, WholeStays DEF Inv, WholeUpTo
  <2>5. q \notin overtaken /\ cache[q] # NoTail =>
          \A n \in 1 .. cache[q].seq : n \in DOMAIN file' /\ file'[n].seq = n
    BY <2>1, <2>3, <2>4 DEF ProcKnows
  <2>6. pc[q] = "askremember" =>
          \A n \in 1 .. found[q] : n \in DOMAIN file' /\ file'[n].seq = n
    BY <2>1, <2>3, <2>4 DEF ProcKnows
  <2> QED
    BY <2>1, <2>2, <2>5, <2>6 DEF ProcKnows, WholeUpTo, Appending
<1> QED
  BY <1>1 DEF Inv

\* What was acknowledged stays in its place while the log grows.
LEMMA AckedStays ==
  ASSUME Inv, Grows, UNCHANGED <<synced, acked, overtaken>>
  PROVE AckedIsKept' /\ AckedIsSynced'
<1> SUFFICES ASSUME NEW a \in acked
             PROVE /\ a.at \in DOMAIN file' /\ file'[a.at] = a.line
                   /\ a.line.by \notin overtaken => WholeUpTo(a.at)'
  BY DEF Inv, AckedIsKept, AckedIsSynced
<1>1. a.at \in DOMAIN file /\ file[a.at] = a.line /\ a.at \in Nat /\ a.line.seq # 0
  BY DEF Inv, AckedIsKept, AckedIsSynced, TypeOK
<1>2. a.line.by \notin overtaken => WholeUpTo(a.at)
  BY DEF Inv, AckedIsKept
<1>3. WholeUpTo(a.at) => WholeUpTo(a.at)'
  <2>1. ASSUME NEW k \in Nat, WholeUpTo(k)
        PROVE \A n \in 1 .. k : n \in DOMAIN file' /\ file'[n].seq = n
    BY <2>1, WholeStays DEF Inv, WholeUpTo
  <2> QED
    BY <1>1, <2>1 DEF WholeUpTo
<1> QED
  BY <1>1, <1>2, <1>3 DEF Grows

LEMMA WriteKeeps ==
  ASSUME Inv, NEW p \in Procs, Write(p) PROVE Inv'
<1>1. pc[p] = "write" /\ pc' = [pc EXCEPT ![p] = "finish"] /\ ProcKnows(p)
  BY DEF Write, Goto, Inv, ProcsKnow
<1>2. /\ file' = Append(file, Torn(p)) /\ Len(file') = Len(file) + 1
      /\ DOMAIN file' = 1 .. Len(file) + 1 /\ file'[Len(file) + 1] = Torn(p)
      /\ Len(file) \in Nat /\ DOMAIN file = 1 .. Len(file)
      /\ \A n \in DOMAIN file : n \in DOMAIN file' /\ file'[n] = file[n]
  BY DEF Write, Inv, TypeOK
<1>3. Grows
  BY <1>2 DEF Grows
<1>4. TypeOK'
  <2>1. Torn(p) \in Lines
    BY DEF Torn, Lines
  <2> QED
    BY <1>1, <1>2, <2>1 DEF Inv, TypeOK, Write, Appending
<1>5. \A k \in Nat : WholeUpTo(k) => WholeUpTo(k)'
  BY <1>2 DEF WholeUpTo
<1>6. Gapless'
  <2> SUFFICES ASSUME NEW n \in 1 .. Len(file) + 1, file'[n].by \notin overtaken
               PROVE file'[n].seq \in {0, n} /\ WholeUpTo(n - 1)'
    BY <1>2 DEF Gapless, Write
  <2>1. CASE n \in DOMAIN file
    <3>1. file[n].by \notin overtaken /\ n \in 1 .. Len(file)
      BY <1>2, <2>1
    <3>2. file[n].seq \in {0, n} /\ WholeUpTo(n - 1)
      BY <2>1, <3>1 DEF Inv, Gapless
    <3>3. n - 1 \in Nat
      BY <3>1
    <3> QED
      BY <1>2, <1>5, <2>1, <3>2, <3>3
  <2>2. CASE n \notin DOMAIN file
    <3>1. n = Len(file) + 1
      BY <1>2, <2>2
    <3>2. file'[n] = Torn(p) /\ n - 1 = Len(file)
      BY <1>2, <3>1
    <3>3. p \notin overtaken
      BY <3>2 DEF Torn
    <3>4. WholeUpTo(Len(file))
      BY <1>1, <3>3 DEF ProcKnows
    <3> QED
      BY <1>2, <1>5, <3>2, <3>4 DEF Torn
  <2> QED
    BY <2>1, <2>2
<1>7. ProcKnows(p)'
  BY <1>1, <1>2, <1>5 DEF Inv, TypeOK, Tails, Write, ProcKnows
<1>8. AckedIsKept' /\ AckedIsSynced'
  BY <1>3, AckedStays DEF Write
<1> QED
  BY <1>1, <1>3, <1>4, <1>6, <1>7, <1>8, GrowingStep DEF Write, Inv, TypeOK, Appending

LEMMA FinishKeeps ==
  ASSUME Inv, NEW p \in Procs, Finish(p) PROVE Inv'
<1>1. /\ pc[p] = "finish" /\ pc' = [pc EXCEPT ![p] = "sync"] /\ ProcKnows(p)
      /\ Len(file) > 0 /\ file[Len(file)] = Torn(p)
  BY DEF Finish, Goto, Inv, ProcsKnow, ProcKnows
<1>2. Event(p) \in Lines /\ Event(p).seq = found[p] + 1 /\ Event(p).seq # 0 /\ Event(p).by = p
  BY DEF Event, Lines, Inv, TypeOK
<1>3. /\ file' \in Seq(Lines) /\ Len(file') = Len(file)
      /\ DOMAIN file' = DOMAIN file /\ DOMAIN file = 1 .. Len(file) /\ Len(file) \in Nat
      /\ Len(file) \in DOMAIN file /\ file'[Len(file)] = Event(p)
      /\ \A n \in DOMAIN file : n # Len(file) => file'[n] = file[n]
  <2>1. file \in Seq(Lines)
    BY DEF Inv, TypeOK
  <2>2. Len(file) \in 1 .. Len(file)
    BY <1>1, <2>1
  <2> QED
    BY <1>2, <2>1, <2>2 DEF Finish
<1>4. file[Len(file)].seq = 0 /\ file[Len(file)].by = p
  BY <1>1 DEF Torn
<1>5. Grows
  BY <1>3, <1>4 DEF Grows
<1>6. TypeOK'
  BY <1>1, <1>3 DEF Inv, TypeOK, Finish, Appending
<1>7. ASSUME NEW k \in Nat, WholeUpTo(k) PROVE WholeUpTo(k)'
  BY <1>5, <1>7, WholeStays DEF Inv
<1>8. Gapless'
  <2> SUFFICES ASSUME NEW n \in DOMAIN file, file'[n].by \notin overtaken
               PROVE file'[n].seq \in {0, n} /\ WholeUpTo(n - 1)'
    BY <1>3 DEF Gapless, Finish
  <2>1. file[n].by \notin overtaken
    BY <1>2, <1>3, <1>4
  <2>2. file[n].seq \in {0, n} /\ WholeUpTo(n - 1) /\ n - 1 \in Nat
    BY <1>3, <2>1 DEF Inv, Gapless
  <2>3. CASE n = Len(file)
    <3>1. found[p] + 1 = Len(file)
      BY <1>1, <1>4, <2>1, <2>3 DEF ProcKnows
    <3> QED
      BY <1>2, <1>3, <1>7, <2>2, <2>3, <3>1
  <2>4. CASE n # Len(file)
    BY <1>3, <1>7, <2>2, <2>4
  <2> QED
    BY <2>3, <2>4
<1>9. ProcKnows(p)'
  <2>1. pc'[p] = "sync" /\ UNCHANGED <<cache, found, overtaken>> /\ Event(p)' = Event(p)
    BY <1>1 DEF Finish, Inv, TypeOK, Event
  <2>2. cache[p].seq \in Nat /\ found[p] \in Nat
    BY DEF Inv, TypeOK, Tails
  <2>3. ASSUME NEW k \in Nat, WholeUpTo(k)
        PROVE \A n \in 1 .. k : n \in DOMAIN file' /\ file'[n].seq = n
    BY <1>7, <2>3 DEF WholeUpTo
  <2>4. p \notin overtaken /\ cache[p] # NoTail =>
          \A n \in 1 .. cache[p].seq : n \in DOMAIN file' /\ file'[n].seq = n
    BY <1>1, <2>2, <2>3 DEF ProcKnows
  <2>5. p \notin overtaken => /\ found[p] + 1 = Len(file)
                             /\ \A n \in 1 .. found[p] : n \in DOMAIN file' /\ file'[n].seq = n
    BY <1>1, <2>2, <2>3 DEF ProcKnows
  <2>6. p \notin overtaken /\ cache[p] # NoTail =>
          cache[p].size = [lines |-> cache[p].seq, torn |-> FALSE]
    BY <1>1 DEF ProcKnows
  <2> QED
    BY <1>1, <1>3, <2>1, <2>4, <2>5, <2>6 DEF ProcKnows, WholeUpTo
<1>10. AckedIsKept' /\ AckedIsSynced'
  BY <1>5, AckedStays DEF Finish
<1> QED
  BY <1>1, <1>5, <1>6, <1>8, <1>9, <1>10, GrowingStep DEF Finish, Inv, TypeOK, Appending

LEMMA AppendedKeeps ==
  ASSUME Inv, NEW p \in Procs, Appended(p) PROVE Inv'
<1>1. /\ pc[p] = "sync" /\ pc' = [pc EXCEPT ![p] = "idle"] /\ ProcKnows(p)
      /\ Len(file) > 0 /\ file[Len(file)] = Event(p) /\ UNCHANGED <<file, found, overtaken>>
  BY DEF Appended, Leave, Goto, Inv, ProcsKnow, ProcKnows
<1>2. found[p] \in Nat /\ Len(file) \in Nat /\ Len(file) \in DOMAIN file /\ file # <<>>
  BY <1>1 DEF Inv, TypeOK
<1>3. /\ Event(p) \in Lines /\ Event(p).seq = found[p] + 1 /\ Event(p).seq # 0
      /\ Event(p).by = p
  BY <1>2 DEF Event, Lines
<1>4. Size(file) = [lines |-> Len(file), torn |-> FALSE]
  BY <1>1, <1>2, <1>3 DEF Size
<1>5. cache' = [cache EXCEPT ![p] = [seq |-> found[p] + 1, size |-> Size(file)]]
  BY <1>1, <1>2 DEF Appended, Noted
<1>6. /\ acked' = acked \cup {[line |-> Event(p), at |-> Len(file)]}
      /\ synced' = Len(file)
  BY DEF Appended
<1>7. TypeOK'
  <2>1. [seq |-> found[p] + 1, size |-> Size(file)] \in Tails
    BY <1>2, <1>4 DEF Tails
  <2>2. cache' \in [Procs -> Tails]
    BY <1>5, <2>1 DEF Inv, TypeOK
  <2>3. synced' \in 0 .. Len(file') /\ acked' \subseteq [line : Lines, at : Nat]
    BY <1>1, <1>2, <1>3, <1>6 DEF Inv, TypeOK
  <2> QED
    BY <1>1, <2>2, <2>3, LogAssumption DEF Inv, TypeOK, Appended, Leave, Appending
<1>8. p \notin overtaken => found[p] + 1 = Len(file) /\ WholeUpTo(Len(file))
  <2>1. p \notin overtaken => found[p] + 1 = Len(file) /\ WholeUpTo(found[p])
    BY <1>1 DEF ProcKnows
  <2> QED
    BY <1>1, <1>2, <1>3, <2>1 DEF WholeUpTo
<1>9. cache'[p].seq = found[p] + 1 /\ cache'[p].size = [lines |-> Len(file), torn |-> FALSE]
  BY <1>4, <1>5 DEF Inv, TypeOK
<1>10. ProcKnows(p)'
  <2>1. pc'[p] = "idle"
    BY <1>1 DEF Inv, TypeOK
  <2> QED
    BY <1>1, <1>8, <1>9, <2>1 DEF ProcKnows, WholeUpTo
<1>11. Gapless' /\ Grows
  BY <1>1 DEF Inv, Gapless, Grows, WholeUpTo
<1>12. AckedIsKept' /\ AckedIsSynced'
  <2> SUFFICES ASSUME NEW a \in acked'
               PROVE /\ a.at \in DOMAIN file /\ file[a.at] = a.line
                     /\ a.line.by \notin overtaken => WholeUpTo(a.at)
                     /\ a.at <= Len(file) /\ a.line.seq # 0
    BY <1>1, <1>6 DEF AckedIsKept, AckedIsSynced, WholeUpTo
  <2>1. CASE a \in acked
    <3>1. a.at \in DOMAIN file /\ file[a.at] = a.line /\ a.line.seq # 0
      BY <2>1 DEF Inv, AckedIsKept, AckedIsSynced
    <3>2. a.line.by \notin overtaken => WholeUpTo(a.at)
      BY <2>1 DEF Inv, AckedIsKept
    <3>3. a.at <= Len(file)
      BY <3>1 DEF Inv, TypeOK
    <3> QED
      BY <3>1, <3>2, <3>3
  <2>2. CASE a = [line |-> Event(p), at |-> Len(file)]
    <3>1. a.at = Len(file) /\ a.line = Event(p)
      BY <2>2
    <3> QED
      BY <1>1, <1>2, <1>3, <1>8, <3>1
  <2> QED
    BY <1>6, <2>1, <2>2
<1> QED
  BY <1>1, <1>7, <1>10, <1>11, <1>12, GrowingStep DEF Appended, Inv, TypeOK, Appending

LEMMA PowerFailsKeeps ==
  ASSUME Inv, PowerFails PROVE Inv'
<1>1. PICK n \in synced .. Len(file) :
        \/ file' = SubSeq(file, 1, n)
        \/ n < Len(file) /\ file' = Append(SubSeq(file, 1, n), Torn(file[n + 1].by))
  BY DEF PowerFails
<1>2. /\ file \in Seq(Lines) /\ n \in Nat /\ n <= Len(file)
      /\ synced \in Nat /\ synced <= n /\ DOMAIN file = 1 .. Len(file) /\ Len(file) \in Nat
  <2>1. file \in Seq(Lines) /\ synced \in 0 .. Len(file)
    BY DEF Inv, TypeOK
  <2> QED
    BY <2>1
<1>3. DEFINE left == SubSeq(file, 1, n)
             torn == Torn(file[n + 1].by)
<1>4. /\ left \in Seq(Lines) /\ Len(left) = n /\ DOMAIN left = 1 .. n
      /\ \A m \in 1 .. n : left[m] = file[m]
  BY <1>2
<1>5. n < Len(file) => torn \in Lines /\ torn.seq = 0 /\ torn.by = file[n + 1].by
  <2>1. n < Len(file) => file[n + 1] \in Lines
    BY <1>2
  <2> QED
    BY <2>1 DEF Torn, Lines
<1>6. file' = left \/ (n < Len(file) /\ file' = Append(left, torn))
  BY <1>1
<1> HIDE DEF left, torn
<1>7. /\ file' \in Seq(Lines) /\ Len(file') \in Nat /\ DOMAIN file' = 1 .. Len(file')
      /\ n <= Len(file')
      /\ \A m \in 1 .. n : m \in DOMAIN file' /\ file'[m] = file[m]
      /\ \/ Len(file') = n
         \/ n < Len(file) /\ Len(file') = n + 1 /\ file'[n + 1] = torn
  <2>1. CASE file' = left
    BY <1>2, <1>4, <2>1
  <2>2. CASE n < Len(file) /\ file' = Append(left, torn)
    BY <1>2, <1>4, <1>5, <2>2
  <2> QED
    BY <1>6, <2>1, <2>2
<1>8. /\ flock' = Nobody /\ cache' = [p \in Procs |-> NoTail] /\ faults' = faults + 1
      /\ pc' = [p \in Procs |-> "idle"]
      /\ UNCHANGED <<synced, asked, found, acked, overtaken>>
  BY DEF PowerFails, Fault
<1>9. TypeOK'
  <2>1. NoTail \in Tails
    BY DEF NoTail, Tails
  <2>2. synced' \in 0 .. Len(file')
    <3>1. synced' = synced
      BY <1>8
    <3>2. synced \in Nat /\ synced <= n /\ n <= Len(file') /\ Len(file') \in Nat /\ n \in Nat
      BY <1>2, <1>7
    <3> QED
      BY <3>1, <3>2
  <2>3. \A p \in Procs : ~(pc'[p] \in Appending) /\ flock' # p
    BY <1>8, LogAssumption DEF Appending
  <2>4. file' \in Seq(Lines)
    BY <1>7
  <2> QED
    BY <1>8, <2>1, <2>2, <2>3, <2>4 DEF Inv, TypeOK
<1>10. ASSUME NEW k \in Nat, k <= n, WholeUpTo(k) PROVE WholeUpTo(k)'
  <2> SUFFICES ASSUME NEW m \in 1 .. k PROVE m \in DOMAIN file' /\ file'[m].seq = m
    BY DEF WholeUpTo
  <2>1. m \in 1 .. n
    BY <1>2, <1>10
  <2> QED
    BY <1>7, <1>10, <2>1 DEF WholeUpTo
<1>11. Gapless'
  <2> SUFFICES ASSUME NEW m \in DOMAIN file', file'[m].by \notin overtaken
               PROVE file'[m].seq \in {0, m} /\ WholeUpTo(m - 1)'
    BY <1>8 DEF Gapless
  <2>1. m \in Nat /\ 1 <= m /\ m <= Len(file') /\ m - 1 \in Nat
    BY <1>7
  <2>2. CASE m <= n
    <3>1. m \in 1 .. n /\ m \in DOMAIN file
      BY <1>2, <2>1, <2>2
    <3>2. file'[m] = file[m]
      BY <1>7, <3>1
    <3>3. file[m].seq \in {0, m} /\ WholeUpTo(m - 1)
      BY <3>1, <3>2 DEF Inv, Gapless
    <3>4. m - 1 <= n
      BY <1>2, <2>1, <2>2
    <3> QED
      BY <1>10, <2>1, <3>2, <3>3, <3>4
  <2>3. CASE ~(m <= n)
    <3>1. m = n + 1 /\ n < Len(file) /\ file'[m] = torn /\ m - 1 = n
      BY <1>2, <1>7, <2>1, <2>3
    <3>2. m \in DOMAIN file /\ file[m].by \notin overtaken
      BY <1>2, <1>5, <3>1
    <3>3. WholeUpTo(m - 1)
      BY <3>2 DEF Inv, Gapless
    <3>4. WholeUpTo(n)'
      BY <1>2, <1>10, <3>1, <3>3
    <3> QED
      BY <1>5, <3>1, <3>4
  <2> QED
    BY <2>2, <2>3
<1>12. AckedIsKept' /\ AckedIsSynced'
  <2> SUFFICES ASSUME NEW a \in acked
               PROVE /\ a.at \in DOMAIN file' /\ file'[a.at] = a.line
                     /\ a.line.by \notin overtaken => WholeUpTo(a.at)'
    BY <1>8 DEF AckedIsKept, AckedIsSynced, Inv
  <2>1. a.at \in DOMAIN file /\ file[a.at] = a.line /\ a.at <= synced
    BY DEF Inv, AckedIsKept, AckedIsSynced
  <2>2. a.at \in Nat /\ a.at <= n /\ a.at \in 1 .. n
    BY <1>2, <2>1
  <2>3. a.line.by \notin overtaken => WholeUpTo(a.at)
    BY DEF Inv, AckedIsKept
  <2> QED
    BY <1>7, <1>10, <2>1, <2>2, <2>3
<1>13. ProcsKnow'
  BY <1>8 DEF ProcsKnow, ProcKnows
<1> QED
  BY <1>9, <1>11, <1>12, <1>13 DEF Inv

-----------------------------------------------------------------------------
\* Every step keeps the invariant.
LEMMA StepKeeps ==
  ASSUME Inv, [Next]_vars PROVE Inv'
<1>1. ASSUME NEW p \in Procs,
             AppendEvent(p) \/ Refuse(p) \/ Accept(p) \/ Write(p) \/ Finish(p) \/ Appended(p)
      PROVE Inv'
  BY <1>1, AppendEventKeeps, RefuseKeeps, AcceptKeeps, WriteKeeps, FinishKeeps, AppendedKeeps
<1>2. ASSUME NEW p \in Procs,
             \/ LatestSeq(p) \/ Hit(p) \/ Miss(p) \/ Scan(p) \/ Remember(p)
             \/ Fail(p) \/ Die(p)
      PROVE Inv'
  BY <1>2, LatestSeqKeeps, HitKeeps, MissKeeps, ScanKeeps, RememberKeeps, FailKeeps, DieKeeps
<1>3. CASE PowerFails
  BY <1>3, PowerFailsKeeps
<1>4. CASE UNCHANGED vars
  BY <1>4 DEF vars, Inv, TypeOK, Gapless, ProcsKnow, ProcKnows, WholeUpTo, AckedIsKept,
     AckedIsSynced, Event
<1> QED
  BY <1>1, <1>2, <1>3, <1>4 DEF Next

\* The inductive invariant of the file log.
THEOREM Invariance == Spec => []Inv
<1>1. Init => Inv
  BY Initially
<1>2. Inv /\ [Next]_vars => Inv'
  BY StepKeeps
<1> QED
  BY <1>1, <1>2, PTL DEF Spec

\* TypeOK for any processes and any log: an Append works under the file lock
\* throughout.
THEOREM TypeCorrect == Spec => []TypeOK
<1>1. Inv => TypeOK
  BY DEF Inv
<1> QED
  BY <1>1, Invariance, PTL

\* Gapless for any processes, all of which append and ask, and any log: whatever
\* fails, a number is repeated, or a line written behind a torn one, only by a
\* process whose lookup without the file lock an append has overtaken.
THEOREM NumbersAreGapless == Spec => []Gapless
<1>1. Inv => Gapless
  BY DEF Inv
<1> QED
  BY <1>1, Invariance, PTL

\* AckedIsKept for any processes and any log: what Append has reported as stored
\* stays where it is, over deaths and losses of power.
THEOREM AckedAreKept == Spec => []AckedIsKept
<1>1. Inv => AckedIsKept
  BY DEF Inv
<1> QED
  BY <1>1, Invariance, PTL

\* CacheIsNotAhead for any processes and any log: what LatestSeq answers to a
\* process that was not overtaken can be read.
THEOREM CachesAreNotAhead == Spec => []CacheIsNotAhead
<1>1. Inv => CacheIsNotAhead
  BY DEF Inv, CacheIsNotAhead, ProcsKnow, ProcKnows
<1> QED
  BY <1>1, Invariance, PTL
=============================================================================
