----------------------- MODULE CheckpointJournalProofs -----------------------
(***************************************************************************)
(* Proofs about CheckpointJournal for any processes, contents and numbers, *)
(* any failing steps and deaths.  While the power holds, with any deletes, *)
(* the directory stands for one increasing sequence of checkpoints at      *)
(* every step of a save, of its repair by another process and of a delete, *)
(* and so keeps the promise of CheckpointStore.  Where nothing is deleted, *)
(* what a caller was told of outlives any losses of power.                 *)
(***************************************************************************)
EXTENDS CheckpointJournal, SequenceTheorems, WellFoundedInduction, TLAPS

Lines == Checkpoints \cup {Torn}

\* The shape of every variable.
Shape ==
  /\ history \in Seq(Lines) /\ latest \in Checkpoints \cup {NotFound}
  /\ pending \in Intents \cup {NoIntent}
  /\ lock \in Procs \cup {Nobody} /\ pc \in [Procs -> Places]
  /\ request \in [Procs -> Requests \cup {NoRequest}]
  /\ txn \in [Procs -> Intents \cup {NoIntent}] /\ repairing \subseteq Procs
  /\ reply \in Replies \cup {NoReply} /\ known \subseteq Checkpoints /\ cut \in BOOLEAN
  /\ spent \in [faults : Nat, power : Nat, deletes : Nat]

\* What the power could leave includes what is there, and the torn line of a write that
\* is under way.
RisksAreCounted ==
  /\ DOMAIN risk = {"history", "latest", "pending"}
  /\ history \in risk.history /\ latest \in risk.latest /\ pending \in risk.pending
  /\ \A p \in Procs : pc[p] = "write" => Append(history, Torn) \in risk.history

\* The places of a Save or a repair that works on an intent, before and after its end.
Working == {"apply", "write", "flush", "latest", "synclatest", "unlink", "syncunlink"}
Declaring == {"intent", "syncintent"}

\* One process at a time is in a call, and it knows what it was called for.
InCall(p) ==
  /\ pc[p] = "idle" <=> lock # p
  /\ pc[p] = "idle" => request[p] = NoRequest
  /\ pc[p] # "idle" => request[p] \in Requests
  /\ pc[p] \in {"check"} \cup Declaring => request[p].op = "save"
  /\ pc[p] = "read" => request[p].op = "load"
  /\ pc[p] = "delete" <=> request[p].op = "delete"
  /\ pc[p] \in Working \cup Declaring => txn[p] \in Intents
  /\ p \in repairing => pc[p] \in Working
  /\ pc[p] \in Declaring \/ (pc[p] \in Working /\ p \notin repairing)
       => request[p].op = "save" /\ txn[p].cp = request[p].cp
Calls == \A p \in Procs : InCall(p)

Increasing(lines) == \A i, j \in DOMAIN lines : i < j => lines[i].seq < lines[j].seq
Stored(cp, lines) == \E i \in DOMAIN lines : lines[i] = cp

\* The directory stands for one increasing sequence of checkpoints: what is behind the
\* offset of an intent is its line, a torn one, or nothing yet.
Directory ==
  /\ SavedLines \in Seq(Checkpoints) /\ Increasing(SavedLines)
  /\ \A cp \in known : Stored(cp, SavedLines)
  /\ pending = NoIntent => latest = Newest(history)
  /\ pending # NoIntent =>
       /\ pending.offset <= Len(history) /\ Len(history) <= pending.offset + 1
       /\ Len(history) = pending.offset + 1 => history[pending.offset + 1] \in {pending.cp, Torn}
       /\ latest \in {Newest(SubSeq(history, 1, pending.offset)), pending.cp}

\* How far the process in a call has come.
Progress(p) ==
  /\ pc[p] \in (Working \ {"syncunlink"}) \cup {"syncintent"} => pending = txn[p]
  /\ pc[p] = "syncintent" => Len(history) = txn[p].offset
  /\ pc[p] = "write" => Len(history) = txn[p].offset
  /\ pc[p] \in {"flush", "latest", "synclatest", "unlink"} => HasLine(txn[p])
  /\ pc[p] \in {"synclatest", "unlink"} => latest = txn[p].cp
  /\ pc[p] = "syncunlink" => pending = NoIntent /\ latest = txn[p].cp
  /\ pc[p] \in {"check", "intent", "read"} => pending = NoIntent
  /\ pc[p] = "check" => txn[p] = NoIntent \/ txn[p].cp = latest
  /\ pc[p] = "intent" => txn[p].offset = Len(history) /\ txn[p].cp.seq > latest.seq

InOrder == ~cut => Directory /\ \A p \in Procs : Progress(p)

Inv == Shape /\ RisksAreCounted /\ Calls /\ InOrder

-----------------------------------------------------------------------------
\* What the kinds of lines and intents are told apart by.
LEMMA Kinds ==
  /\ Torn \notin Checkpoints /\ NotFound \notin Checkpoints /\ NoIntent \notin Intents
  /\ Torn.seq = 0 /\ NotFound.seq = 0 /\ Torn # NotFound
  /\ \A cp \in Checkpoints : cp.seq \in Nat /\ cp.seq > 0
  /\ \A intent \in Intents : intent.cp \in Checkpoints /\ intent.offset \in Nat
  /\ NoIntent.cp = NotFound /\ NoRequest \notin Requests
<1>1. \A cp \in Checkpoints : cp.seq \in 1 .. MaxSeq
  BY DEF Checkpoints
<1>2. \A cp \in Checkpoints : cp.seq \in Nat /\ cp.seq > 0
  BY <1>1, JournalAssumption
<1>3. Torn.seq = 0 /\ NotFound.seq = 0
  BY DEF Torn, NotFound
<1>4. Torn \notin Checkpoints /\ NotFound \notin Checkpoints
  BY <1>2, <1>3
<1>5. \A intent \in Intents : intent.cp \in Checkpoints /\ intent.offset \in Nat
  BY DEF Intents
<1>6. NoIntent.cp = NotFound
  BY DEF NoIntent
<1>7. NoIntent \notin Intents
  BY <1>4, <1>5, <1>6
<1>8. Torn # NotFound
  <2>1. Torn.content = "torn" /\ NotFound.content = "none"
    BY DEF Torn, NotFound
  <2> QED
    BY <2>1
<1>9. NoRequest \notin Requests
  <2>1. \A r \in Requests : r.op \in {"save", "load", "delete"}
    BY DEF Requests
  <2>2. NoRequest.op = "none"
    BY DEF NoRequest
  <2> QED
    BY <2>1, <2>2
<1> QED
  BY <1>2, <1>3, <1>4, <1>5, <1>6, <1>7, <1>8, <1>9

\* Prefixes and lines at the end.
LEMMA Prefixes ==
  ASSUME NEW X, NEW h \in Seq(X), NEW o \in Nat, o <= Len(h)
  PROVE  /\ SubSeq(h, 1, o) \in Seq(X) /\ Len(SubSeq(h, 1, o)) = o
         /\ \A i \in 1 .. o : SubSeq(h, 1, o)[i] = h[i]
         /\ SubSeq(SubSeq(h, 1, o), 1, o) = SubSeq(h, 1, o)
         /\ SubSeq(h, 1, Len(h)) = h
<1>1. \A i \in 1 .. o : h[i] \in X
  BY ElementOfSeq
<1>2. SubSeq(h, 1, o) = [i \in 1 .. o |-> h[i]]
  OBVIOUS
<1>3. SubSeq(h, 1, o) \in [1 .. o -> X]
  BY <1>1, <1>2
<1>4. SubSeq(h, 1, o) \in Seq(X) /\ Len(SubSeq(h, 1, o)) = o
  BY <1>3, LenProperties
<1> QED
  BY <1>2, <1>4, SubSeqFull

LEMMA Appended ==
  ASSUME NEW X, NEW h \in Seq(X), NEW x \in X
  PROVE  /\ Append(h, x) \in Seq(X) /\ Len(Append(h, x)) = Len(h) + 1
         /\ Append(h, x)[Len(h) + 1] = x
         /\ \A i \in 1 .. Len(h) : Append(h, x)[i] = h[i]
         /\ \A o \in Nat : o <= Len(h) => SubSeq(Append(h, x), 1, o) = SubSeq(h, 1, o)
<1>1. /\ Append(h, x) \in Seq(X) /\ Len(Append(h, x)) = Len(h) + 1
      /\ Append(h, x)[Len(h) + 1] = x
      /\ \A i \in 1 .. Len(h) : Append(h, x)[i] = h[i]
  BY AppendProperties
<1>2. ASSUME NEW o \in Nat, o <= Len(h) PROVE SubSeq(Append(h, x), 1, o) = SubSeq(h, 1, o)
  <2>1. Len(h) \in Nat
    OBVIOUS
  <2>2. o <= Len(Append(h, x))
    BY <1>1, <1>2, <2>1
  <2>3. /\ SubSeq(Append(h, x), 1, o) \in Seq(X) /\ Len(SubSeq(Append(h, x), 1, o)) = o
        /\ \A i \in 1 .. o : SubSeq(Append(h, x), 1, o)[i] = Append(h, x)[i]
    BY <1>1, <2>2, Prefixes
  <2>4. /\ SubSeq(h, 1, o) \in Seq(X) /\ Len(SubSeq(h, 1, o)) = o
        /\ \A i \in 1 .. o : SubSeq(h, 1, o)[i] = h[i]
    BY <1>2, Prefixes
  <2>5. \A i \in 1 .. o : i \in 1 .. Len(h)
    BY <1>2, <2>1
  <2> QED
    BY <1>1, <2>3, <2>4, <2>5, SeqEqual
<1> QED
  BY <1>1, <1>2

LEMMA LastLine ==
  ASSUME NEW X, NEW h \in Seq(X), NEW o \in Nat, Len(h) = o + 1
  PROVE  h = Append(SubSeq(h, 1, o), h[o + 1])
<1>1. /\ SubSeq(h, 1, o) \in Seq(X) /\ Len(SubSeq(h, 1, o)) = o
      /\ \A i \in 1 .. o : SubSeq(h, 1, o)[i] = h[i]
  BY Prefixes
<1>2. h[o + 1] \in X
  BY ElementOfSeq
<1> DEFINE g == Append(SubSeq(h, 1, o), h[o + 1])
<1>3. g \in Seq(X) /\ Len(g) = o + 1 /\ g[o + 1] = h[o + 1] /\ \A i \in 1 .. o : g[i] = h[i]
  BY <1>1, <1>2, Appended
<1> HIDE DEF g
<1>4. \A i \in 1 .. o + 1 : g[i] = h[i]
  BY <1>3
<1> QED
  BY <1>3, <1>4, SeqEqual DEF g

-----------------------------------------------------------------------------
\* Initially every part holds.
LEMMA Initially == ASSUME Init PROVE Inv
<1>1. <<>> \in Seq(Lines) /\ <<>> \in Seq(Checkpoints) /\ Len(<<>>) = 0
  OBVIOUS
<1>2. Shape
  BY <1>1 DEF Init, Shape, Places
<1>3. RisksAreCounted
  BY DEF Init, RisksAreCounted
<1>4. Calls
  <2>1. Nobody \notin Procs /\ NoRequest.op = "none"
    BY JournalAssumption DEF Nobody, NoRequest
  <2> QED
    BY <2>1 DEF Init, Calls, InCall, Working, Declaring
<1>5. SavedLines = <<>>
  BY DEF Init, SavedLines
<1>6. Directory
  BY <1>1, <1>5 DEF Init, Directory, Increasing, Newest
<1>7. \A p \in Procs : Progress(p)
  BY DEF Init, Progress, Working
<1> QED
  BY <1>2, <1>3, <1>4, <1>6, <1>7 DEF Inv, InOrder

-----------------------------------------------------------------------------
\* Control.  While a process is in a call the others wait.
LEMMA OneCall ==
  ASSUME Shape, Calls, NEW p \in Procs, pc[p] # "idle"
  PROVE  /\ lock = p /\ request[p] \in Requests /\ request[p] # NoRequest
         /\ \A q \in Procs \ {p} : pc[q] = "idle" /\ request[q] = NoRequest /\ q \notin repairing
<1>1. lock = p /\ request[p] \in Requests
  BY DEF Calls, InCall
<1>2. \A q \in Procs \ {p} : pc[q] = "idle" /\ request[q] = NoRequest /\ q \notin repairing
  BY <1>1 DEF Calls, InCall, Working
<1> QED
  BY <1>1, <1>2, Kinds

\* The end of a call leaves everybody idle.
LEMMA LeaveFrees ==
  ASSUME Shape, Calls, NEW p \in Procs, pc[p] # "idle", Leave(p)
  PROVE  /\ Calls' /\ \A q \in Procs : pc'[q] = "idle"
         /\ pc' \in [Procs -> Places] /\ lock' = Nobody
         /\ request' \in [Procs -> Requests \cup {NoRequest}]
         /\ txn' \in [Procs -> Intents \cup {NoIntent}] /\ repairing' \subseteq Procs
<1>1. /\ lock = p /\ \A q \in Procs \ {p} : pc[q] = "idle" /\ request[q] = NoRequest /\ q \notin repairing
  BY OneCall
<1>2. /\ \A q \in Procs : pc'[q] = "idle" /\ request'[q] = NoRequest /\ q \notin repairing'
      /\ lock' = Nobody
  BY <1>1 DEF Leave, Shape
<1>3. Nobody \notin Procs /\ NoRequest.op = "none"
  BY JournalAssumption DEF Nobody, NoRequest
<1>4. Calls'
  BY <1>2, <1>3 DEF Calls, InCall, Working, Declaring
<1>5. pc' \in [Procs -> Places] /\ request' \in [Procs -> Requests \cup {NoRequest}]
      /\ txn' \in [Procs -> Intents \cup {NoIntent}] /\ repairing' \subseteq Procs
  BY DEF Leave, Shape, Places
<1> QED
  BY <1>2, <1>4, <1>5

\* What an answer tells.
LEMMA AnswerTells ==
  ASSUME Shape, Calls, NEW p \in Procs, pc[p] # "idle",
         NEW kind \in {"saved", "stale", "loaded", "deleted", "error"},
         NEW cp \in Checkpoints \cup {NotFound}, Answer(p, kind, cp)
  PROVE  /\ Leave(p) /\ reply' \in Replies \cup {NoReply} /\ known' \subseteq Checkpoints
         /\ \A c \in known' : c \in known \/ (c = cp /\ cp # NotFound)
<1>1. reply' \in Replies
  BY DEF Answer, Replies
<1>2. known' \subseteq Checkpoints /\ \A c \in known' : c \in known \/ (c = cp /\ cp # NotFound)
  BY DEF Answer, Shape
<1> QED
  BY <1>1, <1>2 DEF Answer

\* A step of a call that goes on to another place.
LEMMA GoesOn ==
  ASSUME Shape, Calls, NEW p \in Procs, pc[p] # "idle", NEW place \in Places \ {"idle"}, Goto(p, place),
         UNCHANGED request, repairing' \ {p} = repairing \ {p},
         InCall(p)'
  PROVE  /\ Calls' /\ pc' \in [Procs -> Places] /\ pc'[p] = place
         /\ \A q \in Procs \ {p} : pc'[q] = "idle"
         /\ UNCHANGED <<lock, reply, known>>
<1>1. /\ lock = p /\ \A q \in Procs \ {p} : pc[q] = "idle" /\ request[q] = NoRequest /\ q \notin repairing
  BY OneCall
<1>2. pc' \in [Procs -> Places] /\ pc'[p] = place /\ UNCHANGED <<lock, reply, known>>
  BY DEF Goto, Shape
<1>3. \A q \in Procs \ {p} : pc'[q] = "idle" /\ request'[q] = NoRequest /\ q \notin repairing'
  BY <1>1 DEF Goto, Shape
<1>4. NoRequest.op = "none"
  BY DEF NoRequest
<1>5. \A q \in Procs \ {p} : InCall(q)'
  BY <1>1, <1>2, <1>3, <1>4 DEF InCall, Working, Declaring
<1> QED
  BY <1>2, <1>3, <1>5 DEF Calls

\* Who is idle has come nowhere.
LEMMA IdleProgress == ASSUME NEW q \in Procs, pc[q] = "idle" PROVE Progress(q)
BY DEF Progress, Working

\* The end of a call over an unchanged directory.
LEMMA LeaveKeeps ==
  ASSUME Inv, NEW p \in Procs, pc[p] # "idle", Leave(p), UNCHANGED <<disk, spent>>,
         reply' \in Replies \cup {NoReply}, known' \subseteq Checkpoints,
         ~cut => \A c \in known' : c \in known \/ Stored(c, SavedLines)
  PROVE  Inv'
<1>0. Shape /\ RisksAreCounted /\ Calls /\ InOrder /\ UNCHANGED <<history, latest, pending, risk, cut>>
  BY DEF Inv, disk
<1>1. /\ Calls' /\ \A q \in Procs : pc'[q] = "idle"
      /\ pc' \in [Procs -> Places] /\ lock' = Nobody
      /\ request' \in [Procs -> Requests \cup {NoRequest}]
      /\ txn' \in [Procs -> Intents \cup {NoIntent}] /\ repairing' \subseteq Procs
  BY <1>0, LeaveFrees
<1>2. Shape'
  BY <1>0, <1>1 DEF Shape
<1>3. RisksAreCounted'
  BY <1>0, <1>1 DEF RisksAreCounted
<1>4. ASSUME ~cut PROVE Directory'
  <2>1. Directory /\ SavedLines' = SavedLines
    BY <1>0, <1>4 DEF InOrder, SavedLines
  <2> QED
    BY <1>0, <1>4, <2>1 DEF Directory, Stored
<1>5. \A q \in Procs : Progress(q)'
  BY <1>1 DEF Progress, Working
<1> QED
  BY <1>0, <1>1, <1>2, <1>3, <1>4, <1>5 DEF Inv, InOrder

\* A step to the next place of a call.
LEMMA MovesKeep ==
  ASSUME Inv, NEW p \in Procs, pc[p] # "idle", NEW place \in Places \ {"idle"}, Goto(p, place),
         UNCHANGED <<request, cut, spent>>, repairing' \subseteq Procs, repairing' \ {p} = repairing \ {p},
         history' \in Seq(Lines), latest' \in Checkpoints \cup {NotFound}, pending' \in Intents \cup {NoIntent},
         txn' \in [Procs -> Intents \cup {NoIntent}],
         DOMAIN risk' = {"history", "latest", "pending"},
         history' \in risk'.history, latest' \in risk'.latest, pending' \in risk'.pending,
         place = "write" => Append(history', Torn) \in risk'.history,
         InCall(p)', ~cut => Directory' /\ Progress(p)'
  PROVE  Inv'
<1>0. Shape /\ RisksAreCounted /\ Calls /\ InOrder
  BY DEF Inv
<1>1. /\ Calls' /\ pc' \in [Procs -> Places] /\ pc'[p] = place
      /\ \A q \in Procs \ {p} : pc'[q] = "idle"
      /\ UNCHANGED <<lock, reply, known>>
  BY <1>0, GoesOn
<1>2. Shape'
  BY <1>0, <1>1 DEF Shape
<1>3. RisksAreCounted'
  BY <1>1 DEF RisksAreCounted
<1>4. \A q \in Procs \ {p} : Progress(q)'
  BY <1>1 DEF Progress, Working
<1> QED
  BY <1>1, <1>2, <1>3, <1>4 DEF Inv, InOrder

-----------------------------------------------------------------------------
\* The steps that leave the directory alone.
LEMMA EnterKeeps == ASSUME Inv, NEW p \in Procs, Enter(p) PROVE Inv'
<1>0. Shape /\ RisksAreCounted /\ Calls /\ InOrder /\ UNCHANGED <<history, latest, pending, risk, cut, known, txn>>
  BY DEF Inv, disk, Enter
<1>1. PICK r \in Requests :
        /\ request' = [request EXCEPT ![p] = r]
        /\ pc' = [pc EXCEPT ![p] = IF r.op = "delete" THEN "delete" ELSE "recover"]
        /\ spent' = IF r.op = "delete" THEN [spent EXCEPT !.deletes = @ + 1] ELSE spent
  BY DEF Enter
<1>2. lock = Nobody /\ lock' = p /\ UNCHANGED <<repairing, reply>>
  BY DEF Enter
<1>3. \A q \in Procs : pc[q] = "idle" /\ request[q] = NoRequest /\ q \notin repairing
  <2>1. \A q \in Procs : lock # q
    BY <1>2, JournalAssumption DEF Nobody
  <2> QED
    BY <1>0, <2>1 DEF Calls, InCall, Working
<1>4. \A q \in Procs \ {p} : pc'[q] = "idle" /\ request'[q] = NoRequest
  BY <1>0, <1>1, <1>3 DEF Shape
<1>5. pc'[p] = (IF r.op = "delete" THEN "delete" ELSE "recover") /\ request'[p] = r
  BY <1>0, <1>1 DEF Shape
<1>6. Shape'
  <2>1. spent' \in [faults : Nat, power : Nat, deletes : Nat]
    BY <1>0, <1>1 DEF Shape
  <2>2. pc' \in [Procs -> Places] /\ request' \in [Procs -> Requests \cup {NoRequest}]
    BY <1>0, <1>1 DEF Shape, Places
  <2> QED
    BY <1>0, <1>2, <2>1, <2>2 DEF Shape
<1>7. RisksAreCounted'
  BY <1>0, <1>4, <1>5 DEF RisksAreCounted
<1>8. Calls'
  <2>1. NoRequest.op = "none"
    BY DEF NoRequest
  <2>2. InCall(p)'
    BY <1>2, <1>3, <1>5 DEF InCall, Working, Declaring
  <2>3. \A q \in Procs \ {p} : InCall(q)'
    BY <1>2, <1>3, <1>4, <2>1 DEF InCall, Working, Declaring
  <2> QED
    BY <2>2, <2>3 DEF Calls
<1>9. ASSUME ~cut PROVE Directory'
  BY <1>0, <1>9 DEF InOrder, SavedLines, Directory
<1>10. \A q \in Procs : Progress(q)'
  BY <1>4, <1>5 DEF Progress, Working
<1> QED
  BY <1>0, <1>6, <1>7, <1>8, <1>9, <1>10 DEF Inv, InOrder

LEMMA RecoverKeeps == ASSUME Inv, NEW p \in Procs, Recover(p) PROVE Inv'
<1>0. Shape /\ RisksAreCounted /\ Calls /\ InOrder
  BY DEF Inv
<1>1. /\ pc[p] = "recover" /\ txn' = [txn EXCEPT ![p] = pending]
      /\ repairing' = IF pending = NoIntent THEN repairing ELSE repairing \cup {p}
      /\ Goto(p, IF pending = NoIntent THEN Onward(p) ELSE "apply")
      /\ UNCHANGED <<history, latest, pending, risk, cut, request, spent>>
  BY DEF Recover, At, disk
<1> DEFINE place == IF pending = NoIntent THEN Onward(p) ELSE "apply"
<1>2. place \in Places \ {"idle"} /\ place \in {"check", "read", "apply"}
  BY DEF Onward, Places
<1>3. pc'[p] = place /\ txn'[p] = pending /\ lock' = lock /\ UNCHANGED known
  BY <1>0, <1>1 DEF Goto, Shape
<1>4. InCall(p)'
  <2>1. /\ lock = p /\ request[p] \in Requests /\ p \notin repairing /\ request[p].op # "delete"
        /\ request[p].op \in {"save", "load", "delete"}
    BY <1>0, <1>1 DEF Calls, InCall, Working, Requests
  <2>2. CASE pending = NoIntent
    BY <1>1, <1>3, <2>1, <2>2 DEF InCall, Onward, Working, Declaring
  <2>3. CASE pending # NoIntent
    BY <1>0, <1>1, <1>3, <2>1, <2>3 DEF InCall, Working, Declaring, Shape
  <2> QED
    BY <2>2, <2>3
<1>5. ASSUME ~cut PROVE Directory' /\ Progress(p)'
  <2>1. Directory'
    BY <1>0, <1>1, <1>3, <1>5 DEF InOrder, SavedLines, Directory
  <2>2. Progress(p)'
    BY <1>1, <1>2, <1>3 DEF Progress, Working
  <2> QED
    BY <2>1, <2>2
<1>6. txn' \in [Procs -> Intents \cup {NoIntent}]
  BY <1>0, <1>1 DEF Shape
<1>7. repairing' \subseteq Procs /\ repairing' \ {p} = repairing \ {p}
  BY <1>0, <1>1 DEF Shape
<1> HIDE DEF place
<1>8. Goto(p, place) /\ place # "write"
  BY <1>1, <1>2 DEF place
<1> QED
  BY <1>0, <1>1, <1>2, <1>4, <1>5, <1>6, <1>7, <1>8, MovesKeep DEF Shape, RisksAreCounted

-----------------------------------------------------------------------------
\* A set of natural numbers has a least one, and NewestAt finds a line of the history.
LEMMA LeastOf == ASSUME NEW S, S \subseteq Nat, S # {} PROVE \E m \in S : \A n \in S : m <= n
<1> DEFINE R == OpToRel(<, Nat)
<1>1. PICK m \in S : \A n \in S : <<n, m>> \notin R
  <2>1. IsWellFoundedOn(R, Nat)
    BY NatLessThanWellFounded
  <2> HIDE DEF R
  <2> QED
    BY <2>1, WFMin
<1>2. ASSUME NEW n \in S PROVE m <= n
  <2>1. m \in Nat /\ n \in Nat /\ <<n, m>> \in Nat \X Nat
    OBVIOUS
  <2>2. n < m => <<n, m>> \in R
    BY <2>1 DEF OpToRel
  <2> HIDE DEF R
  <2> QED
    BY <1>1, <2>1, <2>2
<1> QED
  BY <1>2

LEMMA NewestAtFinds ==
  ASSUME NEW h \in Seq(Lines), \A i \in DOMAIN h : h[i] # Torn, NEW seq \in Nat
  PROVE  NewestAt(h, seq) \in Checkpoints \cup {NotFound}
<1> DEFINE old == {i \in DOMAIN h : h[i].seq <= seq}
           best == {i \in old : \A j \in old : \/ h[j].seq < h[i].seq
                                               \/ h[j].seq = h[i].seq /\ i <= j}
<1>1. \A i \in DOMAIN h : i \in Nat /\ h[i] \in Checkpoints
  BY ElementOfSeq DEF Lines
<1>2. \A i \in DOMAIN h : h[i].seq \in Nat
  BY <1>1, Kinds
<1>3. CASE old = {}
  BY <1>3 DEF NewestAt
<1>4. CASE old # {}
  <2> DEFINE gaps == {seq - h[i].seq : i \in old}
  <2>1. gaps \subseteq Nat /\ gaps # {}
    BY <1>2, <1>4
  <2>2. PICK g \in gaps : \A n \in gaps : g <= n
    BY <2>1, LeastOf
  <2>3. PICK k \in old : g = seq - h[k].seq
    BY <2>2
  <2>4. ASSUME NEW j \in old PROVE h[j].seq <= h[k].seq
    <3>1. g <= seq - h[j].seq
      BY <2>2
    <3>2. h[j].seq \in Nat /\ h[k].seq \in Nat
      BY <1>2
    <3> QED
      BY <2>3, <3>1, <3>2
  <2> DEFINE top == {i \in old : h[i].seq = h[k].seq}
  <2>5. top \subseteq Nat /\ k \in top
    BY <1>1, <2>3
  <2>6. PICK i \in top : \A j \in top : i <= j
    BY <2>5, LeastOf
  <2>7. i \in best
    BY <1>2, <2>4, <2>6
  <2>8. (CHOOSE x \in best : TRUE) \in best
    BY <2>7
  <2>9. NewestAt(h, seq) = h[CHOOSE x \in best : TRUE]
    BY <1>4 DEF NewestAt
  <2> HIDE DEF best
  <2>10. best \subseteq DOMAIN h
    BY DEF best
  <2> QED
    BY <1>1, <2>8, <2>9, <2>10
<1> QED
  BY <1>3, <1>4

\* The newest line of an increasing history is its last one.
LEMMA NewestIsLast ==
  ASSUME NEW h \in Seq(Checkpoints), Increasing(h)
  PROVE  NewestAt(h, MaxSeq) = Newest(h)
<1> DEFINE old == {i \in DOMAIN h : h[i].seq <= MaxSeq}
           best == {i \in old : \A j \in old : \/ h[j].seq < h[i].seq
                                               \/ h[j].seq = h[i].seq /\ i <= j}
<1>1. \A i \in DOMAIN h : i \in Nat /\ h[i] \in Checkpoints
  BY ElementOfSeq
<1>2. \A i \in DOMAIN h : h[i].seq \in Nat /\ h[i].seq <= MaxSeq
  BY <1>1, JournalAssumption DEF Checkpoints
<1>3. old = DOMAIN h
  BY <1>2
<1>4. CASE h = <<>>
  <2>1. old = {}
    BY <1>3, <1>4
  <2> QED
    BY <1>4, <2>1 DEF NewestAt, Newest
<1>5. CASE h # <<>>
  <2> DEFINE last == Len(h)
  <2>1. last \in DOMAIN h /\ \A i \in DOMAIN h : i <= last
    BY <1>5
  <2>2. \A i \in DOMAIN h : i # last => h[i].seq < h[last].seq
    BY <1>1, <2>1 DEF Increasing
  <2>3. best = {last}
    <3>1. last \in best
      BY <1>2, <1>3, <2>1, <2>2, JournalAssumption
    <3>2. ASSUME NEW i \in best PROVE i = last
      BY <1>2, <1>3, <2>1, <2>2, JournalAssumption
    <3> QED
      BY <3>1, <3>2
  <2>4. NewestAt(h, MaxSeq) = h[CHOOSE x \in best : TRUE]
    BY <1>3, <2>1 DEF NewestAt
  <2> HIDE DEF best
  <2>5. (CHOOSE x \in best : TRUE) = last
    BY <2>3
  <2> QED
    BY <1>5, <2>4, <2>5 DEF Newest
<1> QED
  BY <1>4, <1>5

-----------------------------------------------------------------------------
\* The answers of a call.
LEMMA AnswerKeeps ==
  ASSUME Inv, NEW p \in Procs, pc[p] # "idle", UNCHANGED <<disk, spent>>,
         NEW kind \in {"saved", "stale", "loaded", "deleted", "error"},
         NEW cp \in Checkpoints \cup {NotFound}, Answer(p, kind, cp),
         ~cut => \A c \in known' : c \in known \/ Stored(c, SavedLines)
  PROVE  Inv'
<1>1. Leave(p) /\ reply' \in Replies \cup {NoReply} /\ known' \subseteq Checkpoints
  BY AnswerTells DEF Inv
<1> QED
  BY <1>1, LeaveKeeps

LEMMA TellsNothingNew ==
  ASSUME Inv, NEW p \in Procs, pc[p] # "idle", UNCHANGED <<disk, spent>>,
         NEW kind \in {"saved", "stale", "loaded", "deleted", "error"}, Answer(p, kind, NotFound)
  PROVE  Inv'
<1>1. \A c \in known' : c \in known
  BY DEF Answer
<1> QED
  BY <1>1, AnswerKeeps

LEMMA ShrunkKeeps == ASSUME Inv, NEW p \in Procs, Shrunk(p) PROVE Inv'
BY TellsNothingNew DEF Shrunk, At

LEMMA StaleKeeps == ASSUME Inv, NEW p \in Procs, Stale(p) PROVE Inv'
BY TellsNothingNew DEF Stale, At

LEMMA DeletedKeeps == ASSUME Inv, NEW p \in Procs, Deleted(p) PROVE Inv'
BY TellsNothingNew DEF Deleted, At

\* With no repair due, the newest checkpoint is the last line.
LEMMA LatestIsStored ==
  ASSUME Shape, Directory, pending = NoIntent, latest # NotFound
  PROVE  Stored(latest, SavedLines) /\ SavedLines = history /\ Len(history) \in DOMAIN history
<1>1. SavedLines = history /\ latest = Newest(history) /\ history # <<>>
  BY DEF SavedLines, Directory, Newest
<1>2. Len(history) \in DOMAIN history /\ latest = history[Len(history)]
  BY <1>1 DEF Shape, Newest
<1> QED
  BY <1>1, <1>2 DEF Stored

LEMMA RetriedKeeps == ASSUME Inv, NEW p \in Procs, Retried(p) PROVE Inv'
<1>0. Shape /\ Calls /\ InOrder
  BY DEF Inv
<1>1. pc[p] = "check" /\ txn[p].cp = request[p].cp /\ Answer(p, "saved", request[p].cp) /\ UNCHANGED <<disk, spent>>
  BY DEF Retried, At
<1>2. request[p].cp \in Checkpoints
  BY <1>0, <1>1 DEF Calls, InCall, Requests
<1>3. ASSUME ~cut PROVE \A c \in known' : c \in known \/ Stored(c, SavedLines)
  <2>1. Directory /\ Progress(p)
    BY <1>0, <1>3 DEF InOrder
  <2>2. pending = NoIntent /\ latest = request[p].cp
    BY <1>1, <1>2, <2>1, Kinds DEF Progress
  <2>3. Stored(request[p].cp, SavedLines)
    BY <1>0, <1>2, <2>1, <2>2, LatestIsStored, Kinds
  <2> QED
    BY <1>1, <2>3 DEF Answer
<1> QED
  BY <1>1, <1>2, <1>3, AnswerKeeps

LEMMA LoadKeeps == ASSUME Inv, NEW p \in Procs, Load(p) PROVE Inv'
<1>0. Shape /\ Calls /\ InOrder
  BY DEF Inv
<1>1. pc[p] = "read" /\ Answer(p, "loaded", latest) /\ UNCHANGED <<disk, spent>>
  BY DEF Load, At
<1>2. ASSUME ~cut PROVE \A c \in known' : c \in known \/ Stored(c, SavedLines)
  <2>1. Directory /\ Progress(p)
    BY <1>0, <1>2 DEF InOrder
  <2>2. pending = NoIntent
    BY <1>1, <2>1 DEF Progress
  <2>3. latest # NotFound => Stored(latest, SavedLines)
    BY <1>0, <2>1, <2>2, LatestIsStored
  <2> QED
    BY <1>1, <2>3 DEF Answer
<1> QED
  BY <1>0, <1>1, <1>2, AnswerKeeps DEF Shape

LEMMA LoadAtKeeps == ASSUME Inv, NEW p \in Procs, LoadAt(p) PROVE Inv'
<1>0. Shape /\ Calls /\ InOrder
  BY DEF Inv
<1>1. pc[p] = "read" /\ request[p].seq > 0 /\ UNCHANGED <<disk, spent>>
  BY DEF LoadAt, At
<1>2. CASE \E i \in DOMAIN history : history[i] = Torn
  BY <1>1, <1>2, TellsNothingNew DEF LoadAt
<1>3. CASE \A i \in DOMAIN history : history[i] # Torn
  <2>1. request[p] \in Requests /\ request[p].op = "load"
    BY <1>0, <1>1 DEF Calls, InCall
  <2>2. request[p].seq \in Nat
    BY <2>1, JournalAssumption DEF Requests
  <2>3. NewestAt(history, request[p].seq) \in Checkpoints \cup {NotFound}
    BY <1>0, <1>3, <2>2, NewestAtFinds DEF Shape
  <2>4. Answer(p, "loaded", NewestAt(history, request[p].seq))
    BY <1>3 DEF LoadAt
  <2>5. known' = known
    BY <1>1, <2>1, <2>4 DEF Answer
  <2> QED
    BY <1>1, <2>3, <2>4, <2>5, AnswerKeeps
<1> QED
  BY <1>2, <1>3

-----------------------------------------------------------------------------
\* What a sync and a replaced file leave counted.
LEMMA RisksFollow ==
  ASSUME RisksAreCounted
  PROVE  /\ SyncDir => /\ DOMAIN risk' = {"history", "latest", "pending"}
                       /\ history \in risk'.history /\ latest \in risk'.latest /\ pending \in risk'.pending
         /\ \A files : RiskHistory(files) =>
                       /\ DOMAIN risk' = {"history", "latest", "pending"}
                       /\ risk'.history = risk.history \cup files
                       /\ latest \in risk'.latest /\ pending \in risk'.pending
         /\ \A cp : RiskLatest(cp) =>
                       /\ DOMAIN risk' = {"history", "latest", "pending"}
                       /\ history \in risk'.history /\ cp \in risk'.latest /\ pending \in risk'.pending
         /\ \A intent : RiskPending(intent) =>
                       /\ DOMAIN risk' = {"history", "latest", "pending"}
                       /\ history \in risk'.history /\ latest \in risk'.latest /\ intent \in risk'.pending
<1>1. SyncDir => /\ DOMAIN risk' = {"history", "latest", "pending"}
                 /\ history \in risk'.history /\ latest \in risk'.latest /\ pending \in risk'.pending
  BY DEF SyncDir, RisksAreCounted
<1>2. \A files : RiskHistory(files) =>
        /\ DOMAIN risk' = {"history", "latest", "pending"}
        /\ risk'.history = risk.history \cup files
        /\ latest \in risk'.latest /\ pending \in risk'.pending
  BY DEF RiskHistory, RisksAreCounted
<1>3. \A cp : RiskLatest(cp) =>
        /\ DOMAIN risk' = {"history", "latest", "pending"}
        /\ history \in risk'.history /\ cp \in risk'.latest /\ pending \in risk'.pending
  BY DEF RiskLatest, RisksAreCounted
<1>4. \A intent : RiskPending(intent) =>
        /\ DOMAIN risk' = {"history", "latest", "pending"}
        /\ history \in risk'.history /\ latest \in risk'.latest /\ intent \in risk'.pending
  BY DEF RiskPending, RisksAreCounted
<1> QED
  BY <1>1, <1>2, <1>3, <1>4

LEMMA SameDirectory ==
  ASSUME Directory, UNCHANGED <<history, latest, pending, cut, known>>
  PROVE  Directory' /\ SavedLines' = SavedLines
<1>1. SavedLines' = SavedLines
  BY DEF SavedLines
<1> QED
  BY <1>1 DEF Directory, Stored

\* The places of a call that works on its intent keep who it works for.
LEMMA StaysInCall ==
  ASSUME Shape, Calls, NEW p \in Procs, pc[p] \in Working, NEW place \in Working, Goto(p, place),
         UNCHANGED local
  PROVE  InCall(p)' /\ pc'[p] = place /\ txn'[p] = txn[p] /\ txn[p] \in Intents /\ known' = known
<1>1. pc'[p] = place /\ UNCHANGED <<lock, request, txn, repairing, known>>
  BY DEF Goto, Shape, local
<1>2. txn[p] \in Intents
  BY DEF Calls, InCall
<1>3. InCall(p)
  BY DEF Calls
<1>4. InCall(p)'
  BY <1>1, <1>3 DEF InCall, Working, Declaring
<1> QED
  BY <1>1, <1>2, <1>4

LEMMA SkipLineKeeps == ASSUME Inv, NEW p \in Procs, SkipLine(p) PROVE Inv'
<1>0. Shape /\ RisksAreCounted /\ Calls /\ InOrder
  BY DEF Inv
<1>1. pc[p] = "apply" /\ HasLine(txn[p]) /\ Goto(p, "flush") /\ UNCHANGED <<history, latest, pending, risk, cut, local, spent>>
  BY DEF SkipLine, At, disk
<1>2. InCall(p)' /\ pc'[p] = "flush" /\ txn'[p] = txn[p] /\ txn[p] \in Intents /\ known' = known
  BY <1>0, <1>1, StaysInCall DEF Working
<1>3. ASSUME ~cut PROVE Directory' /\ Progress(p)'
  <2>1. Directory /\ Progress(p)
    BY <1>0, <1>3 DEF InOrder
  <2>2. Directory'
    BY <1>1, <1>2, <2>1, SameDirectory
  <2>3. Progress(p)'
    BY <1>1, <1>2, <2>1 DEF Progress, Working, HasLine
  <2> QED
    BY <2>2, <2>3
<1> QED
  BY <1>0, <1>1, <1>2, <1>3, MovesKeep DEF Shape, RisksAreCounted, Places, local

LEMMA FlushKeeps == ASSUME Inv, NEW p \in Procs, Flush(p) PROVE Inv'
<1>0. Shape /\ RisksAreCounted /\ Calls /\ InOrder
  BY DEF Inv
<1>1. /\ pc[p] = "flush" /\ Goto(p, "latest") /\ risk' = [risk EXCEPT !.history = {history}]
      /\ UNCHANGED <<history, latest, pending, cut, local, spent>>
  BY DEF Flush, At
<1>2. InCall(p)' /\ pc'[p] = "latest" /\ txn'[p] = txn[p] /\ txn[p] \in Intents /\ known' = known
  BY <1>0, <1>1, StaysInCall DEF Working
<1>3. ASSUME ~cut PROVE Directory' /\ Progress(p)'
  <2>1. Directory /\ Progress(p)
    BY <1>0, <1>3 DEF InOrder
  <2>2. Directory'
    BY <1>1, <1>2, <2>1, SameDirectory
  <2>3. Progress(p)'
    BY <1>1, <1>2, <2>1 DEF Progress, Working, HasLine
  <2> QED
    BY <2>2, <2>3
<1>4. /\ DOMAIN risk' = {"history", "latest", "pending"}
      /\ history' \in risk'.history /\ latest' \in risk'.latest /\ pending' \in risk'.pending
  BY <1>0, <1>1 DEF RisksAreCounted
<1> QED
  BY <1>0, <1>1, <1>2, <1>3, <1>4, MovesKeep DEF Shape, Places, local

LEMMA SyncLatestKeeps == ASSUME Inv, NEW p \in Procs, SyncLatest(p) PROVE Inv'
<1>0. Shape /\ RisksAreCounted /\ Calls /\ InOrder
  BY DEF Inv
<1>1. /\ pc[p] = "synclatest" /\ Goto(p, "unlink") /\ SyncDir
      /\ UNCHANGED <<history, latest, pending, cut, local, spent>>
  BY DEF SyncLatest, At
<1>2. InCall(p)' /\ pc'[p] = "unlink" /\ txn'[p] = txn[p] /\ txn[p] \in Intents /\ known' = known
  BY <1>0, <1>1, StaysInCall DEF Working
<1>3. ASSUME ~cut PROVE Directory' /\ Progress(p)'
  <2>1. Directory /\ Progress(p)
    BY <1>0, <1>3 DEF InOrder
  <2>2. Directory'
    BY <1>1, <1>2, <2>1, SameDirectory
  <2>3. Progress(p)'
    BY <1>1, <1>2, <2>1 DEF Progress, Working, HasLine
  <2> QED
    BY <2>2, <2>3
<1>4. /\ DOMAIN risk' = {"history", "latest", "pending"}
      /\ history' \in risk'.history /\ latest' \in risk'.latest /\ pending' \in risk'.pending
  BY <1>0, <1>1, RisksFollow
<1> QED
  BY <1>0, <1>1, <1>2, <1>3, <1>4, MovesKeep DEF Shape, Places, local

-----------------------------------------------------------------------------
\* Nothing that is done behind the offset of an intent changes what the directory stands
\* for, as long as it leaves nothing there but the line, a torn one or nothing.
LEMMA BehindTheOffset ==
  ASSUME Shape, Directory, pending # NoIntent, UNCHANGED <<latest, pending, cut, known>>, ~cut,
         history' \in Seq(Lines), pending.offset <= Len(history'), Len(history') <= pending.offset + 1,
         SubSeq(history', 1, pending.offset) = SubSeq(history, 1, pending.offset),
         Len(history') = pending.offset + 1 => history'[pending.offset + 1] \in {pending.cp, Torn}
  PROVE  Directory' /\ SavedLines' = SavedLines
<1>1. SavedLines' = SavedLines
  BY DEF SavedLines
<1> QED
  BY <1>1 DEF Directory, Stored

LEMMA TruncateCuts ==
  ASSUME Shape, Calls, Directory, NEW p \in Procs, Progress(p), Truncate(p), ~cut
  PROVE  Directory' /\ SavedLines' = SavedLines /\ Progress(p)'
<1>1. /\ pc[p] = "apply" /\ Goto(p, "write") /\ Len(history) >= txn[p].offset /\ history' = Kept(p)
      /\ UNCHANGED <<latest, pending, cut, local>>
  BY DEF Truncate, At
<1>2. InCall(p)' /\ pc'[p] = "write" /\ txn'[p] = txn[p] /\ txn[p] \in Intents /\ known' = known
  BY <1>1, StaysInCall DEF Working
<1> DEFINE o == txn[p].offset
<1>3. o \in Nat /\ o <= Len(history) /\ history \in Seq(Lines)
  BY <1>1, <1>2, Kinds DEF Shape
<1>4. /\ history' \in Seq(Lines) /\ Len(history') = o /\ history' = SubSeq(history, 1, o)
      /\ SubSeq(history', 1, o) = SubSeq(history, 1, o)
  BY <1>1, <1>3, Prefixes DEF Kept
<1>5. pending = txn[p] /\ pending # NoIntent
  BY <1>1, <1>2, Kinds DEF Progress, Working
<1>6. Directory' /\ SavedLines' = SavedLines
  BY <1>1, <1>2, <1>3, <1>4, <1>5, BehindTheOffset
<1>7. Progress(p)'
  BY <1>1, <1>2, <1>4, <1>5 DEF Progress, Working
<1> QED
  BY <1>6, <1>7

LEMMA TruncateKeeps == ASSUME Inv, NEW p \in Procs, Truncate(p) PROVE Inv'
<1>0. Shape /\ RisksAreCounted /\ Calls /\ InOrder
  BY DEF Inv
<1>1. /\ pc[p] = "apply" /\ Goto(p, "write") /\ Len(history) >= txn[p].offset
      /\ history' = Kept(p) /\ RiskHistory({Kept(p), Append(Kept(p), Torn)})
      /\ UNCHANGED <<latest, pending, cut, local, spent>>
  BY DEF Truncate, At
<1>2. InCall(p)' /\ txn[p] \in Intents
  BY <1>0, <1>1, StaysInCall DEF Working
<1>3. history' \in Seq(Lines)
  BY <1>0, <1>1, <1>2, Kinds, Prefixes DEF Shape, Kept
<1>4. ~cut => Directory' /\ Progress(p)'
  BY <1>0, TruncateCuts DEF InOrder
<1>5. /\ DOMAIN risk' = {"history", "latest", "pending"}
      /\ history' \in risk'.history /\ latest' \in risk'.latest /\ pending' \in risk'.pending
      /\ Append(history', Torn) \in risk'.history
  <2> DEFINE files == {Kept(p), Append(Kept(p), Torn)}
  <2>1. history' \in files /\ Append(history', Torn) \in files /\ RiskHistory(files)
    BY <1>1
  <2> HIDE DEF files
  <2> QED
    BY <1>0, <1>1, <2>1, RisksFollow
<1> QED
  BY <1>0, <1>1, <1>2, <1>3, <1>4, <1>5, MovesKeep DEF Shape, Places, local

LEMMA WriteLineAppends ==
  ASSUME Shape, Calls, Directory, NEW p \in Procs, Progress(p), WriteLine(p), ~cut
  PROVE  Directory' /\ SavedLines' = SavedLines /\ Progress(p)'
<1>1. /\ pc[p] = "write" /\ Goto(p, "flush") /\ history' = Append(history, txn[p].cp)
      /\ UNCHANGED <<latest, pending, cut, local>>
  BY DEF WriteLine, At
<1>2. InCall(p)' /\ pc'[p] = "flush" /\ txn'[p] = txn[p] /\ txn[p] \in Intents /\ known' = known
  BY <1>1, StaysInCall DEF Working
<1>3. history \in Seq(Lines) /\ txn[p].cp \in Lines /\ txn[p].offset \in Nat
  BY <1>2, Kinds DEF Shape, Lines
<1>4. /\ history' \in Seq(Lines) /\ Len(history') = Len(history) + 1
      /\ history'[Len(history) + 1] = txn[p].cp
      /\ \A o \in Nat : o <= Len(history) => SubSeq(history', 1, o) = SubSeq(history, 1, o)
  BY <1>1, <1>3, Appended
<1>5. pending = txn[p] /\ pending # NoIntent /\ Len(history) = txn[p].offset
  BY <1>1, <1>2, Kinds DEF Progress, Working
<1>6. Directory' /\ SavedLines' = SavedLines
  BY <1>1, <1>2, <1>3, <1>4, <1>5, BehindTheOffset
<1>7. HasLine(txn[p])'
  BY <1>2, <1>4, <1>5 DEF HasLine
<1>8. Progress(p)'
  BY <1>1, <1>2, <1>5, <1>7 DEF Progress, Working, HasLine
<1> QED
  BY <1>6, <1>8

LEMMA WriteLineKeeps == ASSUME Inv, NEW p \in Procs, WriteLine(p) PROVE Inv'
<1>0. Shape /\ RisksAreCounted /\ Calls /\ InOrder
  BY DEF Inv
<1>1. /\ pc[p] = "write" /\ Goto(p, "flush")
      /\ history' = Append(history, txn[p].cp) /\ RiskHistory({history'})
      /\ UNCHANGED <<latest, pending, cut, local, spent>>
  BY DEF WriteLine, At
<1>2. InCall(p)' /\ txn[p] \in Intents
  BY <1>0, <1>1, StaysInCall DEF Working
<1>3. history' \in Seq(Lines)
  BY <1>0, <1>1, <1>2, Kinds, Appended DEF Shape, Lines
<1>4. ~cut => Directory' /\ Progress(p)'
  BY <1>0, WriteLineAppends DEF InOrder
<1>5. /\ DOMAIN risk' = {"history", "latest", "pending"}
      /\ history' \in risk'.history /\ latest' \in risk'.latest /\ pending' \in risk'.pending
  BY <1>0, <1>1, RisksFollow
<1> QED
  BY <1>0, <1>1, <1>2, <1>3, <1>4, <1>5, MovesKeep DEF Shape, Places, local

LEMMA ReplaceLatestKeeps == ASSUME Inv, NEW p \in Procs, ReplaceLatest(p) PROVE Inv'
<1>0. Shape /\ RisksAreCounted /\ Calls /\ InOrder
  BY DEF Inv
<1>1. /\ pc[p] = "latest" /\ Goto(p, "synclatest") /\ latest' = txn[p].cp /\ RiskLatest(txn[p].cp)
      /\ UNCHANGED <<history, pending, cut, local, spent>>
  BY DEF ReplaceLatest, At
<1>2. InCall(p)' /\ pc'[p] = "synclatest" /\ txn'[p] = txn[p] /\ txn[p] \in Intents /\ known' = known
  BY <1>0, <1>1, StaysInCall DEF Working
<1>3. ASSUME ~cut PROVE Directory' /\ Progress(p)'
  <2>1. Directory /\ Progress(p)
    BY <1>0, <1>3 DEF InOrder
  <2>2. pending = txn[p] /\ pending # NoIntent /\ HasLine(txn[p])
    BY <1>1, <1>2, <2>1, Kinds DEF Progress, Working
  <2>3. SavedLines' = SavedLines
    BY <1>1, <1>3 DEF SavedLines
  <2>4. Directory'
    BY <1>1, <1>2, <2>1, <2>2, <2>3 DEF Directory, Stored
  <2>5. Progress(p)'
    BY <1>1, <1>2, <2>2 DEF Progress, Working, HasLine
  <2> QED
    BY <2>4, <2>5
<1>4. /\ DOMAIN risk' = {"history", "latest", "pending"}
      /\ history' \in risk'.history /\ latest' \in risk'.latest /\ pending' \in risk'.pending
  BY <1>0, <1>1, RisksFollow
<1>5. latest' \in Checkpoints
  BY <1>1, <1>2, Kinds
<1> QED
  BY <1>0, <1>1, <1>2, <1>3, <1>4, <1>5, MovesKeep DEF Shape, Places, local

\* Removing the intent when its line is there changes the form and not the checkpoints.
LEMMA RemovePendingSettles ==
  ASSUME Shape, Calls, Directory, NEW p \in Procs, Progress(p), RemovePending(p), ~cut
  PROVE  Directory' /\ SavedLines' = SavedLines /\ Progress(p)'
<1>1. /\ pc[p] = "unlink" /\ Goto(p, "syncunlink") /\ pending' = NoIntent
      /\ UNCHANGED <<history, latest, cut, local>>
  BY DEF RemovePending, At
<1>2. InCall(p)' /\ pc'[p] = "syncunlink" /\ txn'[p] = txn[p] /\ txn[p] \in Intents /\ known' = known
  BY <1>1, StaysInCall DEF Working
<1>3. pending = txn[p] /\ pending # NoIntent /\ HasLine(txn[p]) /\ latest = txn[p].cp
  BY <1>1, <1>2, Kinds DEF Progress, Working
<1>4. txn[p].offset \in Nat /\ history \in Seq(Lines)
  BY <1>2, Kinds DEF Shape
<1>5. history = Append(SubSeq(history, 1, txn[p].offset), txn[p].cp)
  BY <1>3, <1>4, LastLine DEF HasLine
<1>6. SavedLines = history /\ SavedLines' = history
  BY <1>1, <1>3, <1>5 DEF SavedLines
<1>7. history # <<>> /\ latest = history[Len(history)]
  BY <1>3, <1>4 DEF HasLine
<1>8. Directory'
  BY <1>1, <1>2, <1>6, <1>7 DEF Directory, Stored, Newest
<1>9. Progress(p)'
  BY <1>1, <1>2, <1>3 DEF Progress, Working
<1> QED
  BY <1>6, <1>8, <1>9

LEMMA RemovePendingKeeps == ASSUME Inv, NEW p \in Procs, RemovePending(p) PROVE Inv'
<1>0. Shape /\ RisksAreCounted /\ Calls /\ InOrder
  BY DEF Inv
<1>1. /\ pc[p] = "unlink" /\ Goto(p, "syncunlink") /\ pending' = NoIntent /\ RiskPending(NoIntent)
      /\ UNCHANGED <<history, latest, cut, local, spent>>
  BY DEF RemovePending, At
<1>2. InCall(p)'
  BY <1>0, <1>1, StaysInCall DEF Working
<1>3. ~cut => Directory' /\ Progress(p)'
  BY <1>0, RemovePendingSettles DEF InOrder
<1>4. /\ DOMAIN risk' = {"history", "latest", "pending"}
      /\ history' \in risk'.history /\ latest' \in risk'.latest /\ pending' \in risk'.pending
  BY <1>0, <1>1, RisksFollow
<1> QED
  BY <1>0, <1>1, <1>2, <1>3, <1>4, MovesKeep DEF Shape, Places, local

LEMMA RepairedKeeps == ASSUME Inv, NEW p \in Procs, Repaired(p) PROVE Inv'
<1>0. Shape /\ RisksAreCounted /\ Calls /\ InOrder
  BY DEF Inv
<1>1. /\ pc[p] = "syncunlink" /\ p \in repairing /\ Goto(p, Onward(p)) /\ SyncDir
      /\ repairing' = repairing \ {p} /\ UNCHANGED <<history, latest, pending, cut, request, txn, spent>>
  BY DEF Repaired, At
<1>2. pc'[p] = Onward(p) /\ Onward(p) \in {"check", "read"} /\ UNCHANGED <<lock, known>>
  BY <1>0, <1>1 DEF Goto, Shape, Onward
<1>3. InCall(p)'
  <2>1. /\ lock = p /\ request[p] \in Requests /\ request[p].op # "delete" /\ p \notin repairing'
        /\ request[p].op \in {"save", "load", "delete"}
    BY <1>0, <1>1 DEF Calls, InCall, Requests
  <2> QED
    BY <1>1, <1>2, <2>1 DEF InCall, Onward, Working, Declaring
<1>4. ASSUME ~cut PROVE Directory' /\ Progress(p)'
  <2>1. Directory /\ Progress(p)
    BY <1>0, <1>4 DEF InOrder
  <2>2. Directory'
    BY <1>1, <1>2, <2>1, SameDirectory
  <2>3. Progress(p)'
    BY <1>1, <1>2, <2>1 DEF Progress, Working
  <2> QED
    BY <2>2, <2>3
<1>5. /\ DOMAIN risk' = {"history", "latest", "pending"}
      /\ history' \in risk'.history /\ latest' \in risk'.latest /\ pending' \in risk'.pending
  BY <1>0, <1>1, RisksFollow
<1>6. Onward(p) \in Places \ {"idle"} /\ Onward(p) # "write"
  BY <1>2 DEF Places
<1>7. repairing' \subseteq Procs /\ repairing' \ {p} = repairing \ {p}
  BY <1>0, <1>1 DEF Shape
<1> QED
  BY <1>0, <1>1, <1>3, <1>4, <1>5, <1>6, <1>7, MovesKeep DEF Shape

\* The end of a caller's own Save: the last sync, and the answer.
LEMMA SavedKeeps == ASSUME Inv, NEW p \in Procs, Saved(p) PROVE Inv'
<1>0. Shape /\ RisksAreCounted /\ Calls /\ InOrder
  BY DEF Inv
<1>1. /\ pc[p] = "syncunlink" /\ p \notin repairing /\ SyncDir /\ Answer(p, "saved", request[p].cp)
      /\ UNCHANGED <<history, latest, pending, cut, spent>>
  BY DEF Saved, At
<1>2. request[p].op = "save" /\ request[p].cp \in Checkpoints /\ txn[p].cp = request[p].cp
  BY <1>0, <1>1 DEF Calls, InCall, Working, Requests
<1>3. /\ Leave(p) /\ reply' \in Replies \cup {NoReply} /\ known' \subseteq Checkpoints
      /\ \A c \in known' : c \in known \/ c = request[p].cp
  BY <1>0, <1>1, <1>2, AnswerTells
<1>4. /\ Calls' /\ \A q \in Procs : pc'[q] = "idle"
      /\ pc' \in [Procs -> Places] /\ lock' = Nobody
      /\ request' \in [Procs -> Requests \cup {NoRequest}]
      /\ txn' \in [Procs -> Intents \cup {NoIntent}] /\ repairing' \subseteq Procs
  BY <1>0, <1>1, <1>3, LeaveFrees
<1>5. Shape'
  BY <1>0, <1>1, <1>3, <1>4 DEF Shape
<1>6. RisksAreCounted'
  BY <1>0, <1>1, <1>4, RisksFollow DEF RisksAreCounted
<1>7. ASSUME ~cut PROVE Directory'
  <2>1. Directory /\ Progress(p) /\ SavedLines' = SavedLines
    BY <1>0, <1>1, <1>7 DEF InOrder, SavedLines
  <2>2. pending = NoIntent /\ latest = request[p].cp
    BY <1>1, <1>2, <2>1 DEF Progress
  <2>3. Stored(request[p].cp, SavedLines)
    BY <1>0, <1>2, <2>1, <2>2, LatestIsStored, Kinds
  <2> QED
    BY <1>1, <1>3, <2>1, <2>3 DEF Directory, Stored
<1>8. \A q \in Procs : Progress(q)'
  BY <1>4 DEF Progress, Working
<1> QED
  BY <1>1, <1>4, <1>5, <1>6, <1>7, <1>8 DEF Inv, InOrder

-----------------------------------------------------------------------------
\* The declaration of an intent.
LEMMA PrepareKeeps == ASSUME Inv, NEW p \in Procs, Prepare(p) PROVE Inv'
<1>0. Shape /\ RisksAreCounted /\ Calls /\ InOrder
  BY DEF Inv
<1>1. /\ pc[p] = "check" /\ Goto(p, "intent")
      /\ latest = NotFound \/ request[p].cp.seq > latest.seq
      /\ txn' = [txn EXCEPT ![p] = [cp |-> request[p].cp, offset |-> Len(history)]]
      /\ UNCHANGED <<history, latest, pending, risk, cut, request, repairing, spent>>
  BY DEF Prepare, At, disk
<1>2. request[p].op = "save" /\ request[p].cp \in Checkpoints /\ p \notin repairing /\ lock = p /\ request[p] \in Requests
  BY <1>0, <1>1 DEF Calls, InCall, Working, Requests
<1>3. /\ pc'[p] = "intent" /\ UNCHANGED <<lock, known>>
      /\ txn'[p] = [cp |-> request[p].cp, offset |-> Len(history)]
  BY <1>0, <1>1 DEF Goto, Shape
<1>4. Len(history) \in Nat
  BY <1>0 DEF Shape
<1>5. txn'[p] \in Intents /\ txn'[p].cp = request[p].cp /\ txn'[p].offset = Len(history)
  BY <1>2, <1>3, <1>4 DEF Intents
<1>6. txn' \in [Procs -> Intents \cup {NoIntent}]
  BY <1>0, <1>1, <1>3, <1>5 DEF Shape
<1>7. InCall(p)'
  BY <1>1, <1>2, <1>3, <1>5 DEF InCall, Working, Declaring
<1>8. ASSUME ~cut PROVE Directory' /\ Progress(p)'
  <2>1. Directory /\ Progress(p)
    BY <1>0, <1>8 DEF InOrder
  <2>2. Directory'
    BY <1>1, <1>3, <2>1, SameDirectory
  <2>3. pending = NoIntent
    BY <1>1, <2>1 DEF Progress
  <2>4. request[p].cp.seq > latest.seq
    BY <1>1, <1>2, Kinds
  <2>5. Progress(p)'
    BY <1>1, <1>3, <1>5, <2>3, <2>4 DEF Progress, Working
  <2> QED
    BY <2>2, <2>5
<1> QED
  BY <1>0, <1>1, <1>6, <1>7, <1>8, MovesKeep DEF Shape, RisksAreCounted, Places

\* An increasing sequence grows by a greater number.
LEMMA IncreasingGrows ==
  ASSUME NEW h \in Seq(Checkpoints), Increasing(h), NEW cp \in Checkpoints, cp.seq > Newest(h).seq
  PROVE  Append(h, cp) \in Seq(Checkpoints) /\ Increasing(Append(h, cp))
<1> DEFINE g == Append(h, cp)
<1>1. /\ g \in Seq(Checkpoints) /\ Len(g) = Len(h) + 1 /\ g[Len(h) + 1] = cp
      /\ \A i \in 1 .. Len(h) : g[i] = h[i]
  BY Appended
<1>2. Len(h) \in Nat /\ DOMAIN h = 1 .. Len(h) /\ DOMAIN g = 1 .. Len(h) + 1
  BY <1>1
<1> HIDE DEF g
<1>3. \A i \in 1 .. Len(h) : h[i].seq \in Nat
  BY ElementOfSeq, Kinds
<1>4. cp.seq \in Nat
  BY Kinds
<1>5. \A i \in 1 .. Len(h) : h[i].seq < cp.seq
  <2> SUFFICES ASSUME NEW i \in 1 .. Len(h) PROVE h[i].seq < cp.seq
    OBVIOUS
  <2>1. h # <<>> /\ Newest(h) = h[Len(h)] /\ Len(h) \in 1 .. Len(h)
    BY <1>2 DEF Newest
  <2>2. i \in DOMAIN h /\ Len(h) \in DOMAIN h /\ (i = Len(h) \/ i < Len(h))
    <3>1. i = Len(h) \/ i < Len(h)
      <4>1. \A n \in Nat : \A k \in 1 .. n : k = n \/ k < n
        OBVIOUS
      <4> QED
        BY <1>2, <4>1
    <3>2. i \in DOMAIN h /\ Len(h) \in DOMAIN h
      BY <1>2, <2>1
    <3> QED
      BY <3>1, <3>2
  <2>3. i = Len(h) \/ h[i].seq < h[Len(h)].seq
    BY <2>2 DEF Increasing
  <2> QED
    BY <1>3, <1>4, <2>1, <2>3
<1>6. ASSUME NEW i \in DOMAIN g, NEW j \in DOMAIN g, i < j PROVE g[i].seq < g[j].seq
  <2>1. i \in 1 .. Len(h) /\ g[i] = h[i]
    BY <1>1, <1>2, <1>6
  <2>2. CASE j \in 1 .. Len(h)
    BY <1>1, <1>2, <1>6, <2>1, <2>2 DEF Increasing
  <2>3. CASE j = Len(h) + 1
    BY <1>1, <1>5, <2>1, <2>3
  <2> QED
    BY <1>2, <2>2, <2>3
<1>7. Increasing(g)
  BY <1>6 DEF Increasing
<1> QED
  BY <1>1, <1>7 DEF g

\* The instant a Save takes effect.
LEMMA DeclareCommits ==
  ASSUME Shape, Calls, Directory, NEW p \in Procs, Progress(p), Declare(p), ~cut
  PROVE  /\ SavedLines = history /\ SavedLines' = Append(history, request[p].cp)
         /\ request[p].op = "save" /\ request[p].cp \in Checkpoints
         /\ request[p].cp.seq > Newest(history).seq /\ txn[p] \in Intents
         /\ pending = NoIntent /\ latest = Newest(history) /\ txn[p].offset = Len(history)
<1>1. pc[p] = "intent" /\ pending' = txn[p] /\ UNCHANGED <<history, latest, cut>>
  BY DEF Declare, At
<1>2. /\ txn[p] \in Intents /\ request[p].op = "save" /\ txn[p].cp = request[p].cp
      /\ request[p] \in Requests
  BY <1>1 DEF Calls, InCall, Declaring
<1>3. /\ pending = NoIntent /\ txn[p].offset = Len(history) /\ txn[p].cp.seq > latest.seq
      /\ latest = Newest(history)
  BY <1>1 DEF Progress, Directory
<1>4. SavedLines = history
  BY <1>3 DEF SavedLines
<1>5. history \in Seq(Lines) /\ SubSeq(history, 1, Len(history)) = history
  BY SubSeqFull DEF Shape
<1>6. pending' # NoIntent
  BY <1>1, <1>2, Kinds
<1>7. SavedLines' = Append(history, request[p].cp)
  BY <1>1, <1>2, <1>3, <1>5, <1>6 DEF SavedLines
<1> QED
  BY <1>2, <1>3, <1>4, <1>7 DEF Requests

LEMMA DeclareKeeps == ASSUME Inv, NEW p \in Procs, Declare(p) PROVE Inv'
<1>0. Shape /\ RisksAreCounted /\ Calls /\ InOrder
  BY DEF Inv
<1>1. /\ pc[p] = "intent" /\ Goto(p, "syncintent") /\ pending' = txn[p] /\ RiskPending(txn[p])
      /\ UNCHANGED <<history, latest, cut, local, spent>>
  BY DEF Declare, At
<1>2. pc'[p] = "syncintent" /\ UNCHANGED <<lock, known, request, txn, repairing>>
  BY <1>0, <1>1 DEF Goto, Shape, local
<1>3. InCall(p)'
  BY <1>0, <1>1, <1>2 DEF Calls, InCall, Working, Declaring
<1>4. ASSUME ~cut PROVE Directory' /\ Progress(p)'
  <2>1. Directory /\ Progress(p)
    BY <1>0, <1>4 DEF InOrder
  <2>2. /\ SavedLines = history /\ SavedLines' = Append(history, request[p].cp)
        /\ request[p].cp \in Checkpoints
        /\ request[p].cp.seq > Newest(history).seq /\ txn[p] \in Intents
        /\ latest = Newest(history) /\ txn[p].offset = Len(history)
    BY <1>0, <1>4, <2>1, DeclareCommits
  <2>3. history \in Seq(Checkpoints) /\ Increasing(history) /\ Len(history) \in Nat
    BY <2>1, <2>2 DEF Directory
  <2>4. SavedLines' \in Seq(Checkpoints) /\ Increasing(SavedLines')
    BY <2>2, <2>3, IncreasingGrows
  <2>5. ASSUME NEW c \in known PROVE Stored(c, SavedLines')
    <3>1. PICK i \in DOMAIN history : history[i] = c
      BY <2>1, <2>2 DEF Directory, Stored
    <3>2. /\ Len(SavedLines') = Len(history) + 1
          /\ SavedLines'[i] = c /\ i \in 1 .. Len(history)
      BY <2>2, <2>3, <3>1, Appended
    <3>3. i \in DOMAIN SavedLines'
      BY <2>3, <2>4, <3>2
    <3> QED
      BY <3>2, <3>3 DEF Stored
  <2>6. pending' # NoIntent /\ pending'.offset = Len(history) /\ SubSeq(history, 1, Len(history)) = history
    BY <1>1, <2>2, <2>3, Kinds, SubSeqFull
  <2>7. Directory'
    <3>1. latest' \in {Newest(SubSeq(history', 1, pending'.offset)), pending'.cp}
      BY <1>1, <2>2, <2>6
    <3>2. pending'.offset <= Len(history') /\ Len(history') <= pending'.offset + 1
          /\ Len(history') # pending'.offset + 1
      <4>1. Len(history') = Len(history)
        BY <1>1
      <4>2. \A n \in Nat : n <= n /\ n <= n + 1 /\ n # n + 1
        OBVIOUS
      <4> QED
        BY <2>3, <2>6, <4>1, <4>2
    <3>3. \A c \in known' : Stored(c, SavedLines)'
      BY <1>2, <2>5 DEF Stored
    <3>4. Increasing(SavedLines)'
      BY <2>4 DEF Increasing
    <3> QED
      BY <2>4, <2>6, <3>1, <3>2, <3>3, <3>4 DEF Directory
  <2>8. Progress(p)'
    BY <1>1, <1>2, <2>2 DEF Progress, Working
  <2> QED
    BY <2>7, <2>8
<1>5. /\ DOMAIN risk' = {"history", "latest", "pending"}
      /\ history' \in risk'.history /\ latest' \in risk'.latest /\ pending' \in risk'.pending
  BY <1>0, <1>1, RisksFollow
<1> QED
  BY <1>0, <1>1, <1>2, <1>3, <1>4, <1>5, MovesKeep DEF Shape, Places

LEMMA SyncIntentKeeps == ASSUME Inv, NEW p \in Procs, SyncIntent(p) PROVE Inv'
<1>0. Shape /\ RisksAreCounted /\ Calls /\ InOrder
  BY DEF Inv
<1>1. /\ pc[p] = "syncintent" /\ Goto(p, "apply") /\ SyncDir
      /\ UNCHANGED <<history, latest, pending, cut, local, spent>>
  BY DEF SyncIntent, At
<1>2. pc'[p] = "apply" /\ UNCHANGED <<lock, known, request, txn, repairing>>
  BY <1>0, <1>1 DEF Goto, Shape, local
<1>3. InCall(p)'
  BY <1>0, <1>1, <1>2 DEF Calls, InCall, Working, Declaring
<1>4. ASSUME ~cut PROVE Directory' /\ Progress(p)'
  <2>1. Directory /\ Progress(p)
    BY <1>0, <1>4 DEF InOrder
  <2>2. Directory'
    BY <1>1, <1>2, <2>1, SameDirectory
  <2>3. Progress(p)'
    BY <1>1, <1>2, <2>1 DEF Progress, Working
  <2> QED
    BY <2>2, <2>3
<1>5. /\ DOMAIN risk' = {"history", "latest", "pending"}
      /\ history' \in risk'.history /\ latest' \in risk'.latest /\ pending' \in risk'.pending
  BY <1>0, <1>1, RisksFollow
<1> QED
  BY <1>0, <1>1, <1>2, <1>3, <1>4, <1>5, MovesKeep DEF Shape, Places

-----------------------------------------------------------------------------
\* A Delete promises nothing until it has removed everything, and then nothing is left.
LEMMA UnlinkKeeps == ASSUME Inv, NEW p \in Procs, Unlink(p) PROVE Inv'
<1>0. Shape /\ RisksAreCounted /\ Calls /\ InOrder
  BY DEF Inv
<1>1. pc[p] = "delete" /\ UNCHANGED <<lock, pc, request, txn, repairing, reply, spent>>
  BY DEF Unlink, At, local
<1>2. PICK h \in {history, <<>>}, l \in {latest, NotFound}, i \in {pending, NoIntent} : Unlinked(h, l, i)
  BY DEF Unlink
<1>3. /\ history' = h /\ latest' = l /\ pending' = i
      /\ cut' = (h # <<>> \/ l # NotFound \/ i # NoIntent)
      /\ known' = IF cut' THEN known ELSE {}
      /\ risk' = [history |-> risk.history \cup {h}, latest |-> risk.latest \cup {l},
                  pending |-> risk.pending \cup {i}]
  BY <1>2 DEF Unlinked
<1>4. <<>> \in Seq(Lines) /\ <<>> \in Seq(Checkpoints) /\ DOMAIN <<>> = {}
  OBVIOUS
<1>5. Shape'
  <2>1. history' \in Seq(Lines) /\ latest' \in Checkpoints \cup {NotFound} /\ pending' \in Intents \cup {NoIntent}
    BY <1>0, <1>3, <1>4 DEF Shape
  <2>2. known' \subseteq Checkpoints /\ cut' \in BOOLEAN
    BY <1>0, <1>3 DEF Shape
  <2> QED
    BY <1>0, <1>1, <2>1, <2>2 DEF Shape
<1>6. \A q \in Procs \ {p} : pc[q] = "idle"
  BY <1>0, <1>1, OneCall
<1>7. RisksAreCounted'
  BY <1>1, <1>3, <1>6 DEF RisksAreCounted
<1>8. Calls'
  BY <1>0, <1>1 DEF Calls, InCall
<1>9. ASSUME ~cut' PROVE Directory'
  <2>1. history' = <<>> /\ latest' = NotFound /\ pending' = NoIntent /\ known' = {}
    BY <1>3, <1>9
  <2>2. SavedLines' = <<>>
    BY <2>1 DEF SavedLines
  <2>3. Newest(<<>>) = NotFound
    BY DEF Newest
  <2>4. Increasing(<<>>)
    BY <1>4 DEF Increasing
  <2>5. Increasing(SavedLines)'
    BY <2>2, <2>4 DEF Increasing
  <2> QED
    BY <1>4, <2>1, <2>2, <2>3, <2>5 DEF Directory
<1>10. \A q \in Procs : Progress(q)'
  BY <1>1, <1>6 DEF Progress, Working
<1> QED
  BY <1>5, <1>7, <1>8, <1>9, <1>10 DEF Inv, InOrder

\* A line cut short is behind the offset.
LEMMA TornIsBehind ==
  ASSUME Shape, Calls, Directory, NEW p \in Procs, Progress(p), TornBy(p), known' = known, ~cut
  PROVE  Directory' /\ SavedLines' = SavedLines
<1>1. /\ history' = history \/ (pc[p] = "write" /\ history' = Append(history, Torn))
      /\ UNCHANGED <<latest, pending, cut>>
  BY DEF TornBy, At
<1>2. /\ Append(history, Torn) \in Seq(Lines)
      /\ Len(Append(history, Torn)) = Len(history) + 1 /\ Append(history, Torn)[Len(history) + 1] = Torn
      /\ \A o \in Nat : o <= Len(history) => SubSeq(Append(history, Torn), 1, o) = SubSeq(history, 1, o)
  BY Appended DEF Shape, Lines
<1>3. CASE history' = history
  BY <1>1, <1>3, SameDirectory
<1>4. CASE pc[p] = "write" /\ history' = Append(history, Torn)
  <2>1. pending = txn[p] /\ Len(history) = txn[p].offset /\ txn[p] \in Intents
    BY <1>4 DEF Progress, Calls, InCall, Working
  <2>2. pending # NoIntent /\ pending.offset \in Nat
    BY <2>1, Kinds
  <2> QED
    BY <1>1, <1>2, <1>4, <2>1, <2>2, BehindTheOffset
<1> QED
  BY <1>1, <1>3, <1>4

\* A call that ends in a failure, or with its process, in the middle of a step.
LEMMA StopKeeps ==
  ASSUME Inv, NEW p \in Procs, pc[p] # "idle", Leave(p), TornBy(p), known' = known,
         reply' \in Replies \cup {NoReply}, spent' \in [faults : Nat, power : Nat, deletes : Nat]
  PROVE  Inv'
<1>0. Shape /\ RisksAreCounted /\ Calls /\ InOrder
  BY DEF Inv
<1>1. /\ Calls' /\ \A q \in Procs : pc'[q] = "idle"
      /\ pc' \in [Procs -> Places] /\ lock' = Nobody
      /\ request' \in [Procs -> Requests \cup {NoRequest}]
      /\ txn' \in [Procs -> Intents \cup {NoIntent}] /\ repairing' \subseteq Procs
  BY <1>0, LeaveFrees
<1>2. /\ history' = history \/ (pc[p] = "write" /\ history' = Append(history, Torn))
      /\ UNCHANGED <<latest, pending, risk, cut>>
  BY DEF TornBy, At
<1>3. history \in Seq(Lines) /\ Append(history, Torn) \in Seq(Lines)
  BY <1>0, Appended DEF Shape, Lines
<1>4. Shape'
  BY <1>0, <1>1, <1>2, <1>3 DEF Shape
<1>5. RisksAreCounted'
  BY <1>0, <1>1, <1>2 DEF RisksAreCounted
<1>6. ~cut => Directory'
  BY <1>0, TornIsBehind DEF InOrder
<1>7. \A q \in Procs : Progress(q)'
  BY <1>1 DEF Progress, Working
<1> QED
  BY <1>1, <1>2, <1>4, <1>5, <1>6, <1>7 DEF Inv, InOrder

LEMMA FailKeeps == ASSUME Inv, NEW p \in Procs, Fail(p) PROVE Inv'
<1>1. pc[p] # "idle" /\ TornBy(p) /\ Answer(p, "error", NotFound) /\ spent' = [spent EXCEPT !.faults = @ + 1]
  BY DEF Fail, At, Fault
<1>2. Leave(p) /\ reply' \in Replies \cup {NoReply}
  BY <1>1, AnswerTells DEF Inv
<1>3. known' = known
  BY <1>1 DEF Answer
<1>4. spent' \in [faults : Nat, power : Nat, deletes : Nat]
  BY <1>1 DEF Inv, Shape
<1> QED
  BY <1>1, <1>2, <1>3, <1>4, StopKeeps

LEMMA DieKeeps == ASSUME Inv, NEW p \in Procs, Die(p) PROVE Inv'
<1>1. /\ pc[p] # "idle" /\ TornBy(p) /\ Leave(p) /\ UNCHANGED <<reply, known>>
      /\ spent' = [spent EXCEPT !.faults = @ + 1]
  BY DEF Die, At, Fault
<1>2. spent' \in [faults : Nat, power : Nat, deletes : Nat] /\ reply' \in Replies \cup {NoReply}
  BY <1>1 DEF Inv, Shape
<1> QED
  BY <1>1, <1>2, StopKeeps

-----------------------------------------------------------------------------
\* While the power holds, every step keeps every part.
LEMMA StepKeeps == ASSUME Inv, NEW p \in Procs, Step(p) PROVE Inv'
BY EnterKeeps, RecoverKeeps, ShrunkKeeps, SkipLineKeeps, TruncateKeeps, WriteLineKeeps, FlushKeeps,
   ReplaceLatestKeeps, SyncLatestKeeps, RemovePendingKeeps, RepairedKeeps, SavedKeeps, RetriedKeeps,
   StaleKeeps, PrepareKeeps, DeclareKeeps, SyncIntentKeeps, LoadKeeps, LoadAtKeeps, UnlinkKeeps,
   DeletedKeeps, FailKeeps, DieKeeps
   DEF Step

LEMMA PowerHolds == ASSUME Inv, MaxPowerLosses = 0 PROVE ~PowerFails
<1>1. spent.power \in Nat
  BY DEF Inv, Shape
<1> QED
  BY <1>1 DEF PowerFails

LEMMA StutterKeeps == ASSUME Inv, UNCHANGED vars PROVE Inv'
<1>0. /\ Shape /\ RisksAreCounted /\ Calls /\ InOrder
      /\ UNCHANGED <<history, latest, pending, risk, cut, lock, pc, request, txn, repairing, reply, known, spent>>
  BY DEF Inv, vars, disk, local
<1>1. Shape' /\ RisksAreCounted'
  BY <1>0 DEF Shape, RisksAreCounted
<1>2. Calls'
  BY <1>0 DEF Calls, InCall
<1>3. ASSUME ~cut PROVE Directory' /\ \A q \in Procs : Progress(q)'
  <2>1. Directory /\ \A q \in Procs : Progress(q)
    BY <1>0, <1>3 DEF InOrder
  <2>2. Directory'
    BY <1>0, <2>1, SameDirectory
  <2>3. \A q \in Procs : Progress(q)'
    BY <1>0, <2>1 DEF Progress, HasLine
  <2> QED
    BY <2>2, <2>3
<1> QED
  BY <1>0, <1>1, <1>2, <1>3 DEF Inv, InOrder

\* While the power does not fail, the directory is in order at every step of every
\* call (checkpoint/jsonl/store.go).
THEOREM Invariance == ASSUME MaxPowerLosses = 0 PROVE Spec => []Inv
<1>1. Init => Inv
  BY Initially
<1>2. Inv /\ [Next]_vars => Inv'
  BY StepKeeps, PowerHolds, StutterKeeps DEF Next
<1> QED
  BY <1>1, <1>2, PTL DEF Spec

-----------------------------------------------------------------------------
\* What the parts imply.  The lines before and at the offset are those the directory stands
\* for.
LEMMA LinesOfIntent ==
  ASSUME Shape, Directory, ~cut, pending # NoIntent
  PROVE  /\ Len(SavedLines) = pending.offset + 1 /\ SavedLines[pending.offset + 1] = pending.cp
         /\ \A i \in 1 .. pending.offset : SavedLines[i] = history[i]
         /\ pending.offset \in Nat /\ pending.cp \in Checkpoints
<1>1. pending.offset \in Nat /\ pending.cp \in Checkpoints /\ pending.cp \in Lines
  BY Kinds DEF Shape, Lines
<1>2. pending.offset <= Len(history) /\ history \in Seq(Lines)
  BY DEF Directory, Shape
<1> DEFINE g == SubSeq(history, 1, pending.offset)
<1>3. g \in Seq(Lines) /\ Len(g) = pending.offset /\ \A i \in 1 .. pending.offset : g[i] = history[i]
  BY <1>1, <1>2, Prefixes
<1>4. SavedLines = Append(g, pending.cp)
  BY DEF SavedLines
<1> HIDE DEF g
<1>5. /\ Len(Append(g, pending.cp)) = Len(g) + 1 /\ Append(g, pending.cp)[Len(g) + 1] = pending.cp
      /\ \A i \in 1 .. Len(g) : Append(g, pending.cp)[i] = g[i]
  BY <1>1, <1>3, Appended
<1> QED
  BY <1>1, <1>3, <1>4, <1>5

LEMMA InvImpliesType == ASSUME Inv PROVE TypeOK
BY DEF Inv, Shape, RisksAreCounted, Lines, TypeOK

LEMMA InvImpliesNewest == ASSUME Inv PROVE NewestIsNewest
<1> SUFFICES ASSUME AtRest PROVE latest = NewestAt(history, MaxSeq)
  BY DEF NewestIsNewest
<1>1. Directory /\ pending = NoIntent
  BY DEF Inv, InOrder, AtRest
<1>2. SavedLines = history
  BY <1>1 DEF SavedLines
<1>3. history \in Seq(Checkpoints) /\ Increasing(history) /\ latest = Newest(history)
  BY <1>1, <1>2 DEF Directory
<1> QED
  BY <1>3, NewestIsLast

LEMMA InvImpliesIncreases == ASSUME Inv PROVE HistoryIncreases
<1> SUFFICES ASSUME ~cut, NEW i \in DOMAIN history, NEW j \in DOMAIN history, i < j, Torn # history[j]
             PROVE  history[i].seq < history[j].seq
  BY DEF HistoryIncreases
<1>1. Shape /\ Directory /\ Increasing(SavedLines)
  BY DEF Inv, InOrder, Directory
<1>2. CASE pending = NoIntent
  BY <1>1, <1>2 DEF SavedLines, Increasing
<1>3. CASE pending # NoIntent
  <2>1. /\ Len(SavedLines) = pending.offset + 1 /\ SavedLines[pending.offset + 1] = pending.cp
        /\ \A k \in 1 .. pending.offset : SavedLines[k] = history[k]
        /\ pending.offset \in Nat
    BY <1>1, <1>3, LinesOfIntent
  <2>2. /\ Len(history) <= pending.offset + 1 /\ Len(history) \in Nat
        /\ Len(history) = pending.offset + 1 => history[pending.offset + 1] \in {pending.cp, Torn}
    BY <1>1, <1>3 DEF Directory, Shape
  <2>3. i \in 1 .. Len(history) /\ j \in 1 .. Len(history)
    BY <1>1 DEF Shape
  <2>4. i \in 1 .. pending.offset
    BY <2>1, <2>2, <2>3
  <2>5. SavedLines[j] = history[j] /\ j \in 1 .. pending.offset + 1
    BY <2>1, <2>2, <2>3
  <2>6. DOMAIN SavedLines = 1 .. pending.offset + 1
    BY <1>1, <2>1 DEF Directory
  <2>7. i \in DOMAIN SavedLines /\ j \in DOMAIN SavedLines
    BY <2>1, <2>4, <2>5, <2>6
  <2>8. SavedLines[i].seq < SavedLines[j].seq
    BY <1>1, <2>7 DEF Increasing
  <2> QED
    BY <2>1, <2>4, <2>5, <2>8
<1> QED
  BY <1>2, <1>3

\* In an increasing sequence nothing is newer than the last.
LEMMA LastIsGreatest ==
  ASSUME NEW h \in Seq(Checkpoints), Increasing(h), NEW i \in DOMAIN h
  PROVE  Len(h) \in DOMAIN h /\ h[i].seq <= h[Len(h)].seq /\ h # <<>>
<1>1. Len(h) \in Nat /\ i \in 1 .. Len(h) /\ DOMAIN h = 1 .. Len(h)
  OBVIOUS
<1>2. Len(h) \in DOMAIN h /\ h # <<>>
  BY <1>1
<1>3. i = Len(h) \/ i < Len(h)
  <2>1. \A n \in Nat : \A k \in 1 .. n : k = n \/ k < n
    OBVIOUS
  <2> QED
    BY <1>1, <2>1
<1>4. h[i].seq \in Nat /\ h[Len(h)].seq \in Nat
  BY <1>2, ElementOfSeq, Kinds
<1>5. i = Len(h) \/ h[i].seq < h[Len(h)].seq
  BY <1>2, <1>3 DEF Increasing
<1> QED
  BY <1>2, <1>4, <1>5

LEMMA InvImpliesKept == ASSUME Inv PROVE KnownIsKept
<1> SUFFICES ASSUME ~cut, NEW cp \in known
             PROVE  /\ pending.cp = cp \/ \E i \in DOMAIN history : history[i] = cp
                    /\ cp.seq <= latest.seq \/ cp.seq <= pending.cp.seq
  BY DEF KnownIsKept
<1>1. Shape /\ Directory /\ SavedLines \in Seq(Checkpoints) /\ Increasing(SavedLines)
  BY DEF Inv, InOrder, Directory
<1>2. PICK i \in DOMAIN SavedLines : SavedLines[i] = cp
  BY <1>1 DEF Directory, Stored
<1>3. Len(SavedLines) \in DOMAIN SavedLines /\ cp.seq <= SavedLines[Len(SavedLines)].seq /\ SavedLines # <<>>
  BY <1>1, <1>2, LastIsGreatest
<1>4. CASE pending = NoIntent
  <2>1. SavedLines = history /\ latest = Newest(history)
    BY <1>1, <1>4 DEF SavedLines, Directory
  <2> QED
    BY <1>2, <1>3, <2>1 DEF Newest
<1>5. CASE pending # NoIntent
  <2>1. /\ Len(SavedLines) = pending.offset + 1 /\ SavedLines[pending.offset + 1] = pending.cp
        /\ \A k \in 1 .. pending.offset : SavedLines[k] = history[k]
        /\ pending.offset \in Nat
    BY <1>1, <1>5, LinesOfIntent
  <2>2. pending.offset <= Len(history) /\ DOMAIN history = 1 .. Len(history) /\ Len(history) \in Nat
    BY <1>1, <1>5 DEF Directory, Shape
  <2>3. i \in 1 .. pending.offset + 1
    BY <1>1, <2>1
  <2>4. i \in 1 .. pending.offset => i \in DOMAIN history /\ history[i] = cp
    BY <1>2, <2>1, <2>2
  <2>5. i = pending.offset + 1 => pending.cp = cp
    BY <1>2, <2>1
  <2>6. i \in 1 .. pending.offset \/ i = pending.offset + 1
    BY <2>1, <2>3
  <2>7. cp.seq <= pending.cp.seq
    BY <1>3, <2>1
  <2> QED
    BY <2>4, <2>5, <2>6, <2>7
<1> QED
  BY <1>4, <1>5

LEMMA InvImpliesRepair == ASSUME Inv PROVE RepairIsPossible
<1> SUFFICES ASSUME ~cut PROVE /\ pending # NoIntent => Len(history) >= pending.offset
                               /\ \A p \in Procs : pc[p] \in {"check", "intent", "read"} =>
                                                     \A i \in DOMAIN history : history[i] # Torn
  BY DEF RepairIsPossible
<1>1. Shape /\ Directory /\ \A p \in Procs : Progress(p)
  BY DEF Inv, InOrder
<1>2. pending # NoIntent => Len(history) >= pending.offset
  <2>1. pending # NoIntent => pending.offset \in Nat
    BY <1>1, Kinds DEF Shape
  <2>2. Len(history) \in Nat
    BY <1>1 DEF Shape
  <2> QED
    BY <1>1, <2>1, <2>2 DEF Directory
<1>3. ASSUME NEW p \in Procs, pc[p] \in {"check", "intent", "read"}
      PROVE  \A i \in DOMAIN history : history[i] # Torn
  <2>1. pending = NoIntent
    BY <1>1, <1>3 DEF Progress
  <2>2. history \in Seq(Checkpoints)
    BY <1>1, <2>1 DEF Directory, SavedLines
  <2> QED
    BY <2>2, ElementOfSeq, Kinds
<1> QED
  BY <1>2, <1>3

-----------------------------------------------------------------------------
\* Every variable of the file store has its type, and what the power could leave of a file
\* includes what is there (checkpoint/jsonl/store.go).
THEOREM TypeCorrect == ASSUME MaxPowerLosses = 0 PROVE Spec => []TypeOK
BY Invariance, InvImpliesType, PTL

\* A directory at rest gives the same newest checkpoint from latest.json and from its
\* history (store.go:167-171).
THEOREM NewestAgree == ASSUME MaxPowerLosses = 0 PROVE Spec => []NewestIsNewest
BY Invariance, InvImpliesNewest, PTL

\* No retry and no repair appends a checkpoint twice or behind a newer one
\* (store.go:98-111, 398-475).
THEOREM HistoryIsIncreasing == ASSUME MaxPowerLosses = 0 PROVE Spec => []HistoryIncreases
BY Invariance, InvImpliesIncreases, PTL

\* Whatever step fails and whichever process dies, a checkpoint somebody was told of is
\* still stored, and a resume starts at it or at a newer one (store.go:88-131).
THEOREM ReportedCheckpointsAreKept == ASSUME MaxPowerLosses = 0 PROVE Spec => []KnownIsKept
BY Invariance, InvImpliesKept, PTL

\* A repair never meets a history it must refuse, and no call appends to or reads a history
\* with a torn line (store.go:398-475).
THEOREM RepairsSucceed == ASSUME MaxPowerLosses = 0 PROVE Spec => []RepairIsPossible
BY Invariance, InvImpliesRepair, PTL

-----------------------------------------------------------------------------
\* The refinement.  A step that leaves the stored checkpoints, the request and the answer
\* alone is a stutter of the promise; one inside a Delete that was cut short is free.
Hidden == UNCHANGED <<SavedLines, request, reply, cut>>

LEMMA HiddenSteps ==
  ASSUME Inv, ~cut, NEW p \in Procs,
         \/ Recover(p) \/ SkipLine(p) \/ Truncate(p) \/ WriteLine(p) \/ Flush(p) \/ ReplaceLatest(p)
         \/ SyncLatest(p) \/ RemovePending(p) \/ Repaired(p) \/ Prepare(p) \/ SyncIntent(p)
  PROVE  Hidden
<1>0. Shape /\ Calls /\ Directory /\ Progress(p)
  BY DEF Inv, InOrder
<1>1. CASE Truncate(p)
  BY <1>0, <1>1, TruncateCuts DEF Truncate, Goto, local, Hidden
<1>2. CASE WriteLine(p)
  BY <1>0, <1>2, WriteLineAppends DEF WriteLine, Goto, local, Hidden
<1>3. CASE RemovePending(p)
  BY <1>0, <1>3, RemovePendingSettles DEF RemovePending, Goto, local, Hidden
<1>4. CASE \/ Recover(p) \/ SkipLine(p) \/ Flush(p) \/ ReplaceLatest(p)
           \/ SyncLatest(p) \/ Repaired(p) \/ Prepare(p) \/ SyncIntent(p)
  <2>1. UNCHANGED <<history, pending, cut, request, reply>>
    BY <1>4 DEF Recover, SkipLine, Flush, ReplaceLatest, SyncLatest, Repaired, Prepare, SyncIntent,
                Goto, disk, local
  <2> QED
    BY <2>1 DEF Hidden, SavedLines
<1> QED
  BY <1>1, <1>2, <1>3, <1>4

\* With no repair due, the promised newest checkpoint is latest.json.
LEMMA NewestSaved ==
  ASSUME Directory, pending = NoIntent
  PROVE  SavedLines = history /\ latest = Newest(SavedLines)
BY DEF SavedLines, Directory

\* The promise and the files name the same things.
LEMMA SameWords ==
  /\ Promise!NotFound = NotFound /\ Promise!NoRequest = NoRequest /\ Promise!NoReply = NoReply
  /\ Promise!Requests = Requests /\ \A lines : Promise!Newest(lines) = Newest(lines)
<1>1. /\ Promise!NotFound = NotFound /\ Promise!NoRequest = NoRequest /\ Promise!NoReply = NoReply
      /\ Promise!Requests = Requests
  BY DEF Promise!NotFound, NotFound, Promise!NoRequest, NoRequest, Promise!NoReply, NoReply,
         Promise!Requests, Requests, Promise!Checkpoints, Checkpoints
<1>2. \A lines : Promise!Newest(lines) = Newest(lines)
  BY <1>1 DEF Promise!Newest, Newest
<1> QED
  BY <1>1, <1>2

\* An answer over an unchanged directory is an answer of the promise.
LEMMA AnswerIsPromised ==
  ASSUME Inv, NEW p \in Procs, pc[p] # "idle", NEW kind, NEW cp, Answer(p, kind, cp),
         UNCHANGED <<SavedLines, cut>>
  PROVE  Promise!Answer(p, kind, cp)
<1>1. request[p] # NoRequest
  BY OneCall DEF Inv
<1> QED
  BY <1>1, SameWords DEF Answer, Leave, Promise!Answer

LEMMA AnsweredSteps ==
  ASSUME Inv, ~cut, NEW p \in Procs,
         Shrunk(p) \/ Saved(p) \/ Retried(p) \/ Stale(p) \/ Load(p) \/ LoadAt(p) \/ Deleted(p) \/ Fail(p)
  PROVE  Promise!Step(p)
<1>0. Shape /\ Calls /\ Directory /\ Progress(p)
  BY DEF Inv, InOrder
<1>1. CASE Shrunk(p)
  <2>1. UNCHANGED <<SavedLines, cut>> /\ pc[p] # "idle" /\ Answer(p, "error", NotFound)
    BY <1>1 DEF Shrunk, At, disk, SavedLines
  <2> QED
    BY <2>1, AnswerIsPromised, SameWords DEF Promise!Step, Promise!Fails
<1>2. CASE Saved(p)
  <2>1. UNCHANGED <<SavedLines, cut>> /\ pc[p] = "syncunlink" /\ p \notin repairing /\ Answer(p, "saved", request[p].cp)
    BY <1>2 DEF Saved, At, SavedLines
  <2>2. request[p].op = "save" /\ txn[p].cp = request[p].cp
    BY <1>0, <2>1 DEF Calls, InCall, Working
  <2>3. pending = NoIntent /\ latest = txn[p].cp
    BY <1>0, <2>1 DEF Progress
  <2>4. request[p].cp = Newest(SavedLines)
    BY <1>0, <2>2, <2>3, NewestSaved
  <2>5. Promise!Answer(p, "saved", request[p].cp)
    BY <2>1, AnswerIsPromised
  <2> QED
    BY <2>2, <2>4, <2>5, SameWords DEF Promise!Step, Promise!Saved
<1>3. CASE Retried(p)
  <2>1. UNCHANGED <<SavedLines, cut>> /\ pc[p] = "check" /\ txn[p].cp = request[p].cp /\ Answer(p, "saved", request[p].cp)
    BY <1>3 DEF Retried, At, disk, SavedLines
  <2>2. request[p].op = "save" /\ request[p].cp \in Checkpoints
    BY <1>0, <2>1 DEF Calls, InCall, Requests
  <2>3. pending = NoIntent /\ latest = request[p].cp
    BY <1>0, <2>1, <2>2, Kinds DEF Progress
  <2>4. request[p].cp = Newest(SavedLines)
    BY <1>0, <2>2, <2>3, NewestSaved
  <2>5. Promise!Answer(p, "saved", request[p].cp)
    BY <2>1, AnswerIsPromised
  <2> QED
    BY <2>2, <2>4, <2>5, SameWords DEF Promise!Step, Promise!Saved
<1>4. CASE Stale(p)
  <2>1. UNCHANGED <<SavedLines, cut>> /\ pc[p] = "check" /\ request[p].cp.seq <= latest.seq /\ Answer(p, "stale", NotFound)
    BY <1>4 DEF Stale, At, disk, SavedLines
  <2>2. request[p].op = "save" /\ pending = NoIntent
    BY <1>0, <2>1 DEF Calls, InCall, Progress
  <2>3. request[p].cp.seq <= Newest(SavedLines).seq
    BY <1>0, <2>1, <2>2, NewestSaved
  <2>4. Promise!Answer(p, "stale", NotFound)
    BY <2>1, AnswerIsPromised
  <2> QED
    BY <2>2, <2>3, <2>4, SameWords DEF Promise!Step, Promise!Stale
<1>5. CASE Load(p)
  <2>1. UNCHANGED <<SavedLines, cut>> /\ pc[p] = "read" /\ request[p].seq = 0 /\ Answer(p, "loaded", latest)
    BY <1>5 DEF Load, At, disk, SavedLines
  <2>2. request[p].op = "load" /\ pending = NoIntent
    BY <1>0, <2>1 DEF Calls, InCall, Progress
  <2>3. Promise!Answer(p, "loaded", Newest(SavedLines))
    BY <1>0, <2>1, <2>2, NewestSaved, AnswerIsPromised
  <2> QED
    BY <2>1, <2>2, <2>3, SameWords DEF Promise!Step, Promise!Loaded
<1>6. CASE LoadAt(p)
  <2>1. UNCHANGED <<SavedLines, cut>> /\ pc[p] = "read" /\ request[p].seq > 0
    BY <1>6 DEF LoadAt, At, disk, SavedLines
  <2>2. request[p].op = "load" /\ pending = NoIntent /\ request[p].seq # 0
    <3>1. request[p].op = "load" /\ pending = NoIntent /\ request[p] \in Requests
      BY <1>0, <2>1 DEF Calls, InCall, Progress
    <3>2. request[p].seq \in Nat
      BY <3>1, JournalAssumption DEF Requests
    <3> QED
      BY <2>1, <3>1, <3>2
  <2>3. CASE Answer(p, "error", NotFound)
    BY <2>1, <2>3, AnswerIsPromised, SameWords DEF Promise!Step, Promise!Fails
  <2>4. CASE Answer(p, "loaded", NewestAt(history, request[p].seq))
    <3>1. SavedLines = history
      BY <1>0, <2>2, NewestSaved
    <3>2. Promise!Answer(p, "loaded", NewestAt(SavedLines, request[p].seq))
      BY <2>1, <2>4, <3>1, AnswerIsPromised
    <3>3. Promise!NewestAt(SavedLines, request[p].seq) = NewestAt(SavedLines, request[p].seq)
      BY DEF Promise!NewestAt, NewestAt, NotFound, Promise!NotFound
    <3> QED
      BY <2>2, <3>2, <3>3, SameWords DEF Promise!Step, Promise!Loaded
  <2> QED
    BY <1>6, <2>3, <2>4 DEF LoadAt
<1>7. CASE Deleted(p)
  <2>1. /\ UNCHANGED <<SavedLines, cut>> /\ pc[p] = "delete" /\ history = <<>> /\ pending = NoIntent
        /\ Answer(p, "deleted", NotFound)
    BY <1>7 DEF Deleted, At, disk, SavedLines
  <2>2. request[p].op = "delete" /\ SavedLines = <<>>
    BY <1>0, <2>1 DEF Calls, InCall, SavedLines
  <2>3. Promise!Answer(p, "deleted", NotFound)
    BY <2>1, AnswerIsPromised
  <2> QED
    BY <2>2, <2>3, SameWords DEF Promise!Step, Promise!Deleted
<1>8. CASE Fail(p)
  <2>1. TornBy(p) /\ pc[p] # "idle" /\ Answer(p, "error", NotFound)
    BY <1>8 DEF Fail, At
  <2>2. known' = known /\ cut' = cut
    BY <2>1 DEF Answer, TornBy
  <2>3. UNCHANGED <<SavedLines, cut>>
    BY <1>0, <2>1, <2>2, TornIsBehind
  <2> QED
    BY <2>1, <2>3, AnswerIsPromised, SameWords DEF Promise!Step, Promise!Fails
<1> QED
  BY <1>1, <1>2, <1>3, <1>4, <1>5, <1>6, <1>7, <1>8

\* The three steps that are more than an answer or a stutter, and the start of a call.
LEMMA EnterCalls == ASSUME Inv, NEW p \in Procs, Enter(p) PROVE Promise!Step(p)
<1>1. /\ lock = Nobody /\ UNCHANGED <<history, latest, pending, risk, cut, reply>>
      /\ \E r \in Requests : request' = [request EXCEPT ![p] = r]
  BY DEF Enter, disk
<1>2. request[p] = NoRequest
  <2>1. lock # p
    BY <1>1, JournalAssumption DEF Nobody
  <2> QED
    BY <2>1 DEF Inv, Calls, InCall
<1>3. UNCHANGED SavedLines
  BY <1>1 DEF SavedLines
<1> QED
  BY <1>1, <1>2, <1>3, SameWords DEF Promise!Step, Promise!Call

LEMMA DeclarePromised == ASSUME Inv, ~cut, NEW p \in Procs, Declare(p) PROVE Promise!Step(p)
<1>1. /\ SavedLines' = Append(SavedLines, request[p].cp) /\ request[p].op = "save"
      /\ request[p].cp.seq > Newest(SavedLines).seq
  BY DeclareCommits DEF Inv, InOrder
<1>2. UNCHANGED <<request, reply, cut>>
  BY DEF Declare, Goto, local
<1> QED
  BY <1>1, <1>2, SameWords DEF Promise!Step, Promise!Commit

LEMMA DiePromised == ASSUME Inv, ~cut, NEW p \in Procs, Die(p) PROVE Promise!Step(p)
<1>1. TornBy(p) /\ Leave(p) /\ UNCHANGED <<reply, known>>
  BY DEF Die
<1>2. UNCHANGED <<SavedLines, cut>>
  BY <1>1, TornIsBehind DEF Inv, InOrder, TornBy
<1> QED
  BY <1>1, <1>2, SameWords DEF Promise!Step, Promise!Die, Leave

LEMMA UnlinkPromised ==
  ASSUME Inv, ~cut \/ ~cut', NEW p \in Procs, Unlink(p) PROVE Promise!Step(p)
<1>1. pc[p] = "delete" /\ UNCHANGED <<request, reply>>
  BY DEF Unlink, At, local
<1>2. request[p].op = "delete"
  BY <1>1 DEF Inv, Calls, InCall
<1>3. cut' \in BOOLEAN /\ cut' = (history' # <<>> \/ latest' # NotFound \/ pending' # NoIntent)
  BY DEF Unlink, Unlinked
<1>4. CASE ~cut'
  <2>1. SavedLines' = <<>>
    BY <1>3, <1>4 DEF SavedLines
  <2> QED
    BY <1>1, <1>2, <1>4, <2>1 DEF Promise!Step, Promise!EndDelete
<1>5. CASE ~cut /\ cut'
  <2>1. Shape /\ Directory
    BY <1>5 DEF Inv, InOrder
  <2>2. history # <<>> \/ latest # NotFound \/ pending # NoIntent
    BY DEF Unlink
  <2>3. SavedLines # <<>>
    <3>1. CASE pending = NoIntent
      BY <2>1, <2>2, <3>1 DEF Directory, Newest, SavedLines
    <3>2. CASE pending # NoIntent
      <4>1. Len(SavedLines) = pending.offset + 1 /\ pending.offset \in Nat
        BY <1>5, <2>1, <3>2, LinesOfIntent
      <4> QED
        BY <4>1
    <3> QED
      BY <3>1, <3>2
  <2> QED
    BY <1>1, <1>2, <1>5, <2>3 DEF Promise!Step, Promise!BeginDelete
<1> QED
  BY <1>3, <1>4, <1>5

\* Only a Delete changes whether the directory is cut.
LEMMA CutStays == ASSUME NEW p \in Procs, Step(p), ~Unlink(p) PROVE cut' = cut
BY DEF Step, Enter, Recover, Shrunk, SkipLine, Truncate, WriteLine, Flush, ReplaceLatest, SyncLatest,
       RemovePending, Repaired, Saved, Retried, Stale, Prepare, Declare, SyncIntent, Load, LoadAt, Deleted,
       Fail, Die, TornBy, disk

LEMMA StepPromised ==
  ASSUME Inv, Inv', NEW p \in Procs, Step(p)
  PROVE  Promise!Step(p) \/ (cut /\ cut') \/ Hidden
<1>1. CASE Unlink(p)
  <2>1. cut \in BOOLEAN /\ cut' \in BOOLEAN
    BY DEF Inv, Shape
  <2> QED
    BY <1>1, <2>1, UnlinkPromised
<1>2. CASE ~Unlink(p) /\ cut
  BY <1>2, CutStays
<1>3. CASE ~Unlink(p) /\ ~cut
  BY <1>3, EnterCalls, HiddenSteps, AnsweredSteps, DeclarePromised, DiePromised DEF Step
<1> QED
  BY <1>1, <1>2, <1>3

LEMMA StutterHidden == ASSUME UNCHANGED vars PROVE Hidden
BY DEF vars, disk, local, Hidden, SavedLines

\* While the power does not fail, the file store keeps the promise of HistoricalStore
\* (checkpoint/interface.go): a Save takes effect at one instant, the declaration of its
\* intent, and neither a failure, a death nor the repair by another process shows two states.
THEOREM Implements == ASSUME MaxPowerLosses = 0 PROVE Spec => KeepsPromise
<1>1. Init => Promise!Init
  <2> SUFFICES ASSUME Init PROVE Promise!Init
    OBVIOUS
  <2>1. SavedLines = <<>>
    BY DEF Init, SavedLines
  <2> QED
    BY <2>1, SameWords DEF Init, Promise!Init
<1>2. Inv /\ Inv' /\ [Next]_vars => [Promise!Next]_(Promise!vars)
  <2> SUFFICES ASSUME Inv, Inv', [Next]_vars PROVE [Promise!Next]_(Promise!vars)
    OBVIOUS
  <2>1. Hidden => UNCHANGED Promise!vars
    BY DEF Hidden, Promise!vars
  <2>2. ASSUME NEW p \in Procs, Step(p) PROVE [Promise!Next]_(Promise!vars)
    BY <2>1, <2>2, StepPromised DEF Promise!Next
  <2> QED
    BY <2>1, <2>2, PowerHolds, StutterHidden DEF Next
<1> QED
  BY <1>1, <1>2, Invariance, PTL DEF Spec, KeepsPromise, Promise!Spec

-----------------------------------------------------------------------------
\* Losses of power, any number of them, where nothing is deleted.  What the power can
\* leave of the three files may be put together in any combination, so what must survive is
\* stated of all of them: each known checkpoint is a line of the history, before the offset
\* of the intent if there is one, or is what the intent will write; and a resume starts at
\* it or later.
Held(cp, h, i) == \E k \in DOMAIN h : h[k] = cp /\ (i # NoIntent => k <= i.offset)

IsKept(cp, h, l, i) ==
  /\ i.cp = cp \/ Held(cp, h, i)
  /\ cp.seq <= IF i = NoIntent THEN l.seq ELSE i.cp.seq

Survives ==
  \A h \in risk.history, l \in risk.latest, i \in risk.pending : \A cp \in known : IsKept(cp, h, l, i)

\* With no repair due nothing is at risk but the removal of an intent whose line is there.
Settled ==
  pending = NoIntent =>
    /\ risk.history = {history} /\ risk.latest = {latest}
    /\ latest = NotFound \/ Stored(latest, history)
    /\ \A i \in risk.pending : i = NoIntent \/ (i.cp = latest /\ HasLine(i))

\* An intent whose name is not durable has been told to nobody, starts behind every older
\* one, and can be lost: then any latest.json that is left names a line that is left.
Declared ==
  pending # NoIntent /\ risk.pending # {pending} =>
    /\ pending.cp \notin known
    /\ \A i \in risk.pending : i.offset <= pending.offset
    /\ NoIntent \in risk.pending => \A l \in risk.latest :
         \/ l = NotFound
         \/ \A h \in risk.history : Held(l, h, pending)
         \/ l = pending.cp /\ HasLine(pending) /\ risk.history = {history}

\* How far the process in a call has come, and what it has made durable.
Standing(p) ==
  /\ pc[p] \in (Working \ {"syncunlink"}) \cup {"syncintent"} => pending = txn[p]
  /\ pc[p] = "write" => Len(history) = txn[p].offset
  /\ pc[p] \in {"flush", "latest", "synclatest", "unlink"} => HasLine(txn[p])
  /\ pc[p] \in {"latest", "synclatest", "unlink"} => risk.history = {history}
  /\ pc[p] \in {"synclatest", "unlink"} => latest = txn[p].cp
  /\ pc[p] = "unlink" => risk.latest = {latest} /\ risk.pending = {pending}
  /\ pc[p] = "syncunlink" => pending = NoIntent /\ latest = txn[p].cp
  /\ pc[p] \in {"check", "intent", "read"} => pending = NoIntent
  /\ pc[p] = "check" => txn[p] = NoIntent \/ txn[p].cp = latest
  /\ pc[p] = "intent" => txn[p].offset = Len(history) /\ txn[p].cp.seq > latest.seq

\* The kinds of all that the power can leave, and that no Delete is under way.
Base ==
  /\ Shape /\ RisksAreCounted /\ Calls /\ ~cut
  /\ \A h \in risk.history : h \in Seq(Lines)
  /\ \A l \in risk.latest : l \in Checkpoints \cup {NotFound}
  /\ \A i \in risk.pending : i \in Intents \cup {NoIntent}
  /\ \A p \in Procs : pc[p] # "delete"

Files == Survives /\ Settled /\ Declared

PowerInv == Base /\ Files /\ \A p \in Procs : Standing(p)

LEMMA IdleStands == ASSUME NEW q \in Procs, pc[q] = "idle" PROVE Standing(q)
BY DEF Standing, Working

\* What each sync and each replaced file leaves at risk.
LEMMA RisksAre ==
  ASSUME RisksAreCounted
  PROVE  /\ SyncDir => /\ DOMAIN risk' = {"history", "latest", "pending"}
                       /\ risk'.history = (IF history = <<>> THEN {<<>>} ELSE risk.history)
                       /\ risk'.latest = {latest} /\ risk'.pending = {pending}
         /\ \A files : RiskHistory(files) =>
                       /\ DOMAIN risk' = {"history", "latest", "pending"}
                       /\ risk'.history = risk.history \cup files
                       /\ risk'.latest = risk.latest /\ risk'.pending = risk.pending
         /\ \A cp : RiskLatest(cp) =>
                       /\ DOMAIN risk' = {"history", "latest", "pending"}
                       /\ risk'.history = risk.history
                       /\ risk'.latest = risk.latest \cup {cp} /\ risk'.pending = risk.pending
         /\ \A intent : RiskPending(intent) =>
                       /\ DOMAIN risk' = {"history", "latest", "pending"}
                       /\ risk'.history = risk.history /\ risk'.latest = risk.latest
                       /\ risk'.pending = risk.pending \cup {intent}
<1>1. SyncDir => /\ DOMAIN risk' = {"history", "latest", "pending"}
                 /\ risk'.history = (IF history = <<>> THEN {<<>>} ELSE risk.history)
                 /\ risk'.latest = {latest} /\ risk'.pending = {pending}
  BY DEF SyncDir
<1>2. \A files : RiskHistory(files) =>
        /\ DOMAIN risk' = {"history", "latest", "pending"}
        /\ risk'.history = risk.history \cup files
        /\ risk'.latest = risk.latest /\ risk'.pending = risk.pending
  BY DEF RiskHistory, RisksAreCounted
<1>3. \A cp : RiskLatest(cp) =>
        /\ DOMAIN risk' = {"history", "latest", "pending"}
        /\ risk'.history = risk.history
        /\ risk'.latest = risk.latest \cup {cp} /\ risk'.pending = risk.pending
  BY DEF RiskLatest, RisksAreCounted
<1>4. \A intent : RiskPending(intent) =>
        /\ DOMAIN risk' = {"history", "latest", "pending"}
        /\ risk'.history = risk.history /\ risk'.latest = risk.latest
        /\ risk'.pending = risk.pending \cup {intent}
  BY DEF RiskPending, RisksAreCounted
<1> QED
  BY <1>1, <1>2, <1>3, <1>4

\* The kinds over a step to another place of a call, and over its end.
RisksAreTyped ==
  /\ DOMAIN risk = {"history", "latest", "pending"}
  /\ history \in risk.history /\ latest \in risk.latest /\ pending \in risk.pending
  /\ \A h \in risk.history : h \in Seq(Lines)
  /\ \A l \in risk.latest : l \in Checkpoints \cup {NotFound}
  /\ \A i \in risk.pending : i \in Intents \cup {NoIntent}

LEMMA MovesStay ==
  ASSUME Base, NEW p \in Procs, pc[p] # "idle", NEW place \in Places \ {"idle", "delete"}, Goto(p, place),
         UNCHANGED <<request, cut, spent>>, repairing' \subseteq Procs, repairing' \ {p} = repairing \ {p},
         txn' \in [Procs -> Intents \cup {NoIntent}], RisksAreTyped',
         place = "write" => Append(history', Torn) \in risk'.history,
         InCall(p)', Standing(p)'
  PROVE  Base' /\ \A q \in Procs : Standing(q)'
<1>0. Shape /\ RisksAreCounted /\ Calls /\ ~cut /\ \A q \in Procs : pc[q] # "delete"
  BY DEF Base
<1>1. /\ Calls' /\ pc' \in [Procs -> Places] /\ pc'[p] = place
      /\ \A q \in Procs \ {p} : pc'[q] = "idle"
      /\ UNCHANGED <<lock, reply, known>>
  BY <1>0, GoesOn
<1>2. /\ history' \in Seq(Lines) /\ latest' \in Checkpoints \cup {NotFound} /\ pending' \in Intents \cup {NoIntent}
  BY DEF RisksAreTyped
<1>3. Shape'
  BY <1>0, <1>1, <1>2 DEF Shape
<1>4. RisksAreCounted'
  BY <1>1 DEF RisksAreCounted, RisksAreTyped
<1>5. \A q \in Procs \ {p} : Standing(q)'
  BY <1>1 DEF Standing, Working
<1>6. \A q \in Procs : pc'[q] # "delete"
  BY <1>1
<1>7. /\ \A h \in risk'.history : h \in Seq(Lines)
      /\ \A l \in risk'.latest : l \in Checkpoints \cup {NotFound}
      /\ \A i \in risk'.pending : i \in Intents \cup {NoIntent}
  BY DEF RisksAreTyped
<1> QED
  BY <1>0, <1>1, <1>3, <1>4, <1>5, <1>6, <1>7 DEF Base

LEMMA LeavesStay ==
  ASSUME Base, NEW p \in Procs, pc[p] # "idle", Leave(p), cut' = cut, RisksAreTyped',
         reply' \in Replies \cup {NoReply}, known' \subseteq Checkpoints,
         spent' \in [faults : Nat, power : Nat, deletes : Nat]
  PROVE  Base' /\ \A q \in Procs : Standing(q)'
<1>0. Shape /\ RisksAreCounted /\ Calls /\ ~cut
  BY DEF Base
<1>1. /\ Calls' /\ \A q \in Procs : pc'[q] = "idle"
      /\ pc' \in [Procs -> Places] /\ lock' = Nobody
      /\ request' \in [Procs -> Requests \cup {NoRequest}]
      /\ txn' \in [Procs -> Intents \cup {NoIntent}] /\ repairing' \subseteq Procs
  BY <1>0, LeaveFrees
<1>2. /\ history' \in Seq(Lines) /\ latest' \in Checkpoints \cup {NotFound} /\ pending' \in Intents \cup {NoIntent}
  BY DEF RisksAreTyped
<1>3. Shape'
  BY <1>0, <1>1, <1>2 DEF Shape
<1>4. RisksAreCounted'
  BY <1>1 DEF RisksAreCounted, RisksAreTyped
<1>5. \A q \in Procs : Standing(q)'
  BY <1>1 DEF Standing, Working
<1>6. /\ \A h \in risk'.history : h \in Seq(Lines)
      /\ \A l \in risk'.latest : l \in Checkpoints \cup {NotFound}
      /\ \A i \in risk'.pending : i \in Intents \cup {NoIntent}
  BY DEF RisksAreTyped
<1> QED
  BY <1>0, <1>1, <1>3, <1>4, <1>5, <1>6 DEF Base

LEMMA BaseTypes == ASSUME Base PROVE RisksAreTyped
BY DEF Base, RisksAreCounted, RisksAreTyped

-----------------------------------------------------------------------------
\* A step that does not touch the files, and one that only makes them durable.
LEMMA QuietFiles ==
  ASSUME Base, Files, UNCHANGED <<history, latest, pending, risk, known>>
  PROVE  Files' /\ RisksAreTyped'
<1>1. RisksAreTyped'
  BY BaseTypes DEF RisksAreTyped
<1>2. Files'
  BY DEF Files, Survives, Settled, Declared, HasLine
<1> QED
  BY <1>1, <1>2

FewerAtRisk ==
  /\ DOMAIN risk' = {"history", "latest", "pending"}
  /\ history \in risk'.history /\ risk'.history \subseteq risk.history
  /\ latest \in risk'.latest /\ risk'.latest \subseteq risk.latest
  /\ pending \in risk'.pending /\ risk'.pending \subseteq risk.pending

LEMMA FewerRisks ==
  ASSUME Base, Files, FewerAtRisk, UNCHANGED <<history, latest, pending, known>>
  PROVE  Files' /\ RisksAreTyped'
<1>1. RisksAreTyped'
  BY BaseTypes DEF RisksAreTyped, FewerAtRisk
<1>2. Survives'
  BY DEF Files, Survives, FewerAtRisk
<1>3. Settled'
  BY DEF Files, Settled, FewerAtRisk, HasLine
<1>4. Declared'
  <2> SUFFICES ASSUME pending # NoIntent, risk'.pending # {pending}
               PROVE  /\ pending.cp \notin known
                      /\ \A i \in risk'.pending : i.offset <= pending.offset
                      /\ NoIntent \in risk'.pending => \A l \in risk'.latest :
                           \/ l = NotFound
                           \/ \A h \in risk'.history : Held(l, h, pending)
                           \/ l = pending.cp /\ HasLine(pending) /\ risk'.history = {history}
    BY DEF Declared, HasLine
  <2>1. risk.pending # {pending}
    BY DEF FewerAtRisk
  <2>2. /\ pending.cp \notin known
        /\ \A i \in risk.pending : i.offset <= pending.offset
        /\ NoIntent \in risk.pending => \A l \in risk.latest :
             \/ l = NotFound
             \/ \A h \in risk.history : Held(l, h, pending)
             \/ l = pending.cp /\ HasLine(pending) /\ risk.history = {history}
    BY <2>1 DEF Files, Declared
  <2>3. risk.history = {history} => risk'.history = {history}
    BY DEF FewerAtRisk
  <2> QED
    BY <2>2, <2>3 DEF FewerAtRisk
<1> QED
  BY <1>1, <1>2, <1>3, <1>4 DEF Files

\* Making the names of the directory durable.
LEMMA SyncLessens ==
  ASSUME Base, SyncDir
  PROVE  FewerAtRisk /\ risk'.latest = {latest} /\ risk'.pending = {pending}
<1>1. RisksAreCounted
  BY DEF Base
<1>2. /\ DOMAIN risk' = {"history", "latest", "pending"}
      /\ risk'.history = (IF history = <<>> THEN {<<>>} ELSE risk.history)
      /\ risk'.latest = {latest} /\ risk'.pending = {pending}
  BY <1>1, RisksAre
<1> QED
  BY <1>1, <1>2 DEF FewerAtRisk, RisksAreCounted

\* With no repair due, a call may tell what latest.json holds.
LEMMA TellsLatest ==
  ASSUME Base, Files, pending = NoIntent, FewerAtRisk, UNCHANGED <<history, latest, pending>>,
         \A c \in known' : c \in known \/ (c = latest /\ c # NotFound)
  PROVE  Files' /\ RisksAreTyped'
<1>1. RisksAreTyped'
  BY BaseTypes DEF RisksAreTyped, FewerAtRisk
<1>2. /\ risk.history = {history} /\ risk.latest = {latest}
      /\ latest = NotFound \/ Stored(latest, history)
      /\ \A i \in risk.pending : i = NoIntent \/ (i.cp = latest /\ HasLine(i))
  BY DEF Files, Settled
<1>3. latest.seq \in Nat
  BY Kinds DEF Base, Shape
<1>4. ASSUME NEW i \in risk.pending, NEW c \in known' PROVE IsKept(c, history, latest, i)
  <2>1. CASE c \in known
    BY <1>2, <2>1 DEF Files, Survives
  <2>2. CASE c = latest /\ c # NotFound
    <3>1. i.cp = c \/ Held(c, history, i)
      BY <1>2, <2>2 DEF Stored, Held
    <3>2. c.seq <= IF i = NoIntent THEN latest.seq ELSE i.cp.seq
      BY <1>2, <1>3, <2>2
    <3> QED
      BY <3>1, <3>2 DEF IsKept
  <2> QED
    BY <1>4, <2>1, <2>2
<1>5. Survives'
  BY <1>2, <1>4 DEF Survives, FewerAtRisk
<1>6. Settled'
  BY <1>2 DEF Settled, FewerAtRisk, HasLine
<1>7. Declared'
  BY DEF Declared
<1> QED
  BY <1>1, <1>5, <1>6, <1>7 DEF Files

-----------------------------------------------------------------------------
\* The start of a call, and the repair it finds due.
LEMMA EnterStays ==
  ASSUME PowerInv, MaxDeletes = 0, NEW p \in Procs, Enter(p) PROVE PowerInv'
<1>0. /\ Shape /\ RisksAreCounted /\ Calls /\ ~cut /\ Files /\ \A q \in Procs : pc[q] # "delete"
      /\ UNCHANGED <<history, latest, pending, risk, cut, known, txn>>
  BY DEF PowerInv, Base, disk, Enter
<1>1. PICK r \in Requests :
        /\ r.op = "delete" => spent.deletes < MaxDeletes
        /\ request' = [request EXCEPT ![p] = r]
        /\ pc' = [pc EXCEPT ![p] = IF r.op = "delete" THEN "delete" ELSE "recover"]
        /\ spent' = IF r.op = "delete" THEN [spent EXCEPT !.deletes = @ + 1] ELSE spent
  BY DEF Enter
<1>2. r.op # "delete"
  <2>1. spent.deletes \in Nat
    BY <1>0 DEF Shape
  <2> QED
    BY <1>1, <2>1
<1>3. lock = Nobody /\ lock' = p /\ UNCHANGED <<repairing, reply, spent>>
  BY <1>1, <1>2 DEF Enter
<1>4. \A q \in Procs : pc[q] = "idle" /\ request[q] = NoRequest /\ q \notin repairing
  <2>1. \A q \in Procs : lock # q
    BY <1>3, JournalAssumption DEF Nobody
  <2> QED
    BY <1>0, <2>1 DEF Calls, InCall, Working
<1>5. \A q \in Procs \ {p} : pc'[q] = "idle" /\ request'[q] = NoRequest
  BY <1>0, <1>1, <1>4 DEF Shape
<1>6. pc'[p] = "recover" /\ request'[p] = r
  BY <1>0, <1>1, <1>2 DEF Shape
<1>7. Shape'
  <2>1. pc' \in [Procs -> Places] /\ request' \in [Procs -> Requests \cup {NoRequest}]
    BY <1>0, <1>1, <1>2 DEF Shape, Places
  <2> QED
    BY <1>0, <1>3, <2>1 DEF Shape
<1>8. RisksAreCounted'
  BY <1>0, <1>5, <1>6 DEF RisksAreCounted
<1>9. Calls'
  <2>1. NoRequest.op = "none"
    BY DEF NoRequest
  <2>2. InCall(p)'
    BY <1>2, <1>3, <1>4, <1>6 DEF InCall, Working, Declaring
  <2>3. \A q \in Procs \ {p} : InCall(q)'
    BY <1>3, <1>4, <1>5, <2>1 DEF InCall, Working, Declaring
  <2> QED
    BY <2>2, <2>3 DEF Calls
<1>10. Files' /\ RisksAreTyped'
  BY <1>0, QuietFiles DEF PowerInv
<1>11. \A q \in Procs : Standing(q)'
  BY <1>5, <1>6 DEF Standing, Working
<1>12. Base'
  BY <1>0, <1>5, <1>6, <1>7, <1>8, <1>9, <1>10 DEF Base, RisksAreTyped
<1> QED
  BY <1>10, <1>11, <1>12 DEF PowerInv

LEMMA RecoverStays == ASSUME PowerInv, NEW p \in Procs, Recover(p) PROVE PowerInv'
<1>0. Base /\ Files /\ Shape /\ Calls
  BY DEF PowerInv, Base
<1>1. /\ pc[p] = "recover" /\ txn' = [txn EXCEPT ![p] = pending]
      /\ repairing' = IF pending = NoIntent THEN repairing ELSE repairing \cup {p}
      /\ Goto(p, IF pending = NoIntent THEN Onward(p) ELSE "apply")
      /\ UNCHANGED <<history, latest, pending, risk, cut, request, spent>>
  BY DEF Recover, At, disk
<1> DEFINE place == IF pending = NoIntent THEN Onward(p) ELSE "apply"
<1>2. place \in Places \ {"idle", "delete"} /\ place \in {"check", "read", "apply"}
  BY DEF Onward, Places
<1>3. pc'[p] = place /\ txn'[p] = pending /\ lock' = lock /\ UNCHANGED known
  BY <1>0, <1>1 DEF Goto, Shape
<1>4. InCall(p)'
  <2>1. /\ lock = p /\ request[p] \in Requests /\ p \notin repairing /\ request[p].op # "delete"
        /\ request[p].op \in {"save", "load", "delete"}
    BY <1>0, <1>1 DEF Calls, InCall, Working, Requests
  <2>2. CASE pending = NoIntent
    BY <1>1, <1>3, <2>1, <2>2 DEF InCall, Onward, Working, Declaring
  <2>3. CASE pending # NoIntent
    BY <1>0, <1>1, <1>3, <2>1, <2>3 DEF InCall, Working, Declaring, Shape
  <2> QED
    BY <2>2, <2>3
<1>5. Standing(p)'
  BY <1>1, <1>2, <1>3 DEF Standing, Working
<1>6. Files' /\ RisksAreTyped'
  BY <1>0, <1>1, <1>3, QuietFiles
<1>7. txn' \in [Procs -> Intents \cup {NoIntent}]
  BY <1>0, <1>1 DEF Shape
<1>8. repairing' \subseteq Procs /\ repairing' \ {p} = repairing \ {p}
  BY <1>0, <1>1 DEF Shape
<1> HIDE DEF place
<1>9. Goto(p, place) /\ place # "write"
  BY <1>1, <1>2 DEF place
<1>10. Base' /\ \A q \in Procs : Standing(q)'
  BY <1>0, <1>1, <1>2, <1>4, <1>5, <1>6, <1>7, <1>8, <1>9, MovesStay
<1> QED
  BY <1>6, <1>10 DEF PowerInv

-----------------------------------------------------------------------------
\* The ends of a call over unchanged files.
LEMMA AnswersStay ==
  ASSUME PowerInv, NEW p \in Procs, pc[p] # "idle", UNCHANGED <<cut, spent>>, Files', RisksAreTyped',
         NEW kind \in {"saved", "stale", "loaded", "deleted", "error"},
         NEW cp \in Checkpoints \cup {NotFound}, Answer(p, kind, cp)
  PROVE  PowerInv'
<1>0. Base /\ Shape /\ Calls
  BY DEF PowerInv, Base
<1>1. Leave(p) /\ reply' \in Replies \cup {NoReply} /\ known' \subseteq Checkpoints
  BY <1>0, AnswerTells
<1>2. spent' \in [faults : Nat, power : Nat, deletes : Nat]
  BY <1>0 DEF Shape
<1>3. Base' /\ \A q \in Procs : Standing(q)'
  BY <1>0, <1>1, <1>2, LeavesStay
<1> QED
  BY <1>3 DEF PowerInv

LEMMA NothingNewStays ==
  ASSUME PowerInv, NEW p \in Procs, pc[p] # "idle", UNCHANGED <<disk, spent>>,
         NEW kind \in {"saved", "stale", "loaded", "deleted", "error"}, Answer(p, kind, NotFound)
  PROVE  PowerInv'
<1>1. known' = known
  BY DEF Answer
<1>2. UNCHANGED <<history, latest, pending, risk, cut>>
  BY DEF disk
<1>3. Files' /\ RisksAreTyped'
  BY <1>1, <1>2, QuietFiles DEF PowerInv
<1> QED
  BY <1>2, <1>3, AnswersStay

LEMMA ShrunkStays == ASSUME PowerInv, NEW p \in Procs, Shrunk(p) PROVE PowerInv'
BY NothingNewStays DEF Shrunk, At

LEMMA StaleStays == ASSUME PowerInv, NEW p \in Procs, Stale(p) PROVE PowerInv'
BY NothingNewStays DEF Stale, At

LEMMA SameRisks ==
  ASSUME Base, UNCHANGED risk PROVE FewerAtRisk
BY DEF Base, RisksAreCounted, FewerAtRisk

\* A retry of what was just repaired, and a Load, tell the newest checkpoint.
LEMMA RetriedStays == ASSUME PowerInv, NEW p \in Procs, Retried(p) PROVE PowerInv'
<1>0. Base /\ Files /\ Shape /\ Calls /\ Standing(p)
  BY DEF PowerInv, Base
<1>1. /\ pc[p] = "check" /\ txn[p].cp = request[p].cp /\ Answer(p, "saved", request[p].cp)
      /\ UNCHANGED <<history, latest, pending, risk, cut, spent>>
  BY DEF Retried, At, disk
<1>2. request[p].cp \in Checkpoints
  BY <1>0, <1>1 DEF Calls, InCall, Requests
<1>3. pending = NoIntent /\ latest = request[p].cp
  BY <1>0, <1>1, <1>2, Kinds DEF Standing
<1>4. \A c \in known' : c \in known \/ (c = latest /\ c # NotFound)
  BY <1>1, <1>3 DEF Answer
<1>5. Files' /\ RisksAreTyped'
  BY <1>0, <1>1, <1>3, <1>4, SameRisks, TellsLatest
<1> QED
  BY <1>1, <1>2, <1>5, AnswersStay

LEMMA LoadStays == ASSUME PowerInv, NEW p \in Procs, Load(p) PROVE PowerInv'
<1>0. Base /\ Files /\ Shape /\ Standing(p)
  BY DEF PowerInv, Base
<1>1. /\ pc[p] = "read" /\ Answer(p, "loaded", latest)
      /\ UNCHANGED <<history, latest, pending, risk, cut, spent>>
  BY DEF Load, At, disk
<1>2. pending = NoIntent
  BY <1>0, <1>1 DEF Standing
<1>3. \A c \in known' : c \in known \/ (c = latest /\ c # NotFound)
  BY <1>1 DEF Answer
<1>4. Files' /\ RisksAreTyped'
  BY <1>0, <1>1, <1>2, <1>3, SameRisks, TellsLatest
<1> QED
  BY <1>0, <1>1, <1>4, AnswersStay DEF Shape

LEMMA LoadAtStays == ASSUME PowerInv, NEW p \in Procs, LoadAt(p) PROVE PowerInv'
<1>0. Base /\ Files /\ Shape /\ Calls
  BY DEF PowerInv, Base
<1>1. pc[p] = "read" /\ request[p].seq > 0 /\ UNCHANGED <<disk, spent>>
  BY DEF LoadAt, At
<1>2. CASE \E i \in DOMAIN history : history[i] = Torn
  BY <1>1, <1>2, NothingNewStays DEF LoadAt
<1>3. CASE \A i \in DOMAIN history : history[i] # Torn
  <2>1. request[p] \in Requests /\ request[p].op = "load"
    BY <1>0, <1>1 DEF Calls, InCall
  <2>2. request[p].seq \in Nat
    BY <2>1, JournalAssumption DEF Requests
  <2>3. NewestAt(history, request[p].seq) \in Checkpoints \cup {NotFound}
    BY <1>0, <1>3, <2>2, NewestAtFinds DEF Shape
  <2>4. Answer(p, "loaded", NewestAt(history, request[p].seq))
    BY <1>3 DEF LoadAt
  <2>5. known' = known
    BY <1>1, <2>1, <2>4 DEF Answer
  <2>6. Files' /\ RisksAreTyped'
    BY <1>0, <1>1, <2>5, QuietFiles DEF disk
  <2> QED
    BY <1>1, <2>3, <2>4, <2>6, AnswersStay DEF disk
<1> QED
  BY <1>2, <1>3

\* The caller's own Save ends with its checkpoint in latest.json.
LEMMA SavedStays == ASSUME PowerInv, NEW p \in Procs, Saved(p) PROVE PowerInv'
<1>0. Base /\ Files /\ Calls /\ Standing(p)
  BY DEF PowerInv, Base
<1>1. /\ pc[p] = "syncunlink" /\ p \notin repairing /\ SyncDir /\ Answer(p, "saved", request[p].cp)
      /\ UNCHANGED <<history, latest, pending, cut, spent>>
  BY DEF Saved, At
<1>2. request[p].cp \in Checkpoints /\ txn[p].cp = request[p].cp
  BY <1>0, <1>1 DEF Calls, InCall, Working, Requests
<1>3. pending = NoIntent /\ latest = request[p].cp
  BY <1>0, <1>1, <1>2 DEF Standing
<1>4. \A c \in known' : c \in known \/ (c = latest /\ c # NotFound)
  BY <1>1, <1>3 DEF Answer
<1>5. Files' /\ RisksAreTyped'
  BY <1>0, <1>1, <1>3, <1>4, SyncLessens, TellsLatest
<1> QED
  BY <1>1, <1>2, <1>5, AnswersStay

-----------------------------------------------------------------------------
\* The steps of a repair or a save over its intent.
LEMMA WorkStays ==
  ASSUME PowerInv, NEW p \in Procs, pc[p] \in Working, NEW place \in Working, Goto(p, place),
         UNCHANGED <<local, cut, spent>>, Files', RisksAreTyped',
         place = "write" => Append(history', Torn) \in risk'.history, Standing(p)'
  PROVE  PowerInv'
<1>0. Base /\ Shape /\ Calls
  BY DEF PowerInv, Base
<1>1. InCall(p)'
  BY <1>0, StaysInCall
<1>2. pc[p] # "idle" /\ place \in Places \ {"idle", "delete"}
  BY DEF Working, Places
<1>3. UNCHANGED <<request, txn, repairing>> /\ repairing \subseteq Procs
      /\ txn \in [Procs -> Intents \cup {NoIntent}]
  BY <1>0 DEF local, Shape
<1>4. Base' /\ \A q \in Procs : Standing(q)'
  BY <1>0, <1>1, <1>2, <1>3, MovesStay
<1> QED
  BY <1>4 DEF PowerInv

\* What such a step knows.
LEMMA WorkKnows ==
  ASSUME PowerInv, NEW p \in Procs, pc[p] \in Working, NEW place \in Working, Goto(p, place), UNCHANGED local
  PROVE  /\ Base /\ Files /\ Standing(p) /\ pc'[p] = place /\ txn'[p] = txn[p] /\ txn[p] \in Intents
         /\ known' = known /\ txn[p].offset \in Nat /\ txn[p].cp \in Checkpoints
         /\ pc[p] # "syncunlink" => pending = txn[p] /\ pending # NoIntent
<1>0. Base /\ Files /\ Standing(p) /\ Shape /\ Calls
  BY DEF PowerInv, Base
<1>1. pc'[p] = place /\ txn'[p] = txn[p] /\ txn[p] \in Intents /\ known' = known
  BY <1>0, StaysInCall
<1>2. pc[p] # "syncunlink" => pending = txn[p] /\ pending # NoIntent
  BY <1>0, <1>1, Kinds DEF Standing
<1> QED
  BY <1>0, <1>1, <1>2, Kinds

LEMMA SkipLineStays == ASSUME PowerInv, NEW p \in Procs, SkipLine(p) PROVE PowerInv'
<1>1. /\ pc[p] = "apply" /\ HasLine(txn[p]) /\ Goto(p, "flush")
      /\ UNCHANGED <<history, latest, pending, risk, cut, local, spent>>
  BY DEF SkipLine, At, disk
<1>2. /\ Base /\ Files /\ pc'[p] = "flush" /\ txn'[p] = txn[p] /\ known' = known /\ pending = txn[p]
  BY <1>1, WorkKnows DEF Working
<1>3. Files' /\ RisksAreTyped'
  BY <1>1, <1>2, QuietFiles
<1>4. Standing(p)'
  BY <1>1, <1>2 DEF Standing, Working, HasLine
<1> QED
  BY <1>1, <1>3, <1>4, WorkStays DEF Working

LEMMA FlushStays == ASSUME PowerInv, NEW p \in Procs, Flush(p) PROVE PowerInv'
<1>1. /\ pc[p] = "flush" /\ Goto(p, "latest") /\ risk' = [risk EXCEPT !.history = {history}]
      /\ UNCHANGED <<history, latest, pending, cut, local, spent>>
  BY DEF Flush, At
<1>2. /\ Base /\ Files /\ Standing(p) /\ pc'[p] = "latest" /\ txn'[p] = txn[p] /\ known' = known
      /\ pending = txn[p]
  BY <1>1, WorkKnows DEF Working
<1>3. FewerAtRisk /\ risk'.history = {history}
  BY <1>1, <1>2 DEF Base, RisksAreCounted, FewerAtRisk
<1>4. Files' /\ RisksAreTyped'
  BY <1>1, <1>2, <1>3, FewerRisks
<1>5. Standing(p)'
  BY <1>1, <1>2, <1>3 DEF Standing, Working, HasLine
<1> QED
  BY <1>1, <1>4, <1>5, WorkStays DEF Working

LEMMA SyncLatestStays == ASSUME PowerInv, NEW p \in Procs, SyncLatest(p) PROVE PowerInv'
<1>1. /\ pc[p] = "synclatest" /\ Goto(p, "unlink") /\ SyncDir
      /\ UNCHANGED <<history, latest, pending, cut, local, spent>>
  BY DEF SyncLatest, At
<1>2. /\ Base /\ Files /\ Standing(p) /\ pc'[p] = "unlink" /\ txn'[p] = txn[p] /\ known' = known
      /\ pending = txn[p]
  BY <1>1, WorkKnows DEF Working
<1>3. FewerAtRisk /\ risk'.latest = {latest} /\ risk'.pending = {pending}
  BY <1>1, <1>2, SyncLessens
<1>4. risk'.history = {history}
  BY <1>1, <1>2, <1>3 DEF Standing, FewerAtRisk
<1>5. Files' /\ RisksAreTyped'
  BY <1>1, <1>2, <1>3, FewerRisks
<1>6. Standing(p)'
  BY <1>1, <1>2, <1>3, <1>4 DEF Standing, Working, HasLine
<1> QED
  BY <1>1, <1>5, <1>6, WorkStays DEF Working

\* A line before the offset of the intent survives the truncation, torn or not.
LEMMA TruncateStays == ASSUME PowerInv, NEW p \in Procs, Truncate(p) PROVE PowerInv'
<1>1. /\ pc[p] = "apply" /\ Goto(p, "write") /\ Len(history) >= txn[p].offset /\ ~HasLine(txn[p])
      /\ history' = Kept(p) /\ RiskHistory({Kept(p), Append(Kept(p), Torn)})
      /\ UNCHANGED <<latest, pending, cut, local, spent>>
  BY DEF Truncate, At
<1>2. /\ Base /\ Files /\ Standing(p) /\ pc'[p] = "write" /\ txn'[p] = txn[p] /\ txn[p] \in Intents
      /\ known' = known /\ txn[p].offset \in Nat /\ pending = txn[p] /\ pending # NoIntent
  BY <1>1, WorkKnows DEF Working
<1>3. Shape /\ RisksAreCounted /\ known \subseteq Checkpoints
  BY <1>2 DEF Base, Shape
<1> DEFINE o == txn[p].offset
           K == Kept(p)
           T == Append(K, Torn)
<1>4. o \in Nat /\ o <= Len(history) /\ history \in Seq(Lines) /\ Torn \in Lines
  BY <1>1, <1>2, <1>3 DEF Shape, Lines
<1>5. K \in Seq(Lines) /\ Len(K) = o /\ \A k \in 1 .. o : K[k] = history[k]
  BY <1>4, Prefixes DEF Kept
<1> HIDE DEF K
<1>6. T \in Seq(Lines) /\ Len(T) = o + 1 /\ \A k \in 1 .. o : T[k] = K[k]
  BY <1>4, <1>5, Appended
<1> HIDE DEF T
<1>7. /\ DOMAIN risk' = {"history", "latest", "pending"}
      /\ risk'.history = risk.history \cup {K, T}
      /\ risk'.latest = risk.latest /\ risk'.pending = risk.pending /\ history' = K
  BY <1>1, <1>3, RisksAre DEF K, T
<1>8. RisksAreTyped'
  <2>1. RisksAreTyped
    BY <1>2, BaseTypes
  <2> QED
    BY <1>1, <1>5, <1>6, <1>7, <2>1 DEF RisksAreTyped
<1>9. ASSUME NEW c, NEW i, NEW k \in DOMAIN history, history[k] = c, k <= o, i # NoIntent => k <= i.offset
      PROVE  Held(c, K, i) /\ Held(c, T, i)
  <2>1. k \in 1 .. o
    BY <1>4, <1>9
  <2>2. k \in DOMAIN K /\ k \in DOMAIN T /\ K[k] = c /\ T[k] = c
    <3>1. DOMAIN K = 1 .. o /\ DOMAIN T = 1 .. o + 1
      BY <1>5, <1>6
    <3>2. k \in 1 .. o + 1
      BY <1>4, <2>1
    <3> QED
      BY <1>5, <1>6, <1>9, <2>1, <3>1, <3>2
  <2> QED
    BY <1>9, <2>2 DEF Held
<1>10. \A i \in risk.pending : i # NoIntent => i.offset \in Nat /\ i.offset <= o
  <2>1. \A i \in risk.pending : i # NoIntent => i.offset \in Nat
    BY <1>2, Kinds DEF Base
  <2>2. \A i \in risk.pending : i.offset <= pending.offset \/ i = pending
    BY <1>2 DEF Files, Declared
  <2> QED
    BY <1>2, <1>4, <2>1, <2>2
<1>11. ASSUME NEW l \in risk.latest, NEW i \in risk.pending, NEW c \in known
       PROVE  IsKept(c, K, l, i) /\ IsKept(c, T, l, i)
  <2>1. IsKept(c, history, l, i) /\ IsKept(c, history, l, pending)
    BY <1>3, <1>11 DEF Files, Survives, RisksAreCounted, PowerInv
  <2>2. i.cp = c \/ (Held(c, K, i) /\ Held(c, T, i))
    <3>1. CASE i # NoIntent
      <4>1. i.cp = c \/ \E k \in DOMAIN history : history[k] = c /\ k <= i.offset
        BY <2>1, <3>1 DEF IsKept, Held
      <4>2. \A k \in DOMAIN history : k <= i.offset => k <= o
        <5>1. \A k \in DOMAIN history : k \in Nat
          BY <1>4
        <5> QED
          BY <1>4, <1>10, <3>1, <5>1
      <4> QED
        BY <1>9, <4>1, <4>2
    <3>2. CASE i = NoIntent
      <4>1. pending.cp \notin known
        BY <1>2, <3>2 DEF Files, Declared
      <4>2. \E k \in DOMAIN history : history[k] = c /\ k <= o
        BY <1>2, <2>1, <4>1 DEF IsKept, Held
      <4> QED
        BY <1>9, <3>2, <4>2
    <3> QED
      BY <3>1, <3>2
  <2> QED
    BY <2>1, <2>2 DEF IsKept
<1>12. Survives'
  BY <1>2, <1>7, <1>11 DEF Files, Survives
<1>13. Settled'
  BY <1>1, <1>2 DEF Settled
<1>14. Declared'
  <2> SUFFICES ASSUME risk.pending # {pending}
               PROVE  /\ pending.cp \notin known
                      /\ \A i \in risk.pending : i.offset <= pending.offset
                      /\ NoIntent \in risk.pending => \A l \in risk.latest :
                           l = NotFound \/ \A h \in risk.history \cup {K, T} : Held(l, h, pending)
    BY <1>1, <1>2, <1>7 DEF Declared
  <2>1. /\ pending.cp \notin known
        /\ \A i \in risk.pending : i.offset <= pending.offset
        /\ NoIntent \in risk.pending => \A l \in risk.latest :
             l = NotFound \/ \A h \in risk.history : Held(l, h, pending)
    BY <1>1, <1>2 DEF Files, Declared
  <2>2. ASSUME NEW l, Held(l, history, pending) PROVE Held(l, K, pending) /\ Held(l, T, pending)
    <3>1. PICK k \in DOMAIN history : history[k] = l /\ k <= o
      BY <1>2, <2>2 DEF Held
    <3> QED
      BY <1>2, <1>9, <3>1
  <2> QED
    BY <1>3, <2>1, <2>2 DEF RisksAreCounted
<1>15. Standing(p)'
  BY <1>1, <1>2, <1>5, <1>7 DEF Standing, Working
<1>16. Append(history', Torn) \in risk'.history
  BY <1>7 DEF T
<1> QED
  BY <1>1, <1>8, <1>12, <1>13, <1>14, <1>15, <1>16, WorkStays DEF Working, Files

LEMMA WriteLineStays == ASSUME PowerInv, NEW p \in Procs, WriteLine(p) PROVE PowerInv'
<1>1. /\ pc[p] = "write" /\ Goto(p, "flush")
      /\ history' = Append(history, txn[p].cp) /\ RiskHistory({history'})
      /\ UNCHANGED <<latest, pending, cut, local, spent>>
  BY DEF WriteLine, At
<1>2. /\ Base /\ Files /\ Standing(p) /\ pc'[p] = "flush" /\ txn'[p] = txn[p] /\ txn[p] \in Intents
      /\ known' = known /\ txn[p].offset \in Nat /\ txn[p].cp \in Checkpoints
      /\ pending = txn[p] /\ pending # NoIntent
  BY <1>1, WorkKnows DEF Working
<1>3. Shape /\ RisksAreCounted
  BY <1>2 DEF Base
<1> DEFINE G == Append(history, txn[p].cp)
<1>4. history \in Seq(Lines) /\ Len(history) = txn[p].offset /\ txn[p].cp \in Lines
  BY <1>1, <1>2, <1>3 DEF Shape, Lines, Standing
<1>5. /\ G \in Seq(Lines) /\ Len(G) = Len(history) + 1 /\ G[Len(history) + 1] = txn[p].cp
      /\ \A k \in 1 .. Len(history) : G[k] = history[k]
  BY <1>4, Appended
<1> HIDE DEF G
<1>6. /\ DOMAIN risk' = {"history", "latest", "pending"}
      /\ risk'.history = risk.history \cup {G}
      /\ risk'.latest = risk.latest /\ risk'.pending = risk.pending /\ history' = G
  BY <1>1, <1>3, RisksAre DEF G
<1>7. RisksAreTyped'
  <2>1. RisksAreTyped
    BY <1>2, BaseTypes
  <2> QED
    BY <1>1, <1>5, <1>6, <2>1 DEF RisksAreTyped
<1>8. ASSUME NEW c, NEW i, Held(c, history, i) PROVE Held(c, G, i)
  <2>1. PICK k \in DOMAIN history : history[k] = c /\ (i # NoIntent => k <= i.offset)
    BY <1>8 DEF Held
  <2>2. k \in DOMAIN G
    <3>1. DOMAIN history = 1 .. Len(history) /\ DOMAIN G = 1 .. (Len(history) + 1) /\ Len(history) \in Nat
      BY <1>4, <1>5
    <3> QED
      BY <3>1
  <2>3. G[k] = history[k]
    BY <1>4, <1>5
  <2> QED
    BY <2>1, <2>2, <2>3 DEF Held
<1>9. Survives'
  <2>1. ASSUME NEW l \in risk.latest, NEW i \in risk.pending, NEW c \in known PROVE IsKept(c, G, l, i)
    <3>1. IsKept(c, history, l, i)
      BY <1>2, <1>3 DEF Files, Survives, RisksAreCounted
    <3> QED
      BY <1>8, <3>1 DEF IsKept
  <2> QED
    BY <1>2, <1>6, <2>1 DEF Files, Survives
<1>10. Settled'
  BY <1>1, <1>2 DEF Settled
<1>11. ~HasLine(pending)
  BY <1>2, <1>4 DEF HasLine
<1>12. Declared'
  <2> SUFFICES ASSUME risk.pending # {pending}
               PROVE  /\ pending.cp \notin known
                      /\ \A i \in risk.pending : i.offset <= pending.offset
                      /\ NoIntent \in risk.pending => \A l \in risk.latest :
                           l = NotFound \/ \A h \in risk.history \cup {G} : Held(l, h, pending)
    BY <1>1, <1>2, <1>6 DEF Declared
  <2>1. /\ pending.cp \notin known
        /\ \A i \in risk.pending : i.offset <= pending.offset
        /\ NoIntent \in risk.pending => \A l \in risk.latest :
             l = NotFound \/ \A h \in risk.history : Held(l, h, pending)
    BY <1>2, <1>11 DEF Files, Declared
  <2> QED
    BY <1>3, <1>8, <2>1 DEF RisksAreCounted
<1>13. Standing(p)'
  <2>1. HasLine(txn[p])'
    BY <1>2, <1>4, <1>5, <1>6 DEF HasLine
  <2> QED
    BY <1>1, <1>2, <2>1 DEF Standing, Working
<1> QED
  BY <1>1, <1>7, <1>9, <1>10, <1>12, <1>13, WorkStays DEF Working, Files

LEMMA ReplaceLatestStays == ASSUME PowerInv, NEW p \in Procs, ReplaceLatest(p) PROVE PowerInv'
<1>1. /\ pc[p] = "latest" /\ Goto(p, "synclatest") /\ latest' = txn[p].cp /\ RiskLatest(txn[p].cp)
      /\ UNCHANGED <<history, pending, cut, local, spent>>
  BY DEF ReplaceLatest, At
<1>2. /\ Base /\ Files /\ Standing(p) /\ pc'[p] = "synclatest" /\ txn'[p] = txn[p]
      /\ known' = known /\ txn[p].cp \in Checkpoints /\ pending = txn[p] /\ pending # NoIntent
  BY <1>1, WorkKnows DEF Working
<1>3. RisksAreCounted /\ HasLine(pending) /\ risk.history = {history}
  BY <1>1, <1>2 DEF Base, Standing
<1>4. /\ DOMAIN risk' = {"history", "latest", "pending"}
      /\ risk'.history = risk.history
      /\ risk'.latest = risk.latest \cup {pending.cp} /\ risk'.pending = risk.pending
  BY <1>1, <1>2, <1>3, RisksAre
<1>5. RisksAreTyped'
  <2>1. RisksAreTyped
    BY <1>2, BaseTypes
  <2> QED
    BY <1>1, <1>2, <1>4, <2>1 DEF RisksAreTyped
<1>6. Survives'
  <2>1. ASSUME NEW i \in risk.pending, NEW c \in known PROVE IsKept(c, history, pending.cp, i)
    <3>1. IsKept(c, history, latest, i) /\ IsKept(c, history, latest, pending)
      BY <1>2, <1>3 DEF Files, Survives, RisksAreCounted
    <3> QED
      BY <1>2, <3>1 DEF IsKept
  <2>2. \A h \in risk.history, l \in risk.latest, i \in risk.pending : \A c \in known : IsKept(c, h, l, i)
    BY <1>2 DEF Files, Survives
  <2>3. \A h \in risk'.history, l \in risk'.latest, i \in risk'.pending : \A c \in known' : IsKept(c, h, l, i)
    BY <1>2, <1>3, <1>4, <2>1, <2>2
  <2> QED
    BY <2>3 DEF Survives
<1>7. Settled'
  BY <1>1, <1>2 DEF Settled
<1>8. Declared'
  <2> SUFFICES ASSUME risk.pending # {pending}
               PROVE  /\ pending.cp \notin known
                      /\ \A i \in risk.pending : i.offset <= pending.offset
                      /\ NoIntent \in risk.pending => \A l \in risk.latest \cup {pending.cp} :
                           \/ l = NotFound
                           \/ \A h \in risk.history : Held(l, h, pending)
                           \/ l = pending.cp /\ HasLine(pending) /\ risk.history = {history}
    BY <1>1, <1>2, <1>4 DEF Declared, HasLine
  <2> QED
    BY <1>2, <1>3 DEF Files, Declared
<1>9. Standing(p)'
  BY <1>1, <1>2, <1>3, <1>4 DEF Standing, Working, HasLine
<1> QED
  BY <1>1, <1>5, <1>6, <1>7, <1>8, <1>9, WorkStays DEF Working, Files

\* Without the intent its line is what survives.
LEMMA RemovePendingStays == ASSUME PowerInv, NEW p \in Procs, RemovePending(p) PROVE PowerInv'
<1>1. /\ pc[p] = "unlink" /\ Goto(p, "syncunlink") /\ pending' = NoIntent /\ RiskPending(NoIntent)
      /\ UNCHANGED <<history, latest, cut, local, spent>>
  BY DEF RemovePending, At
<1>2. /\ Base /\ Files /\ Standing(p) /\ pc'[p] = "syncunlink" /\ txn'[p] = txn[p]
      /\ known' = known /\ txn[p].cp \in Checkpoints /\ txn[p].offset \in Nat
      /\ pending = txn[p] /\ pending # NoIntent
  BY <1>1, WorkKnows DEF Working
<1>3. /\ RisksAreCounted /\ HasLine(pending) /\ risk.history = {history} /\ risk.latest = {latest}
      /\ risk.pending = {pending} /\ latest = pending.cp /\ history \in Seq(Lines)
  BY <1>1, <1>2 DEF Base, Standing, Shape
<1>4. /\ DOMAIN risk' = {"history", "latest", "pending"}
      /\ risk'.history = {history} /\ risk'.latest = {latest} /\ risk'.pending = {pending, NoIntent}
  BY <1>1, <1>3, RisksAre
<1>5. RisksAreTyped'
  <2>1. RisksAreTyped
    BY <1>2, BaseTypes
  <2> QED
    BY <1>1, <1>4, <2>1 DEF RisksAreTyped
<1>6. pending.offset + 1 \in DOMAIN history /\ history[pending.offset + 1] = latest
  <2>1. Len(history) = pending.offset + 1 /\ history[pending.offset + 1] = latest
    BY <1>3 DEF HasLine
  <2>2. pending.offset + 1 \in 1 .. Len(history)
    BY <1>2, <2>1
  <2> QED
    BY <1>3, <2>1, <2>2
<1>7. Survives'
  <2>1. ASSUME NEW c \in known PROVE IsKept(c, history, latest, pending) /\ IsKept(c, history, latest, NoIntent)
    <3>1. IsKept(c, history, latest, pending)
      BY <1>2, <1>3 DEF Files, Survives, RisksAreCounted
    <3>2. Held(c, history, NoIntent)
      BY <1>2, <1>3, <1>6, <3>1 DEF IsKept, Held
    <3>3. c.seq <= latest.seq
      BY <1>2, <1>3, <3>1 DEF IsKept
    <3> QED
      BY <3>1, <3>2, <3>3 DEF IsKept
  <2> QED
    BY <1>2, <1>4, <2>1 DEF Survives
<1>8. Settled'
  BY <1>1, <1>3, <1>4, <1>6 DEF Settled, Stored, HasLine
<1>9. Declared'
  BY <1>1 DEF Declared
<1>10. Standing(p)'
  BY <1>1, <1>2, <1>3 DEF Standing, Working
<1> QED
  BY <1>1, <1>5, <1>7, <1>8, <1>9, <1>10, WorkStays DEF Working, Files

LEMMA RepairedStays == ASSUME PowerInv, NEW p \in Procs, Repaired(p) PROVE PowerInv'
<1>0. Base /\ Files /\ Shape /\ Calls /\ Standing(p)
  BY DEF PowerInv, Base
<1>1. /\ pc[p] = "syncunlink" /\ p \in repairing /\ Goto(p, Onward(p)) /\ SyncDir
      /\ repairing' = repairing \ {p} /\ UNCHANGED <<history, latest, pending, cut, request, txn, spent>>
  BY DEF Repaired, At
<1>2. pc'[p] = Onward(p) /\ Onward(p) \in {"check", "read"} /\ UNCHANGED <<lock, known>>
  BY <1>0, <1>1 DEF Goto, Shape, Onward
<1>3. InCall(p)'
  <2>1. /\ lock = p /\ request[p] \in Requests /\ request[p].op # "delete" /\ p \notin repairing'
        /\ request[p].op \in {"save", "load", "delete"}
    BY <1>0, <1>1 DEF Calls, InCall, Requests
  <2> QED
    BY <1>1, <1>2, <2>1 DEF InCall, Onward, Working, Declaring
<1>4. FewerAtRisk
  BY <1>0, <1>1, SyncLessens
<1>5. Files' /\ RisksAreTyped'
  BY <1>0, <1>1, <1>2, <1>4, FewerRisks
<1>6. Standing(p)'
  BY <1>0, <1>1, <1>2 DEF Standing, Working
<1>7. repairing' \subseteq Procs /\ repairing' \ {p} = repairing \ {p}
      /\ txn' \in [Procs -> Intents \cup {NoIntent}]
  BY <1>0, <1>1 DEF Shape
<1>8. Base' /\ \A q \in Procs : Standing(q)'
  BY <1>0, <1>1, <1>2, <1>3, <1>5, <1>6, <1>7, MovesStay DEF Places
<1> QED
  BY <1>5, <1>8 DEF PowerInv

-----------------------------------------------------------------------------
\* The steps of a Save before its repair begins.
LEMMA PrepareStays == ASSUME PowerInv, NEW p \in Procs, Prepare(p) PROVE PowerInv'
<1>0. Base /\ Files /\ Shape /\ Calls /\ Standing(p)
  BY DEF PowerInv, Base
<1>1. /\ pc[p] = "check" /\ Goto(p, "intent")
      /\ latest = NotFound \/ request[p].cp.seq > latest.seq
      /\ txn' = [txn EXCEPT ![p] = [cp |-> request[p].cp, offset |-> Len(history)]]
      /\ UNCHANGED <<history, latest, pending, risk, cut, request, repairing, spent>>
  BY DEF Prepare, At, disk
<1>2. request[p].op = "save" /\ request[p].cp \in Checkpoints /\ p \notin repairing /\ lock = p /\ request[p] \in Requests
  BY <1>0, <1>1 DEF Calls, InCall, Working, Requests
<1>3. /\ pc'[p] = "intent" /\ UNCHANGED <<lock, known>>
      /\ txn'[p] = [cp |-> request[p].cp, offset |-> Len(history)]
  BY <1>0, <1>1 DEF Goto, Shape
<1>4. Len(history) \in Nat
  BY <1>0 DEF Shape
<1>5. [cp |-> request[p].cp, offset |-> Len(history)] \in Intents
  BY <1>2, <1>4 DEF Intents
<1>6. txn'[p] \in Intents /\ txn'[p].cp = request[p].cp /\ txn'[p].offset = Len(history)
  BY <1>3, <1>5
<1>7. InCall(p)'
  BY <1>0, <1>1, <1>2, <1>3, <1>6 DEF InCall, Working, Declaring
<1>8. pending = NoIntent
  BY <1>0, <1>1 DEF Standing
<1>9. request[p].cp.seq > latest.seq
  BY <1>1, <1>2, Kinds
<1>10. Standing(p)'
  BY <1>1, <1>3, <1>6, <1>8, <1>9 DEF Standing, Working
<1>11. Files' /\ RisksAreTyped'
  BY <1>0, <1>1, <1>3, QuietFiles
<1>12. txn' \in [Procs -> Intents \cup {NoIntent}] /\ repairing' \subseteq Procs
  BY <1>0, <1>1, <1>5 DEF Shape
<1>13. Base' /\ \A q \in Procs : Standing(q)'
  BY <1>0, <1>1, <1>7, <1>10, <1>11, <1>12, MovesStay DEF Places
<1> QED
  BY <1>11, <1>13 DEF PowerInv

\* The new intent is newer and starts behind everything that was known before it.
LEMMA DeclareStays == ASSUME PowerInv, NEW p \in Procs, Declare(p) PROVE PowerInv'
<1>0. Base /\ Files /\ Shape /\ Calls /\ RisksAreCounted /\ Standing(p)
  BY DEF PowerInv, Base
<1>1. /\ pc[p] = "intent" /\ Goto(p, "syncintent") /\ pending' = txn[p] /\ RiskPending(txn[p])
      /\ UNCHANGED <<history, latest, cut, local, spent>>
  BY DEF Declare, At
<1>2. pc'[p] = "syncintent" /\ UNCHANGED <<lock, known, request, txn, repairing>>
  BY <1>0, <1>1 DEF Goto, Shape, local
<1>3. InCall(p)'
  BY <1>0, <1>1, <1>2 DEF Calls, InCall, Working, Declaring
<1>4. /\ pending = NoIntent /\ txn[p].offset = Len(history) /\ txn[p].cp.seq > latest.seq
      /\ txn[p] \in Intents /\ known \subseteq Checkpoints /\ history \in Seq(Lines)
  BY <1>0, <1>1 DEF Standing, Calls, InCall, Declaring, Shape
<1>5. /\ txn[p] # NoIntent /\ txn[p].cp \in Checkpoints /\ txn[p].cp.seq \in Nat /\ latest.seq \in Nat
      /\ Len(history) \in Nat /\ \A k \in DOMAIN history : k <= Len(history)
  BY <1>0, <1>4, Kinds DEF Shape
<1>6. /\ risk.history = {history} /\ risk.latest = {latest}
      /\ latest = NotFound \/ Stored(latest, history)
      /\ \A i \in risk.pending : i = NoIntent \/ (i.cp = latest /\ HasLine(i))
  BY <1>0, <1>4 DEF Files, Settled
<1>7. /\ DOMAIN risk' = {"history", "latest", "pending"}
      /\ risk'.history = {history} /\ risk'.latest = {latest}
      /\ risk'.pending = risk.pending \cup {txn[p]}
  BY <1>0, <1>1, <1>6, RisksAre
<1>8. RisksAreTyped'
  <2>1. RisksAreTyped
    BY <1>0, BaseTypes
  <2> QED
    BY <1>1, <1>4, <1>7, <2>1 DEF RisksAreTyped
<1>9. ASSUME NEW c \in known PROVE Held(c, history, txn[p]) /\ c.seq <= latest.seq
  <2>1. IsKept(c, history, latest, NoIntent)
    BY <1>0, <1>4 DEF Files, Survives, RisksAreCounted
  <2>2. c # NotFound
    BY <1>4, Kinds
  <2>3. Held(c, history, NoIntent) /\ c.seq <= latest.seq
    BY <2>1, <2>2, Kinds DEF IsKept
  <2> QED
    BY <1>4, <1>5, <2>3 DEF Held
<1>10. Survives'
  <2>1. ASSUME NEW c \in known PROVE IsKept(c, history, latest, txn[p])
    <3>1. c.seq \in Nat
      BY <1>4, Kinds
    <3>2. c.seq <= txn[p].cp.seq
      BY <1>4, <1>5, <1>9, <3>1
    <3> QED
      BY <1>5, <1>9, <3>2 DEF IsKept
  <2> QED
    BY <1>0, <1>2, <1>6, <1>7, <2>1 DEF Files, Survives
<1>11. Settled'
  BY <1>1, <1>5 DEF Settled
<1>12. Declared'
  <2>1. txn[p].cp \notin known
    BY <1>4, <1>5, <1>9
  <2>2. ASSUME NEW i \in risk.pending \cup {txn[p]} PROVE i.offset <= txn[p].offset
    <3>1. CASE i = NoIntent
      BY <1>4, <1>5, <3>1 DEF NoIntent
    <3>2. CASE i = txn[p]
      BY <1>4, <1>5, <3>2
    <3>3. CASE i \in risk.pending /\ i # NoIntent
      <4>1. i.offset \in Nat
        BY <1>0, <3>3, Kinds DEF Base
      <4>2. Len(history) = i.offset + 1
        BY <1>6, <3>3 DEF HasLine
      <4> QED
        BY <1>4, <4>1, <4>2
    <3> QED
      BY <2>2, <3>1, <3>2, <3>3
  <2>3. latest = NotFound \/ Held(latest, history, txn[p])
    BY <1>4, <1>5, <1>6 DEF Stored, Held
  <2> QED
    BY <1>1, <1>2, <1>7, <2>1, <2>2, <2>3 DEF Declared
<1>13. Standing(p)'
  BY <1>1, <1>2 DEF Standing, Working
<1>14. /\ repairing' \subseteq Procs /\ txn' \in [Procs -> Intents \cup {NoIntent}]
  BY <1>0, <1>2 DEF Shape
<1>15. Base' /\ \A q \in Procs : Standing(q)'
  BY <1>0, <1>1, <1>2, <1>3, <1>8, <1>13, <1>14, MovesStay DEF Places
<1> QED
  BY <1>10, <1>11, <1>12, <1>15 DEF PowerInv, Files

LEMMA SyncIntentStays == ASSUME PowerInv, NEW p \in Procs, SyncIntent(p) PROVE PowerInv'
<1>0. Base /\ Files /\ Shape /\ Calls /\ Standing(p)
  BY DEF PowerInv, Base
<1>1. /\ pc[p] = "syncintent" /\ Goto(p, "apply") /\ SyncDir
      /\ UNCHANGED <<history, latest, pending, cut, local, spent>>
  BY DEF SyncIntent, At
<1>2. pc'[p] = "apply" /\ UNCHANGED <<lock, known, request, txn, repairing>>
  BY <1>0, <1>1 DEF Goto, Shape, local
<1>3. InCall(p)'
  BY <1>0, <1>1, <1>2 DEF Calls, InCall, Working, Declaring
<1>4. Files' /\ RisksAreTyped'
  BY <1>0, <1>1, <1>2, SyncLessens, FewerRisks
<1>5. Standing(p)'
  BY <1>0, <1>1, <1>2 DEF Standing, Working
<1>6. repairing' \subseteq Procs /\ txn' \in [Procs -> Intents \cup {NoIntent}]
  BY <1>0, <1>2 DEF Shape
<1>7. Base' /\ \A q \in Procs : Standing(q)'
  BY <1>0, <1>1, <1>2, <1>3, <1>4, <1>5, <1>6, MovesStay DEF Places
<1> QED
  BY <1>4, <1>7 DEF PowerInv

-----------------------------------------------------------------------------
\* A failing step or a death leaves at most the torn line that was counted.
LEMMA TornStays ==
  ASSUME PowerInv, NEW p \in Procs, pc[p] # "idle", Leave(p), TornBy(p), known' = known,
         reply' \in Replies \cup {NoReply}, spent' \in [faults : Nat, power : Nat, deletes : Nat]
  PROVE  PowerInv'
<1>0. Base /\ Files /\ Shape /\ Calls /\ RisksAreCounted /\ Standing(p)
  BY DEF PowerInv, Base
<1>1. /\ history' = history \/ (pc[p] = "write" /\ history' = Append(history, Torn))
      /\ UNCHANGED <<latest, pending, risk, cut>>
  BY DEF TornBy, At
<1>2. Files' /\ RisksAreTyped'
  <2>1. CASE history' = history
    BY <1>0, <1>1, <2>1, QuietFiles
  <2>2. CASE pc[p] = "write" /\ history' = Append(history, Torn)
    <3>1. /\ txn[p] \in Intents /\ pending = txn[p] /\ pending # NoIntent /\ Len(history) = pending.offset
      BY <1>0, <2>2, Kinds DEF Standing, Calls, InCall, Working
    <3>2. ~HasLine(pending)
      <4>1. pending.offset \in Nat
        BY <3>1, Kinds
      <4> QED
        BY <3>1, <4>1 DEF HasLine
    <3>3. Survives'
      BY <1>0, <1>1 DEF Files, Survives
    <3>4. Settled'
      BY <1>1, <3>1 DEF Settled
    <3>5. Declared'
      BY <1>0, <1>1, <3>2 DEF Files, Declared
    <3>6. Append(history, Torn) \in risk.history
      BY <1>0, <2>2 DEF RisksAreCounted
    <3>7. RisksAreTyped'
      BY <1>0, <1>1, <2>2, <3>6, BaseTypes DEF RisksAreTyped
    <3> QED
      BY <3>3, <3>4, <3>5, <3>7 DEF Files
  <2> QED
    BY <1>1, <2>1, <2>2
<1>3. known' \subseteq Checkpoints
  BY <1>0 DEF Shape
<1>4. Base' /\ \A q \in Procs : Standing(q)'
  BY <1>0, <1>1, <1>2, <1>3, LeavesStay
<1> QED
  BY <1>2, <1>4 DEF PowerInv

LEMMA FailStays == ASSUME PowerInv, NEW p \in Procs, Fail(p) PROVE PowerInv'
<1>0. Shape /\ Calls
  BY DEF PowerInv, Base
<1>1. pc[p] # "idle" /\ TornBy(p) /\ Answer(p, "error", NotFound) /\ spent' = [spent EXCEPT !.faults = @ + 1]
  BY DEF Fail, At, Fault
<1>2. Leave(p) /\ reply' \in Replies \cup {NoReply}
  BY <1>0, <1>1, AnswerTells
<1>3. known' = known
  BY <1>1 DEF Answer
<1>4. spent' \in [faults : Nat, power : Nat, deletes : Nat]
  BY <1>0, <1>1 DEF Shape
<1> QED
  BY <1>1, <1>2, <1>3, <1>4, TornStays

LEMMA DieStays == ASSUME PowerInv, NEW p \in Procs, Die(p) PROVE PowerInv'
<1>1. /\ pc[p] # "idle" /\ TornBy(p) /\ Leave(p) /\ UNCHANGED <<reply, known>>
      /\ spent' = [spent EXCEPT !.faults = @ + 1]
  BY DEF Die, At, Fault
<1>2. spent' \in [faults : Nat, power : Nat, deletes : Nat] /\ reply' \in Replies \cup {NoReply}
  BY <1>1 DEF PowerInv, Base, Shape
<1> QED
  BY <1>1, <1>2, TornStays

\* A loss of power leaves one of what was at risk, of each file its own.
LEMMA PowerFailsStays == ASSUME PowerInv, PowerFails PROVE PowerInv'
<1>0. Base /\ Files /\ Shape /\ Calls /\ RisksAreTyped /\ RisksAreCounted
  BY BaseTypes DEF PowerInv, Base
<1>1. /\ history' \in risk.history /\ latest' \in risk.latest /\ pending' \in risk.pending
      /\ risk' = [history |-> {history'}, latest |-> {latest'}, pending |-> {pending'}]
      /\ lock' = Nobody /\ pc' = [p \in Procs |-> "idle"]
      /\ request' = [p \in Procs |-> NoRequest] /\ txn' = [p \in Procs |-> NoIntent]
      /\ repairing' = {} /\ UNCHANGED <<reply, known, cut>>
      /\ spent' = [spent EXCEPT !.power = @ + 1]
  BY DEF PowerFails
<1>2. /\ DOMAIN risk' = {"history", "latest", "pending"}
      /\ risk'.history = {history'} /\ risk'.latest = {latest'} /\ risk'.pending = {pending'}
  BY <1>1
<1>3. RisksAreTyped'
  BY <1>0, <1>1, <1>2 DEF RisksAreTyped
<1>4. Shape'
  <2>1. spent' \in [faults : Nat, power : Nat, deletes : Nat]
    BY <1>0, <1>1 DEF Shape
  <2>2. /\ pc' \in [Procs -> Places] /\ request' \in [Procs -> Requests \cup {NoRequest}]
        /\ txn' \in [Procs -> Intents \cup {NoIntent}]
    BY <1>1 DEF Places
  <2> QED
    BY <1>0, <1>1, <1>3, <2>1, <2>2 DEF Shape, RisksAreTyped
<1>5. \A q \in Procs : pc'[q] = "idle" /\ request'[q] = NoRequest
  BY <1>1
<1>6. RisksAreCounted'
  BY <1>2, <1>5 DEF RisksAreCounted
<1>7. Calls'
  <2>1. Nobody \notin Procs /\ NoRequest.op = "none"
    BY JournalAssumption DEF Nobody, NoRequest
  <2> QED
    BY <1>1, <1>5, <2>1 DEF Calls, InCall, Working, Declaring
<1>8. Base'
  BY <1>0, <1>1, <1>3, <1>4, <1>5, <1>6, <1>7 DEF Base, RisksAreTyped
<1>9. Survives'
  BY <1>0, <1>1, <1>2 DEF Files, Survives
<1>10. Settled'
  <2> SUFFICES ASSUME pending' = NoIntent PROVE latest' = NotFound \/ Stored(latest', history')
    BY <1>2 DEF Settled
  <2>1. CASE pending = NoIntent
    BY <1>0, <1>1, <2>1 DEF Files, Settled
  <2>2. CASE pending # NoIntent
    <3>1. NoIntent \in risk.pending /\ risk.pending # {pending}
      BY <1>1, <2>2
    <3>2. \/ latest' = NotFound
          \/ Held(latest', history', pending)
          \/ latest' = pending.cp /\ HasLine(pending) /\ history' = history
      BY <1>0, <1>1, <2>2, <3>1 DEF Files, Declared
    <3>3. CASE latest' = pending.cp /\ HasLine(pending) /\ history' = history
      <4>1. Len(history) = pending.offset + 1 /\ history[pending.offset + 1] = pending.cp
        BY <3>3 DEF HasLine
      <4>2. pending.offset \in Nat /\ history \in Seq(Lines)
        BY <1>0, <2>2, Kinds DEF Shape
      <4>3. pending.offset + 1 \in 1 .. Len(history)
        BY <4>1, <4>2
      <4> QED
        BY <3>3, <4>1, <4>2, <4>3 DEF Stored
    <3> QED
      BY <3>2, <3>3 DEF Held, Stored
  <2> QED
    BY <2>1, <2>2
<1>11. Declared'
  BY <1>2 DEF Declared
<1>12. \A q \in Procs : Standing(q)'
  BY <1>5 DEF Standing, Working
<1> QED
  BY <1>8, <1>9, <1>10, <1>11, <1>12 DEF PowerInv, Files

-----------------------------------------------------------------------------
\* No Delete runs, and every other step keeps what survives.
LEMMA NothingDeletes == ASSUME PowerInv, NEW p \in Procs PROVE ~Unlink(p) /\ ~Deleted(p)
BY DEF PowerInv, Base, Unlink, Deleted, At

LEMMA StepStays == ASSUME PowerInv, MaxDeletes = 0, NEW p \in Procs, Step(p) PROVE PowerInv'
BY EnterStays, RecoverStays, ShrunkStays, SkipLineStays, TruncateStays, WriteLineStays, FlushStays,
   ReplaceLatestStays, SyncLatestStays, RemovePendingStays, RepairedStays, SavedStays, RetriedStays,
   StaleStays, PrepareStays, DeclareStays, SyncIntentStays, LoadStays, LoadAtStays, NothingDeletes,
   FailStays, DieStays
   DEF Step

LEMMA StutterStays == ASSUME PowerInv, UNCHANGED vars PROVE PowerInv'
<1>1. /\ UNCHANGED <<history, latest, pending, risk, cut, lock, pc, request, txn, repairing, reply, known, spent>>
  BY DEF vars, disk, local
<1>2. Files' /\ RisksAreTyped'
  BY <1>1, QuietFiles DEF PowerInv
<1>3. Shape' /\ RisksAreCounted'
  BY <1>1 DEF PowerInv, Base, Shape, RisksAreCounted
<1>4. Calls'
  BY <1>1 DEF PowerInv, Base, Calls, InCall
<1>5. Base'
  BY <1>1, <1>2, <1>3, <1>4 DEF PowerInv, Base, RisksAreTyped
<1>6. \A q \in Procs : Standing(q)'
  BY <1>1 DEF PowerInv, Standing, HasLine
<1> QED
  BY <1>2, <1>5, <1>6 DEF PowerInv

LEMMA PowerInitially == ASSUME Init PROVE PowerInv
<1>1. Inv
  BY Initially
<1>2. Shape /\ RisksAreCounted /\ Calls
  BY <1>1 DEF Inv
<1>3. /\ history = <<>> /\ latest = NotFound /\ pending = NoIntent /\ known = {} /\ ~cut
      /\ risk.history = {<<>>} /\ risk.latest = {NotFound} /\ risk.pending = {NoIntent}
      /\ \A p \in Procs : pc[p] = "idle"
  BY DEF Init
<1>4. Base
  BY <1>2, <1>3 DEF Base, Shape
<1>5. Files
  BY <1>3 DEF Files, Survives, Settled, Declared
<1> QED
  BY <1>3, <1>4, <1>5, IdleStands DEF PowerInv

LEMMA PowerImpliesKept == ASSUME PowerInv PROVE KnownIsKept
<1> SUFFICES ASSUME NEW cp \in known
             PROVE  /\ pending.cp = cp \/ \E i \in DOMAIN history : history[i] = cp
                    /\ cp.seq <= latest.seq \/ cp.seq <= pending.cp.seq
  BY DEF KnownIsKept
<1>1. IsKept(cp, history, latest, pending)
  BY DEF PowerInv, Files, Survives, Base, RisksAreCounted
<1> QED
  BY <1>1 DEF IsKept, Held

\* The inductive invariant under losses of power, of any number, between any two steps.
THEOREM PowerInvariance == ASSUME MaxDeletes = 0 PROVE Spec => []PowerInv
<1>1. Init => PowerInv
  BY PowerInitially
<1>2. PowerInv /\ [Next]_vars => PowerInv'
  BY StepStays, PowerFailsStays, StutterStays DEF Next
<1> QED
  BY <1>1, <1>2, PTL DEF Spec

\* Where nothing is deleted, a checkpoint somebody was told of is still stored after any
\* losses of power, deaths and failing steps, whichever version of each file they leave,
\* and a resume starts at it or at a newer one (store.go:88-131, 398-475).
THEOREM ReportedCheckpointsSurvive == ASSUME MaxDeletes = 0 PROVE Spec => []KnownIsKept
BY PowerInvariance, PowerImpliesKept, PTL
=============================================================================
