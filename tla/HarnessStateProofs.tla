-------------------------- MODULE HarnessStateProofs --------------------------
(***************************************************************************)
(* What the run stores can be loaded again, and nothing that it has stored *)
(* is lost, for any number of steps, retries, launches and faults and any  *)
(* length of the attempt history.                                          *)
(*                                                                         *)
(* A load demands that the attempts of a state have different identities   *)
(* and that a retry and the attempt it replaces name each other.  What is  *)
(* inductive is that the history with the current attempt behind it is a   *)
(* chain: each attempt is the successor of the one before it, and linked   *)
(* to it if it replaced it.  A chain stays one when its first attempt is   *)
(* dropped and that attempt's link is cut.                                 *)
(***************************************************************************)
EXTENDS HarnessRunProofs

\* The attempts of a state, the current one last.
Held(s) == IF s.attempt = NoAttempt THEN s.history ELSE Append(s.history, s.attempt)

\* Attempt b has the identity that is given d attempts after that of a.
Round == HistoryLimit + 2
After(a, b, d) == b.id - a.id \in {d, d - Round}

Succeeds(a, b) ==
  IF a.status = "superseded" THEN Linked(b, a) ELSE a.replacement = 0 /\ b.replaces = 0

Chained(q) ==
  /\ \A i \in 1 .. Len(q) : q[i].id \in 1 .. Round
  /\ \A i, j \in 1 .. Len(q) : i < j => After(q[i], q[j], j - i)
  /\ \A i \in 1 .. Len(q) - 1 : Succeeds(q[i], q[i + 1])
  /\ q # <<>> => q[1].replaces = 0

Current == {"started", "streaming", "interrupted", "superseded"}
Past == {"committed", "superseded"}

Orderly(s) ==
  /\ Len(s.history) <= HistoryLimit /\ Chained(Held(s))
  /\ \A i \in 1 .. Len(s.history) : s.history[i].status \in Past /\ s.history[i].step <= s.step
  /\ s.attempt = NoAttempt /\ s.history # <<>> =>
       LET newest == s.history[Len(s.history)]
       IN  newest.status = "committed" /\ newest.replacement = 0
  /\ s.attempt # NoAttempt =>
       /\ s.attempt.step = s.step /\ s.attempt.status \in Current
       /\ s.attempt.replacement = 0

\* Outside a resume and a model call there is no attempt that has not been settled.
NoneOpen(s) == s.attempt = NoAttempt \/ Superseded(s)
Settling == {"down", "enter", "resume", "attempt", "reawait", "requeue", "rerecord", "stream",
             "fail", "cancel", "report"}
AttemptAt(p, s) ==
  /\ p = "stream" => s.attempt.status \in {"started", "streaming"}
  /\ p \notin Settling => NoneOpen(s)
  /\ p \in {"call", "stream", "blocked"} => s.phase # "created"

\* The first attempt comes after the first step has begun.
Begun(s) == s.phase = "created" => s.attempt = NoAttempt

\* Nothing of state k is missing from state s.
Ahead(k, s) ==
  /\ s.step >= k.step /\ k.asked \subseteq s.asked
  /\ \A c \in CallIds : s.answers[c] >= k.answers[c]
  /\ k.approved \subseteq s.approved /\ k.granted \subseteq s.granted

StateInv ==
  /\ Orderly(st) /\ Orderly(ckpt) /\ Begun(st) /\ Begun(ckpt)
  /\ AttemptAt(pc, st)
  /\ pc # "down" => Ahead(ckpt, st)

-----------------------------------------------------------------------------
\* Sequences of attempts.
LEMMA LimitType == HistoryLimit \in Nat \ {0} /\ Round \in Nat
BY HistoryAssumption DEF Round

LEMMA AttemptFields ==
  ASSUME NEW a \in Attempts
  PROVE  a.id \in Nat /\ a.step \in Nat /\ a.replaces \in Nat /\ a.replacement \in Nat
BY BoundsAssumption DEF Attempts

LEMMA Extended ==
  ASSUME NEW q \in Seq(Attempts), NEW a \in Attempts
  PROVE  /\ Append(q, a) \in Seq(Attempts) /\ Len(Append(q, a)) = Len(q) + 1 /\ Append(q, a) # <<>>
         /\ \A i \in 1 .. Len(q) : Append(q, a)[i] = q[i]
         /\ Append(q, a)[Len(q) + 1] = a
<1>1. /\ Append(q, a) \in Seq(Attempts) /\ Len(Append(q, a)) = Len(q) + 1
      /\ \A i \in 1 .. Len(q) : Append(q, a)[i] = q[i]
      /\ Append(q, a)[Len(q) + 1] = a
  BY AppendProperties
<1>2. Append(q, a) # <<>>
  <2>1. Len(q) + 1 # 0
    BY LenProperties
  <2> QED
    BY <1>1, <2>1
<1> QED
  BY <1>1, <1>2

LEMMA HeldType == ASSUME NEW s \in RunStates PROVE Held(s) \in Seq(Attempts)
<1>1. s.history \in Seq(Attempts) /\ s.attempt \in Attempts
  BY DEF RunStates
<1> QED
  BY <1>1, Extended DEF Held

\* A chain grows by the attempt that comes next.
LEMMA ChainGrows ==
  ASSUME NEW q \in Seq(Attempts), Chained(q), Len(q) <= HistoryLimit + 1, NEW a \in Attempts,
         a.id \in 1 .. Round,
         q # <<>> => After(q[Len(q)], a, 1) /\ Succeeds(q[Len(q)], a),
         q = <<>> => a.replaces = 0
  PROVE  Chained(Append(q, a))
<1> DEFINE r == Append(q, a)
           n == Len(q)
<1>1. /\ r \in Seq(Attempts) /\ Len(r) = n + 1 /\ r # <<>> /\ r[n + 1] = a
      /\ \A i \in 1 .. n : r[i] = q[i]
  BY Extended
<1>2. n \in Nat /\ Round \in Nat /\ Round = HistoryLimit + 2 /\ HistoryLimit \in Nat
  BY LimitType, LenProperties DEF Round
<1>3. \A i \in 1 .. n : q[i].id \in 1 .. Round
  BY DEF Chained
<1> HIDE DEF r
<1>4. \A i \in 1 .. n + 1 : r[i].id \in 1 .. Round
  <2>1. \A i \in 1 .. n + 1 : i \in 1 .. n \/ i = n + 1
    BY <1>2
  <2> QED
    BY <1>1, <1>3, <2>1
<1>5. ASSUME NEW i \in 1 .. n + 1, NEW j \in 1 .. n + 1, i < j PROVE After(r[i], r[j], j - i)
  <2>1. i \in 1 .. n
    BY <1>2, <1>5
  <2>2. CASE j \in 1 .. n
    BY <1>1, <1>5, <2>1, <2>2 DEF Chained
  <2>3. CASE j = n + 1
    <3>1. n \in 1 .. n /\ q # <<>> /\ q[n].id \in 1 .. Round
      BY <1>2, <1>3, <2>1
    <3>2. a.id - q[n].id \in {1, 1 - Round}
      BY <3>1 DEF After
    <3>3. CASE i = n
      BY <1>1, <1>2, <2>1, <2>3, <3>1, <3>3
    <3>4. CASE i < n
      <4>1. q[n].id - q[i].id \in {n - i, n - i - Round}
        BY <2>1, <3>1, <3>4 DEF Chained, After
      <4>2. q[i].id \in 1 .. Round
        BY <1>3, <2>1
      <4>3. a.id - q[i].id = (n - i) + 1 \/ a.id - q[i].id = ((n - i) + 1) - Round
        <5>1. /\ q[n].id - q[i].id = n - i \/ q[n].id - q[i].id = n - i - Round
              /\ a.id - q[n].id = 1 \/ a.id - q[n].id = 1 - Round
          BY <3>2, <4>1
        <5>2. /\ q[i].id \in Int /\ q[n].id \in Int /\ a.id \in Int /\ n - i \in Int /\ Round \in Int
              /\ (n - i) + 1 < Round
              /\ 1 <= a.id /\ a.id <= Round /\ 1 <= q[i].id /\ q[i].id <= Round
          BY <1>2, <2>1, <3>1, <3>4, <4>2
        <5> DEFINE d == n - i
                   x == q[i].id
                   y == q[n].id
                   z == a.id
        <5>4. /\ d \in Int /\ d + 1 < Round /\ Round \in Int
              /\ x \in Int /\ y \in Int /\ z \in Int /\ 1 <= x /\ x <= Round /\ 1 <= z /\ z <= Round
          BY <5>2
        <5>5. (y - x = d \/ y - x = d - Round) /\ (z - y = 1 \/ z - y = 1 - Round)
          BY <5>1
        <5>6. z - x = d + 1 \/ z - x = (d + 1) - Round
          <6> HIDE DEF d, x, y, z
          <6> QED
            BY <5>4, <5>5
        <5> QED
          BY <5>6
      <4> QED
        <5>1. r[j].id - r[i].id \in {(n - i) + 1, ((n - i) + 1) - Round}
          BY <1>1, <2>1, <2>3, <4>3
        <5>2. j - i = (n - i) + 1
          BY <1>2, <2>1, <2>3
        <5> QED
          BY <5>1, <5>2, Zenon DEF After
    <3> QED
      BY <1>2, <2>1, <3>3, <3>4
  <2> QED
    BY <1>2, <2>2, <2>3
<1>6. ASSUME NEW i \in 1 .. n PROVE Succeeds(r[i], r[i + 1])
  <2>1. CASE i \in 1 .. n - 1
    <3>1. i + 1 \in 1 .. n
      BY <1>2, <2>1
    <3> QED
      BY <1>1, <2>1, <3>1 DEF Chained
  <2>2. CASE i = n
    <3>1. q # <<>>
      BY <1>2, <2>2
    <3> QED
      BY <1>1, <2>2, <3>1
  <2> QED
    BY <1>2, <2>1, <2>2
<1>7. r[1].replaces = 0
  <2>1. CASE q = <<>>
    BY <1>1, <2>1
  <2>2. CASE q # <<>>
    <3>1. 1 \in 1 .. n
      BY <1>2, <2>2, EmptySeq
    <3> QED
      BY <1>1, <2>2, <3>1 DEF Chained
  <2> QED
    BY <2>1, <2>2
<1>8. n + 1 - 1 = n
  BY <1>2
<1>9. Chained(r)
  BY <1>1, <1>4, <1>5, <1>6, <1>7, <1>8 DEF Chained
<1> QED
  BY <1>9 DEF r

\* It stays one when its last attempt changes in anything but identity and link.
LEMMA LastChanges ==
  ASSUME NEW q \in Seq(Attempts), NEW a \in Attempts, Chained(Append(q, a)),
         NEW b \in Attempts, b.id = a.id, b.replaces = a.replaces
  PROVE  Chained(Append(q, b))
<1> DEFINE r == Append(q, a)
           t == Append(q, b)
           n == Len(q)
<1>1. /\ Len(r) = n + 1 /\ r[n + 1] = a /\ Len(t) = n + 1 /\ t[n + 1] = b
      /\ \A i \in 1 .. n : r[i] = q[i] /\ t[i] = q[i]
      /\ r # <<>> /\ n \in Nat
  BY Extended, LenProperties
<1>2. Chained(r)
  OBVIOUS
<1> HIDE DEF r, t, n
<1>3. \A i \in 1 .. n + 1 : t[i].id = r[i].id /\ t[i].replaces = r[i].replaces
  BY <1>1
<1>4. \A i \in 1 .. n + 1 : t[i].id \in 1 .. Round
  BY <1>1, <1>2, <1>3 DEF Chained
<1>5. ASSUME NEW i \in 1 .. n + 1, NEW j \in 1 .. n + 1, i < j PROVE After(t[i], t[j], j - i)
  <2>1. After(r[i], r[j], j - i)
    BY <1>1, <1>2, <1>5 DEF Chained
  <2> QED
    BY <1>3, <2>1 DEF After
<1>6. ASSUME NEW i \in 1 .. (n + 1) - 1 PROVE Succeeds(t[i], t[i + 1])
  <2>1. Succeeds(r[i], r[i + 1])
    BY <1>1, <1>2, <1>6 DEF Chained
  <2>2. i \in 1 .. n /\ i + 1 \in 1 .. n + 1
    BY <1>1, <1>6
  <2>3. t[i] = r[i]
    BY <1>1, <2>2
  <2> QED
    BY <1>3, <2>1, <2>2, <2>3 DEF Succeeds, Linked
<1>7. t[1].replaces = 0
  <2>1. r[1].replaces = 0 /\ 1 \in 1 .. n + 1
    BY <1>1, <1>2 DEF Chained
  <2> QED
    BY <1>3, <2>1
<1>8. Chained(t)
  BY <1>1, <1>4, <1>5, <1>6, <1>7 DEF Chained
<1> QED
  BY <1>8 DEF t

\* It stays one when its first attempt is dropped and the link to it is cut.
LEMMA ChainCut ==
  ASSUME NEW q \in Seq(Attempts), Chained(q), NEW n \in Nat \ {0}, Len(q) = n + 1,
         NEW r \in Seq(Attempts), Len(r) = n, r[1] = [q[2] EXCEPT !.replaces = 0],
         \A i \in 2 .. n : r[i] = q[i + 1]
  PROVE  Chained(r)
<1>1. \A i \in 1 .. n : q[i + 1] \in Attempts
  BY ElementOfSeq
<1>2. ASSUME NEW i \in 1 .. n
      PROVE  /\ r[i].id = q[i + 1].id /\ r[i].status = q[i + 1].status
             /\ r[i].replacement = q[i + 1].replacement
             /\ r[i].replaces = IF i = 1 THEN 0 ELSE q[i + 1].replaces
  <2>1. CASE i = 1
    <3>1. q[2] \in Attempts /\ i + 1 = 2
      BY <1>1, <2>1
    <3>2. r[i] = [q[2] EXCEPT !.replaces = 0]
      BY <2>1
    <3> HIDE <2>1
    <3> QED
      BY <2>1, <3>1, <3>2 DEF Attempts
  <2>2. CASE i # 1
    <3>1. i \in 2 .. n
      BY <2>2
    <3> QED
      BY <2>2, <3>1
  <2> QED
    BY <2>1, <2>2
<1>3. ASSUME NEW i \in 1 .. n PROVE i + 1 \in 1 .. Len(q) /\ (i < n => i + 1 \in 1 .. Len(q) - 1)
  OBVIOUS
<1>4. \A i \in 1 .. n : r[i].id \in 1 .. Round
  BY <1>2, <1>3 DEF Chained
<1>5. ASSUME NEW i \in 1 .. n, NEW j \in 1 .. n, i < j PROVE After(r[i], r[j], j - i)
  <2>1. (j + 1) - (i + 1) = j - i /\ i + 1 < j + 1
    BY <1>5
  <2>2. After(q[i + 1], q[j + 1], (j + 1) - (i + 1))
    BY <1>3, <2>1 DEF Chained
  <2>3. r[j].id - r[i].id = q[j + 1].id - q[i + 1].id
    BY <1>2
  <2> QED
    BY <2>1, <2>2, <2>3, Zenon DEF After
<1>6. ASSUME NEW i \in 1 .. n - 1 PROVE Succeeds(r[i], r[i + 1])
  <2>1. Succeeds(q[i + 1], q[(i + 1) + 1])
    BY <1>3, <1>6 DEF Chained
  <2>2. i \in 1 .. n /\ i + 1 \in 1 .. n /\ i + 1 # 1
    BY <1>6
  <2> QED
    BY <1>2, <2>1, <2>2 DEF Succeeds, Linked
<1>7. r[1].replaces = 0
  BY <1>2
<1> QED
  BY <1>4, <1>5, <1>6, <1>7 DEF Chained

-----------------------------------------------------------------------------
\* AppendAttempt keeps the newest HistoryLimit attempts of a chain, a chain.

\* Attempt b is attempt a, its link to the attempt before perhaps cut.
Cut(b, a) == b = a \/ b = [a EXCEPT !.replaces = 0]

LEMMA Appended ==
  ASSUME NEW h \in Seq(Attempts), Len(h) <= HistoryLimit, NEW a \in Attempts,
         Chained(Append(h, a))
  PROVE  LET r == AppendAttempt(h, a)
         IN  /\ r \in Seq(Attempts) /\ Len(r) \in 1 .. HistoryLimit /\ Chained(r)
             /\ Cut(r[Len(r)], a)
             /\ \A i \in 1 .. Len(r) - 1 : \E j \in 1 .. Len(h) : Cut(r[i], h[j])
<1> DEFINE n == HistoryLimit
           all == Append(h, a)
           r == AppendAttempt(h, a)
<1>1. /\ all \in Seq(Attempts) /\ Len(all) = Len(h) + 1 /\ Len(h) \in Nat
      /\ n \in Nat \ {0} /\ Chained(all)
      /\ \A i \in 1 .. Len(h) : all[i] = h[i]
      /\ all[Len(h) + 1] = a
  BY Extended, LimitType, LenProperties
<1> HIDE DEF all, n
<1>2. CASE Len(all) <= n
  <2>1. r = all
    BY <1>2 DEF AppendAttempt, all, n
  <2> HIDE DEF r
  <2> QED
    BY <1>1, <1>2, <2>1 DEF Cut, n, r
<1>3. CASE Len(all) > n
  <2>1. Len(all) = n + 1 /\ Len(h) = n /\ Len(all) - n + 1 = 2
    BY <1>1, <1>3 DEF n
  <2>2. r = [SubSeq(all, 2, n + 1) EXCEPT ![1].replaces = 0]
    <3>1. ~(Len(all) <= n)
      BY <1>1, <1>3
    <3>2. r = [SubSeq(all, Len(all) - n + 1, Len(all)) EXCEPT ![1].replaces = 0]
      BY <3>1, Zenon DEF AppendAttempt, all, n
    <3> QED
      BY <2>1, <3>2, Zenon
  <2> HIDE DEF r
  <2>3. /\ r \in Seq(Attempts) /\ Len(r) = n /\ r[1] = [all[2] EXCEPT !.replaces = 0]
        /\ \A i \in 2 .. n : r[i] = all[i + 1]
    <3> DEFINE k == SubSeq(all, 2, n + 1)
    <3>1. \A i \in 2 .. n + 1 : all[i] \in Attempts
      BY <1>1, <2>1, ElementOfSeq
    <3>2. /\ k \in Seq(Attempts) /\ Len(k) = n
          /\ \A i \in 1 .. n : k[i] = all[i + 1]
      BY <1>1, <2>1, <3>1, SubSeqProperties
    <3>3. r = [k EXCEPT ![1].replaces = 0]
      BY <2>2
    <3> HIDE DEF k
    <3>4. 1 \in 1 .. n /\ 1 + 1 = 2
      BY <1>1
    <3>5. k \in [1 .. n -> Attempts] /\ k[1] = all[2]
      BY <3>2, <3>4, LenProperties
    <3>6. r \in Seq(Attempts)
      BY <3>2, <3>3, <3>4, UnlinkType
    <3>7. DOMAIN r = 1 .. n
      BY <3>3, <3>5
    <3>8. Len(r) = n
      BY <1>1, <3>6, <3>7, LenProperties
    <3> QED
      BY <3>2, <3>3, <3>4, <3>5, <3>6, <3>8
  <2>4. Chained(r)
    BY <1>1, <2>1, <2>3, ChainCut
  <2>5. \A i \in 1 .. n : Cut(r[i], all[i + 1])
    BY <1>1, <2>3 DEF Cut
  <2>6. Cut(r[n], a) /\ \A i \in 1 .. n - 1 : Cut(r[i], h[i + 1]) /\ i + 1 \in 1 .. Len(h)
    BY <1>1, <2>1, <2>5
  <2> QED
    BY <1>1, <2>3, <2>4, <2>6 DEF n, r
<1> QED
  BY <1>1, <1>2, <1>3

-----------------------------------------------------------------------------
\* What the steps do to the attempts of a state.

LEMMA OrderlySame ==
  ASSUME NEW s, Orderly(s), NEW t,
         t.attempt = s.attempt, t.history = s.history, t.step = s.step
  PROVE  Orderly(t)
BY DEF Orderly, Held

LEMMA FreshOrderly == Orderly(FreshState) /\ Orderly(NoCheckpoint)
<1>1. /\ FreshState.attempt = NoAttempt /\ FreshState.history = <<>>
      /\ NoCheckpoint.attempt = NoAttempt /\ NoCheckpoint.history = <<>>
  BY DEF FreshState, NoCheckpoint
<1>2. Chained(<<>>) /\ Len(<<>>) = 0
  BY DEF Chained
<1> QED
  BY <1>1, <1>2, LimitType DEF Orderly, Held

\* Outside a turn, the next step may begin.
LEMMA OrderlyStep ==
  ASSUME NEW s \in RunStates, Orderly(s), s.attempt = NoAttempt, NEW t,
         t.attempt = s.attempt, t.history = s.history, t.step = s.step + 1
  PROVE  Orderly(t)
<1>1. s.step \in Int /\ \A i \in 1 .. Len(s.history) : s.history[i].step \in Int
  BY AttemptFields, ElementOfSeq, BoundsAssumption DEF RunStates
<1> QED
  BY <1>1 DEF Orderly, Held

\* The current attempt goes on, is interrupted or is superseded.
LEMMA OrderlySettled ==
  ASSUME NEW s \in RunStates, Orderly(s), s.attempt # NoAttempt, NEW x \in Current, NEW t,
         t.attempt = [s.attempt EXCEPT !.status = x], t.history = s.history, t.step = s.step
  PROVE  Orderly(t)
<1>1. s.attempt \in Attempts /\ s.history \in Seq(Attempts)
  BY DEF RunStates
<1>2. /\ t.attempt \in Attempts /\ t.attempt # NoAttempt /\ t.attempt.status = x
      /\ t.attempt.id = s.attempt.id /\ t.attempt.replaces = s.attempt.replaces
      /\ t.attempt.step = s.attempt.step /\ t.attempt.replacement = s.attempt.replacement
  <2> DEFINE a == s.attempt
             b == t.attempt
  <2>1. a \in Attempts /\ b = [a EXCEPT !.status = x]
    BY <1>1
  <2> HIDE DEF a, b
  <2>2. /\ b \in Attempts /\ b.status = x /\ b.id = a.id /\ b.replaces = a.replaces
        /\ b.step = a.step /\ b.replacement = a.replacement
    BY <2>1 DEF Attempts, Current
  <2>3. b # NoAttempt
    BY <2>2 DEF Current, NoAttempt
  <2> QED
    BY <2>2, <2>3 DEF a, b
<1>3. Chained(Append(s.history, s.attempt))
  BY DEF Orderly, Held
<1>4. Chained(Append(s.history, t.attempt))
  BY <1>1, <1>2, <1>3, LastChanges
<1> QED
  BY <1>2, <1>4 DEF Orderly, Held

\* The next identity follows that of the newest attempt.
LEMMA NextIdFollows ==
  ASSUME NEW s \in RunStates, Orderly(s)
  PROVE  LET q == Held(s)
             id == NextAttemptId(s)
         IN  /\ id \in 1 .. Round
             /\ q # <<>> => id - q[Len(q)].id \in {1, 1 - Round}
<1> DEFINE q == Held(s)
           newest == IF s.attempt # NoAttempt THEN s.attempt.id
                     ELSE IF s.history # <<>> THEN s.history[Len(s.history)].id
                     ELSE 0
           id == NextAttemptId(s)
<1>1. s.attempt \in Attempts /\ s.history \in Seq(Attempts)
  BY DEF RunStates
<1>2. q \in Seq(Attempts) /\ Len(q) \in Nat /\ Chained(q)
  BY HeldType, LenProperties DEF Orderly
<1>3. q # <<>> => newest = q[Len(q)].id
  BY <1>1, Extended DEF Held
<1>4. q = <<>> => newest = 0
  BY <1>1, Extended DEF Held
<1>5. id = IF newest >= HistoryLimit + 2 THEN 1 ELSE newest + 1
  BY DEF NextAttemptId
<1>6. q # <<>> => newest \in 1 .. Round
  <2> HAVE q # <<>>
  <2>1. Len(q) \in 1 .. Len(q)
    <3> HIDE DEF q
    <3> QED
      BY <1>2, EmptySeq
  <2> QED
    BY <1>2, <1>3, <2>1 DEF Chained
<1> HIDE DEF newest, id
<1>7. CASE q = <<>>
  BY <1>4, <1>5, <1>7, LimitType DEF Round, id
<1>8. CASE q # <<>>
  <2>1. id \in 1 .. Round /\ (id - newest = 1 \/ id - newest = 1 - Round)
    BY <1>5, <1>6, <1>8, LimitType DEF Round
  <2> QED
    BY <1>3, <1>8, <2>1 DEF id
<1> QED
  BY <1>7, <1>8

\* A model call opens an attempt; the one that it repeats joins the history.
LEMMA OrderlyNewAttempt ==
  ASSUME NEW s \in RunStates, Orderly(s), NoneOpen(s)
  PROVE  Orderly(WithNewAttempt(s)) /\ WithNewAttempt(s).attempt.status = "started"
<1> DEFINE id == NextAttemptId(s)
           old == [s.attempt EXCEPT !.replacement = id]
           new == [id |-> id, step |-> s.step, status |-> "started",
                   replaces |-> IF Superseded(s) THEN s.attempt.id ELSE 0,
                   replacement |-> 0]
           h == s.history
           past == IF Superseded(s) THEN AppendAttempt(h, old) ELSE h
           t == WithNewAttempt(s)
<1>1. s.attempt \in Attempts /\ h \in Seq(Attempts) /\ s.step \in 0 .. MaxSteps
  BY DEF RunStates
<1>2. t = [s EXCEPT !.history = past, !.attempt = new]
  BY DEF WithNewAttempt
<1>3. t.history = past /\ t.attempt = new /\ t.step = s.step
  BY <1>2 DEF RunStates
<1>4. /\ id \in 1 .. Round
      /\ Held(s) # <<>> => id - Held(s)[Len(Held(s))].id \in {1, 1 - Round}
  BY NextIdFollows
<1>5. id \in Nat
  BY <1>4, LimitType
<1>6. /\ new \in Attempts /\ new # NoAttempt /\ new.id = id /\ new.replacement = 0
      /\ new.status = "started" /\ new.step = s.step
      /\ new.replaces = IF Superseded(s) THEN s.attempt.id ELSE 0
  BY <1>1, <1>5 DEF Attempts, NoAttempt
<1>7. /\ old \in Attempts /\ old.id = s.attempt.id /\ old.replaces = s.attempt.replaces
      /\ old.status = s.attempt.status /\ old.replacement = id /\ old.step = s.attempt.step
  BY <1>1, <1>5 DEF Attempts
<1>8. /\ past \in Seq(Attempts) /\ Len(past) <= HistoryLimit
      /\ Chained(Append(past, new))
      /\ \A i \in 1 .. Len(past) : past[i].status \in Past /\ past[i].step <= s.step
  <2> HIDE DEF id, new, old
  <2>1. CASE ~Superseded(s)
    <3>1. past = h /\ Held(s) = h /\ new.replaces = 0
      BY <1>6, <2>1 DEF NoneOpen, Held
    <3>2. h # <<>> => Succeeds(h[Len(h)], new)
      BY <1>6, <2>1, <3>1 DEF Orderly, NoneOpen, Succeeds
    <3>3. h # <<>> => After(h[Len(h)], new, 1)
      BY <1>4, <1>6, <3>1 DEF After
    <3>4. Chained(h) /\ Len(h) <= HistoryLimit
      BY <3>1 DEF Orderly
    <3>5. Len(h) <= HistoryLimit + 1
      BY <1>1, <3>4, LimitType, LenProperties
    <3>6. Chained(Append(h, new))
      BY <1>1, <1>4, <1>6, <3>1, <3>2, <3>3, <3>4, <3>5, ChainGrows
    <3> QED
      BY <1>1, <3>1, <3>4, <3>6 DEF Orderly
  <2>2. CASE Superseded(s)
    <3>1. past = AppendAttempt(h, old) /\ s.attempt # NoAttempt /\ old.status = "superseded"
      BY <1>7, <2>2 DEF Superseded, NoAttempt
    <3>2. Held(s) = Append(h, s.attempt) /\ Chained(Append(h, s.attempt)) /\ Len(h) <= HistoryLimit
      BY <3>1 DEF Orderly, Held
    <3>3. Chained(Append(h, old))
      BY <1>1, <1>7, <3>2, LastChanges
    <3>4. /\ past \in Seq(Attempts) /\ Len(past) \in 1 .. HistoryLimit /\ Chained(past)
          /\ Cut(past[Len(past)], old)
          /\ \A i \in 1 .. Len(past) - 1 : \E j \in 1 .. Len(h) : Cut(past[i], h[j])
      <4> DEFINE r == AppendAttempt(h, old)
      <4>1. /\ r \in Seq(Attempts) /\ Len(r) \in 1 .. HistoryLimit /\ Chained(r)
            /\ Cut(r[Len(r)], old)
            /\ \A i \in 1 .. Len(r) - 1 : \E j \in 1 .. Len(h) : Cut(r[i], h[j])
        <5>1. h \in Seq(Attempts) /\ Len(h) <= HistoryLimit /\ old \in Attempts
          BY <1>1, <1>7, <3>2
        <5> HIDE DEF h
        <5> QED
          BY <3>3, <5>1, Appended
      <4>2. past = r
        BY <3>1
      <4> HIDE DEF past, r
      <4> QED
        BY <4>1, <4>2
    <3> HIDE DEF past
    <3> DEFINE last == past[Len(past)]
    <3>5. last.id = old.id /\ last.status = "superseded" /\ last.replacement = id
          /\ last.step = old.step
      BY <1>7, <3>1, <3>4 DEF Cut, Attempts
    <3>6. After(last, new, 1)
      <4>1. Held(s)[Len(Held(s))] = s.attempt /\ Held(s) # <<>>
        BY <1>1, <3>2, Extended
      <4>2. id - s.attempt.id \in {1, 1 - Round}
        BY <1>4, <4>1
      <4> QED
        BY <1>6, <1>7, <3>5, <4>2 DEF After
    <3>7. Succeeds(last, new)
      BY <1>6, <1>7, <2>2, <3>5 DEF Succeeds, Linked
    <3>8. past # <<>> /\ Len(past) <= HistoryLimit + 1 /\ Len(past) <= HistoryLimit
      BY <3>4, EmptySeq, LimitType
    <3>9. Chained(Append(past, new))
      BY <1>4, <1>6, <3>4, <3>6, <3>7, <3>8, ChainGrows
    <3>10. ASSUME NEW i \in 1 .. Len(past) PROVE past[i].status \in Past /\ past[i].step <= s.step
      <4>1. CASE i = Len(past)
        <5>1. old.step = s.step /\ s.step \in Int
          BY <1>1, <1>7, <3>1, BoundsAssumption DEF Orderly
        <5> QED
          BY <3>5, <4>1, <5>1 DEF Past
      <4>2. CASE i # Len(past)
        <5>1. PICK j \in 1 .. Len(h) : Cut(past[i], h[j])
          BY <3>4, <4>2
        <5>2. h[j] \in Attempts /\ h[j].status \in Past /\ h[j].step <= s.step
          BY <1>1, ElementOfSeq DEF Orderly
        <5> QED
          BY <5>1, <5>2 DEF Cut, Attempts
      <4> QED
        BY <4>1, <4>2
    <3> QED
      BY <3>4, <3>8, <3>9, <3>10
  <2> QED
    BY <2>1, <2>2
<1> HIDE DEF past, new, old, id, t
<1>9. Held(t) = Append(past, new)
  BY <1>3, <1>6 DEF Held
<1>10. Orderly(t)
  BY <1>3, <1>6, <1>8, <1>9 DEF Orderly, Current
<1> QED
  BY <1>3, <1>6, <1>10 DEF t

\* An answer commits the attempt to the history.
LEMMA OrderlyCommitted ==
  ASSUME NEW s \in RunStates, Orderly(s), s.attempt # NoAttempt, NEW t,
         t.attempt = NoAttempt, t.step = s.step,
         t.history = AppendAttempt(s.history, [s.attempt EXCEPT !.status = "committed"])
  PROVE  Orderly(t)
<1> DEFINE h == s.history
           a == [s.attempt EXCEPT !.status = "committed"]
           past == AppendAttempt(h, a)
<1>1. s.attempt \in Attempts /\ h \in Seq(Attempts) /\ s.step \in Int
  BY BoundsAssumption DEF RunStates
<1>2. /\ a \in Attempts /\ a.id = s.attempt.id /\ a.replaces = s.attempt.replaces
      /\ a.status = "committed" /\ a.step = s.attempt.step /\ a.replacement = s.attempt.replacement
  BY <1>1 DEF Attempts
<1>3. Chained(Append(h, s.attempt)) /\ Len(h) <= HistoryLimit
  BY DEF Orderly, Held
<1>4. Chained(Append(h, a))
  BY <1>1, <1>2, <1>3, LastChanges
<1>5. /\ past \in Seq(Attempts) /\ Len(past) \in 1 .. HistoryLimit /\ Chained(past)
      /\ Cut(past[Len(past)], a)
      /\ \A i \in 1 .. Len(past) - 1 : \E j \in 1 .. Len(h) : Cut(past[i], h[j])
  <2> HIDE DEF a
  <2> QED
    BY <1>1, <1>2, <1>3, <1>4, Appended
<1> HIDE DEF past, a
<1>6. /\ past[Len(past)].status = "committed" /\ past[Len(past)].replacement = 0
      /\ past[Len(past)].step = s.step
  BY <1>2, <1>5 DEF Cut, Attempts, Orderly
<1>7. ASSUME NEW i \in 1 .. Len(past) PROVE past[i].status \in Past /\ past[i].step <= s.step
  <2>1. CASE i = Len(past)
    BY <1>1, <1>6, <2>1 DEF Past
  <2>2. CASE i # Len(past)
    <3>1. PICK j \in 1 .. Len(h) : Cut(past[i], h[j])
      BY <1>5, <2>2
    <3>2. h[j] \in Attempts /\ h[j].status \in Past /\ h[j].step <= s.step
      BY <1>1, ElementOfSeq DEF Orderly
    <3> QED
      BY <3>1, <3>2 DEF Cut, Attempts
  <2> QED
    BY <2>1, <2>2
<1>8. t.history = past
  BY DEF past, a
<1>9. Len(past) <= HistoryLimit
  BY <1>5, LimitType
<1> QED
  BY <1>5, <1>6, <1>7, <1>8, <1>9 DEF Orderly, Held

\* A state whose attempts are in order is one that a load accepts.
LEMMA OrderlyLoads == ASSUME NEW s \in RunStates, Orderly(s) PROVE ValidRunState(s)
<1> DEFINE q == Held(s)
           h == s.history
           n == Len(q)
           held == {h[i] : i \in DOMAIN h} \cup (IF s.attempt = NoAttempt THEN {} ELSE {s.attempt})
<1>1. s.attempt \in Attempts /\ h \in Seq(Attempts) /\ DOMAIN h = 1 .. Len(h) /\ Len(h) \in Nat
  BY LenProperties DEF RunStates
<1>2. q \in Seq(Attempts) /\ n \in Nat /\ Chained(q) /\ Len(h) <= HistoryLimit
  BY HeldType, LenProperties DEF Orderly
<1>3. /\ \A i \in 1 .. Len(h) : h[i] = q[i] /\ i \in 1 .. n
      /\ s.attempt = NoAttempt => n = Len(h)
      /\ s.attempt # NoAttempt => n = Len(h) + 1 /\ q[n] = s.attempt
  <2>1. CASE s.attempt = NoAttempt
    BY <1>1, <2>1 DEF Held
  <2>2. CASE s.attempt # NoAttempt
    BY <1>1, <2>2, Extended DEF Held
  <2> QED
    BY <2>1, <2>2
<1>4. \A a \in held : \E i \in 1 .. n : a = q[i]
  <2>1. ASSUME s.attempt # NoAttempt PROVE n \in 1 .. n
    BY <1>1, <1>3, <2>1
  <2> QED
    BY <1>1, <1>3, <2>1
<1>5. \A i \in 1 .. n : q[i] \in held
  <2> SUFFICES ASSUME NEW i \in 1 .. n PROVE q[i] \in held
    OBVIOUS
  <2>1. CASE i \in 1 .. Len(h)
    BY <1>1, <1>3, <2>1
  <2>2. CASE i \notin 1 .. Len(h)
    <3>1. s.attempt # NoAttempt /\ i = n
      BY <1>1, <1>3, <2>2
    <3> QED
      BY <1>3, <3>1
  <2> QED
    BY <2>1, <2>2
<1>6. n > 0 => q[n].replacement = 0
  <2>1. CASE s.attempt = NoAttempt
    <3>1. n > 0 => h # <<>>
      BY <1>1, <1>3, <2>1, EmptySeq
    <3> QED
      BY <1>1, <1>3, <2>1, <3>1 DEF Orderly
  <2>2. CASE s.attempt # NoAttempt
    BY <1>3, <2>2 DEF Orderly
  <2> QED
    BY <2>1, <2>2
<1> HIDE DEF q, held, n, h
<1>7. \A i \in 1 .. n : q[i].id \in 1 .. Round
  BY <1>2 DEF Chained, n
<1>8. ASSUME NEW i \in 1 .. n, NEW j \in 1 .. n, i < j PROVE q[i].id # q[j].id
  <2>1. q[j].id - q[i].id \in {j - i, (j - i) - Round}
    BY <1>2, <1>8 DEF Chained, n, After
  <2>2. n < Round
    <3>1. n = Len(h) \/ n = Len(h) + 1
      BY <1>3
    <3>2. Len(h) \in Nat /\ Len(h) <= HistoryLimit /\ HistoryLimit \in Nat
      BY <1>1, <1>2, LimitType
    <3> HIDE DEF n
    <3> QED
      BY <3>1, <3>2 DEF Round
  <2>3. j - i \in Int /\ 0 < j - i /\ j - i < Round /\ Round \in Int
    BY <1>2, <1>8, <2>2, LimitType
  <2>4. q[i].id \in Int /\ q[j].id \in Int
    BY <1>7, LimitType
  <2>5. q[j].id - q[i].id # 0
    <3> DEFINE d == j - i
               x == q[j].id - q[i].id
    <3>1. x \in {d, d - Round} /\ d \in Int /\ 0 < d /\ d < Round /\ Round \in Int
      BY <2>1, <2>3
    <3>2. x # 0
      <4> HIDE DEF d, x
      <4> QED
        BY <3>1
    <3> QED
      BY <3>2
  <2> QED
    BY <2>4, <2>5
<1>9. ASSUME NEW i \in 1 .. n, NEW j \in 1 .. n, q[i].id = q[j].id PROVE i = j
  BY <1>2, <1>8, <1>9
<1>10. ASSUME NEW i \in 1 .. n - 1 PROVE i + 1 \in 1 .. n /\ i \in 1 .. n /\ Succeeds(q[i], q[i + 1])
  BY <1>2, <1>10 DEF Chained, n
<1>11. ASSUME NEW i \in 1 .. n, q[i].replaces # 0 PROVE \E b \in held : Linked(q[i], b)
  <2>1. q # <<>> => q[1].replaces = 0
    BY <1>2 DEF Chained
  <2>2. q # <<>>
    BY <1>2, <1>11, EmptySeq DEF n
  <2>3. i - 1 \in 1 .. n - 1 /\ (i - 1) + 1 = i
    BY <1>2, <1>11, <2>1, <2>2
  <2>4. Succeeds(q[i - 1], q[i]) /\ q[i - 1] \in held
    BY <1>5, <1>10, <2>3
  <2> QED
    BY <1>11, <2>4 DEF Succeeds
<1>12. ASSUME NEW i \in 1 .. n, q[i].replacement # 0 PROVE \E b \in held : Linked(b, q[i])
  <2>1. i \in 1 .. n - 1
    BY <1>2, <1>6, <1>12
  <2>2. Succeeds(q[i], q[i + 1]) /\ q[i + 1] \in held
    BY <1>5, <1>10, <2>1
  <2> QED
    BY <1>12, <2>2 DEF Succeeds
<1>13. \A a \in held : /\ a.replaces # 0 => \E b \in held : Linked(a, b)
                       /\ a.replacement # 0 => \E b \in held : Linked(b, a)
  BY <1>4, <1>11, <1>12
<1>14. ASSUME NEW i \in DOMAIN h
       PROVE  /\ h[i].status \in {"committed", "superseded"} /\ h[i].step <= s.step
              /\ h[i].id # s.attempt.id
              /\ \A j \in DOMAIN h : h[i].id = h[j].id => i = j
              /\ h[i].status = "superseded" => h[i].replacement # 0
  <2>1. i \in 1 .. Len(h) /\ i \in 1 .. n /\ h[i] = q[i]
    BY <1>1, <1>3
  <2>2. h[i].status \in {"committed", "superseded"} /\ h[i].step <= s.step
    BY <2>1 DEF Orderly, Past, h
  <2>3. h[i].id # s.attempt.id
    <3>1. CASE s.attempt = NoAttempt
      BY <1>7, <2>1, <3>1, LimitType DEF NoAttempt
    <3>2. CASE s.attempt # NoAttempt
      BY <1>1, <1>3, <1>8, <2>1, <3>2
    <3> QED
      BY <3>1, <3>2
  <2>4. \A j \in DOMAIN h : h[i].id = h[j].id => i = j
    BY <1>1, <1>3, <1>9, <2>1
  <2>5. h[i].status = "superseded" => h[i].replacement # 0
    <3> HAVE h[i].status = "superseded"
    <3>1. i # n
      <4>1. CASE s.attempt = NoAttempt
        <5>1. i = n => h # <<>> /\ i = Len(h)
          BY <1>1, <1>3, <2>1, <4>1, EmptySeq
        <5> QED
          BY <4>1, <5>1 DEF Orderly, h
      <4>2. CASE s.attempt # NoAttempt
        BY <1>1, <1>3, <2>1, <4>2
      <4> QED
        BY <4>1, <4>2
    <3>2. i \in 1 .. n - 1
      BY <1>2, <2>1, <3>1
    <3>3. Linked(q[i + 1], q[i]) /\ i + 1 \in 1 .. n
      BY <1>10, <2>1, <3>2 DEF Succeeds
    <3> QED
      BY <1>7, <2>1, <3>3, LimitType DEF Linked
  <2> QED
    BY <2>2, <2>3, <2>4, <2>5
<1>15. s.attempt # NoAttempt =>
         /\ s.attempt.status \in {"started", "streaming", "interrupted", "superseded"}
         /\ s.attempt.step = s.step
  BY DEF Orderly, Current
<1> QED
  BY <1>2, <1>13, <1>14, <1>15 DEF ValidRunState, held, h

-----------------------------------------------------------------------------
(***************************************************************************)
(* The steps.  A step keeps the invariant, and what the checkpoint held    *)
(* before it is in the one after it.                                       *)
(***************************************************************************)
Kept == StateInv' /\ Ahead(ckpt, ckpt')

LEMMA AheadSelf == ASSUME NEW s \in RunStates PROVE Ahead(s, s)
<1>1. s.step \in Int /\ s.answers \in [CallIds -> Nat]
  BY BoundsAssumption DEF RunStates
<1> QED
  BY <1>1 DEF Ahead

LEMMA AheadTwice ==
  ASSUME NEW k \in RunStates, NEW s \in RunStates, NEW t \in RunStates, Ahead(k, s), Ahead(s, t)
  PROVE  Ahead(k, t)
<1>1. /\ k.step \in Int /\ s.step \in Int /\ t.step \in Int
      /\ \A c \in CallIds : k.answers[c] \in Int /\ s.answers[c] \in Int /\ t.answers[c] \in Int
  BY BoundsAssumption DEF RunStates
<1> QED
  BY <1>1 DEF Ahead

LEMMA SaveKeeps ==
  ASSUME Inv, Inv', StateInv, pc # "down", NEW s, NEW next, Save(s, next),
         Orderly(s), Begun(s), AttemptAt(next, s), Ahead(st, s)
  PROVE  Kept
<1>1. /\ st' = s /\ ckpt' \in {ckpt, s}
      /\ pc' = next \/ pc' \in {"fail", "cancel"}
  BY DEF Save, StoreExits
<1>2. st \in RunStates /\ ckpt \in RunStates /\ s \in RunStates
  BY <1>1 DEF Inv, TypeOK
<1>3. Ahead(ckpt, s) /\ Ahead(s, s) /\ Ahead(ckpt, ckpt)
  BY <1>2, AheadTwice, AheadSelf DEF StateInv
<1>4. Ahead(ckpt', st') /\ Ahead(ckpt, ckpt')
  BY <1>1, <1>3
<1>5. Orderly(st') /\ Orderly(ckpt') /\ Begun(st') /\ Begun(ckpt')
  BY <1>1 DEF StateInv
<1>6. AttemptAt(pc', st')
  <2>1. CASE pc' = next
    BY <1>1, <2>1
  <2>2. CASE pc' \in {"fail", "cancel"}
    BY <2>2 DEF AttemptAt, Settling
  <2> QED
    BY <1>1, <2>1, <2>2
<1>7. Ahead(ckpt, st)'
  BY <1>4 DEF Ahead
<1>8. Orderly(st)' /\ Orderly(ckpt)' /\ Begun(st)' /\ Begun(ckpt)' /\ AttemptAt(pc, st)'
  BY <1>5, <1>6 DEF Orderly, Held, Chained, After, Succeeds, Linked, Begun, AttemptAt,
                    NoneOpen, Superseded
<1> QED
  BY <1>4, <1>7, <1>8 DEF Kept, StateInv

LEMMA SameWork ==
  ASSUME NEW s \in RunStates, NEW t, t.step = s.step, t.asked = s.asked, t.answers = s.answers,
         s.approved \subseteq t.approved, s.granted \subseteq t.granted
  PROVE  Ahead(s, t)
<1>1. Ahead(s, s)
  BY AheadSelf
<1> QED
  BY <1>1 DEF Ahead

\* A checkpoint that leaves the attempts alone.
LEMMA QuietSaveKeeps ==
  ASSUME Inv, Inv', StateInv, pc # "down", NEW s, NEW next, Save(s, next),
         s.attempt = st.attempt, s.history = st.history, s.step = st.step,
         Ahead(st, s),
         s.phase # "created" \/ (s.phase = st.phase /\ next \notin {"call", "stream", "blocked"}),
         next # "stream", next \notin Settling => pc \notin Settling
  PROVE  Kept
<1>1. Orderly(s) /\ Begun(s)
  BY OrderlySame DEF StateInv, Begun
<1>2. AttemptAt(next, s)
  BY DEF StateInv, AttemptAt, NoneOpen, Superseded
<1> QED
  BY <1>1, <1>2, SaveKeeps

\* A move inside the process.
LEMMA GotoKeeps ==
  ASSUME Inv, StateInv, pc # "down", UNCHANGED <<ckpt, st>>, AttemptAt(pc', st)
  PROVE  Kept
<1>1. ckpt \in RunStates
  BY DEF Inv, TypeOK
<1>2. Orderly(st)' /\ Orderly(ckpt)' /\ Begun(st)' /\ Begun(ckpt)'
  BY DEF StateInv, Orderly, Held, Chained, After, Succeeds, Linked, Begun
<1>3. AttemptAt(pc, st)'
  BY DEF AttemptAt, NoneOpen, Superseded
<1>4. Ahead(ckpt, st)' /\ Ahead(ckpt, ckpt')
  BY <1>1, AheadSelf DEF StateInv, Ahead
<1> QED
  BY <1>2, <1>3, <1>4 DEF Kept, StateInv

\* The end of the process.
LEMMA ExitKeeps ==
  ASSUME Inv, Inv', StateInv, Exit, Orderly(ckpt'), Begun(ckpt'), Ahead(ckpt, ckpt')
  PROVE  Kept
<1>1. pc' = "down" /\ st' = FreshState
  BY DEF Exit
<1>2. Orderly(st') /\ Begun(st')
  BY <1>1, FreshOrderly DEF Begun, FreshState
<1>3. AttemptAt(pc', st')
  BY <1>1 DEF AttemptAt, Settling
<1>4. Orderly(st)' /\ Orderly(ckpt)' /\ Begun(st)' /\ Begun(ckpt)' /\ AttemptAt(pc, st)'
  BY <1>2, <1>3 DEF Orderly, Held, Chained, After, Succeeds, Linked, Begun, AttemptAt,
                    NoneOpen, Superseded
<1> QED
  BY <1>1, <1>4 DEF Kept, StateInv

LEMMA ExitUnstoredKeeps == ASSUME Inv, Inv', StateInv, Exit, ckpt' = ckpt PROVE Kept
<1>1. Ahead(ckpt, ckpt') /\ Orderly(ckpt') /\ Begun(ckpt')
  BY AheadSelf DEF Inv, TypeOK, StateInv
<1> QED
  BY <1>1, ExitKeeps

LEMMA ErrorKeeps ==
  ASSUME Inv, StateInv, pc # "down", NEW e \in ErrorExits, Goto(e)
  PROVE  Kept
<1>1. AttemptAt(pc', st)
  BY DEF Goto, ErrorExits, AttemptAt, Settling
<1>2. UNCHANGED <<ckpt, st>>
  BY DEF Goto, durable
<1> QED
  BY <1>1, <1>2, GotoKeeps

\* Which attempt a state can have.
LEMMA AttemptForms ==
  ASSUME NEW s, Orderly(s)
  PROVE  s.attempt = NoAttempt \/ s.attempt.status \in Current
BY DEF Orderly

-----------------------------------------------------------------------------
LEMMA LaunchEnterKept == Inv /\ Inv' /\ StateInv /\ (Launch \/ Enter) => Kept
<1> SUFFICES ASSUME Inv, Inv', StateInv, Launch \/ Enter PROVE Kept
  OBVIOUS
<1>1. CASE Launch
  <2>1. /\ pc' = "enter" /\ ckpt' = ckpt
        /\ st' = ckpt \/ (st' = FreshState /\ ckpt = NoCheckpoint)
    BY <1>1 DEF Launch, durable
  <2>2. ckpt \in RunStates
    BY DEF Inv, TypeOK
  <2>3. Ahead(ckpt', st') /\ Ahead(ckpt, ckpt')
    <3>1. Ahead(ckpt, ckpt)
      BY <2>2, AheadSelf
    <3>2. ckpt = NoCheckpoint => Ahead(ckpt, FreshState)
      BY <3>1 DEF Ahead, NoCheckpoint, FreshState
    <3> QED
      BY <2>1, <3>1, <3>2
  <2>4. Orderly(st') /\ Orderly(ckpt') /\ Begun(st') /\ Begun(ckpt')
    <3>1. Orderly(ckpt) /\ Begun(ckpt) /\ Orderly(FreshState) /\ Begun(FreshState)
      BY FreshOrderly DEF StateInv, Begun, FreshState
    <3> QED
      BY <2>1, <3>1
  <2>5. AttemptAt(pc', st')
    BY <2>1 DEF AttemptAt, Settling
  <2>6. Orderly(st)' /\ Orderly(ckpt)' /\ Begun(st)' /\ Begun(ckpt)' /\ AttemptAt(pc, st)'
    BY <2>4, <2>5 DEF Orderly, Held, Chained, After, Succeeds, Linked, Begun, AttemptAt,
                      NoneOpen, Superseded
  <2> QED
    BY <2>3, <2>6 DEF Kept, StateInv, Ahead
<1>2. CASE Enter
  <2>1. UNCHANGED <<ckpt, st>> /\ pc # "down"
    BY <1>2 DEF Enter, Goto, durable
  <2>2. pc' = IF cancelled THEN "cancel" ELSE IF st.phase = "created" THEN "loop" ELSE "resume"
    BY <1>2 DEF Enter, Goto
  <2>3. AttemptAt(pc', st)
    BY <2>2 DEF AttemptAt, Settling, NoneOpen, StateInv, Begun
  <2> QED
    BY <2>1, <2>3, GotoKeeps
<1> QED
  BY <1>1, <1>2

LEMMA RequestedKept ==
  ASSUME Inv, Inv', StateInv, pc # "down", NEW next \in {"await", "reawait"}, Requested(next),
         next = "await" => pc \notin Settling
  PROVE  Kept
<1>1. CASE broker /\ lifecycle' = "approval.requested" /\ pc' = next /\ UNCHANGED <<ckpt, st>>
  BY <1>1, GotoKeeps DEF StateInv, AttemptAt, Settling
<1>2. CASE \E e \in ErrorExits : Goto(e)
  BY <1>2, ErrorKeeps
<1>3. CASE Conclude("approval.requested")
  BY <1>3, ExitUnstoredKeeps DEF Conclude
<1> QED
  BY <1>1, <1>2, <1>3 DEF Requested

LEMMA ResumeKept == Inv /\ Inv' /\ StateInv /\ Resume => Kept
<1> SUFFICES ASSUME Inv, Inv', StateInv, Resume PROVE Kept
  OBVIOUS
<1>1. CASE ResumeTerminal
  BY <1>1, ExitUnstoredKeeps DEF ResumeTerminal, Conclude
<1>2. CASE ResumeWaiting
  BY <1>2, RequestedKept DEF ResumeWaiting
<1>3. CASE Requeue
  <2>1. CASE st.active = NoCall /\ Goto("attempt")
    BY <1>3, <2>1, GotoKeeps DEF Requeue, Goto, durable, AttemptAt, Settling
  <2>2. CASE st.active # NoCall
    <3> DEFINE s == [st EXCEPT !.pending = <<st.active>> \o @, !.active = NoCall, !.status = "running"]
    <3>1. Save(s, "attempt") /\ pc # "down"
      BY <1>3, <2>2 DEF Requeue
    <3>2. /\ s.attempt = st.attempt /\ s.history = st.history /\ s.step = st.step
          /\ s.asked = st.asked /\ s.answers = st.answers /\ s.approved = st.approved
          /\ s.granted = st.granted /\ s.phase = st.phase /\ st \in RunStates
      BY DEF Inv, TypeOK, RunStates
    <3> HIDE DEF s
    <3>3. Ahead(st, s)
      BY <3>2, SameWork
    <3> QED
      BY <3>1, <3>2, <3>3, QuietSaveKeeps DEF Settling
  <2> QED
    BY <1>3, <2>1, <2>2 DEF Requeue
<1>4. CASE SettleAttempt
  <2> DEFINE x == IF st.attempt.status = "interrupted" THEN "superseded" ELSE "interrupted"
             s == [st EXCEPT !.attempt.status = x]
  <2>1. Save(s, "attempt") /\ pc # "down" /\ st.attempt # NoAttempt
    BY <1>4 DEF SettleAttempt, NoAttempt
  <2>2. /\ s.attempt = [st.attempt EXCEPT !.status = x] /\ s.history = st.history /\ s.step = st.step
        /\ s.asked = st.asked /\ s.answers = st.answers /\ s.approved = st.approved
        /\ s.granted = st.granted /\ s.phase = st.phase
    BY DEF Inv, TypeOK, RunStates
  <2>3. st \in RunStates /\ Ahead(st, st) /\ Orderly(st) /\ Begun(st) /\ x \in Current
    BY AheadSelf DEF Inv, TypeOK, StateInv, Current
  <2> HIDE DEF s, x
  <2>4. Orderly(s)
    BY <2>1, <2>2, <2>3, OrderlySettled
  <2>5. Begun(s) /\ Ahead(st, s) /\ AttemptAt("attempt", s)
    BY <2>1, <2>2, <2>3 DEF Begun, Ahead, AttemptAt, Settling
  <2> QED
    BY <2>1, <2>4, <2>5, SaveKeeps
<1>5. CASE ResumeAnswer
  <2> DEFINE s == [st EXCEPT !.phase = "completed", !.status = "completed"]
  <2>1. Save(s, "rehook") /\ pc # "down" /\ st.attempt = NoAttempt
    BY <1>5 DEF ResumeAnswer, AnswerCommitted
  <2>2. /\ s.attempt = st.attempt /\ s.history = st.history /\ s.step = st.step
        /\ s.asked = st.asked /\ s.answers = st.answers /\ s.approved = st.approved
        /\ s.granted = st.granted /\ s.phase = "completed"
    BY DEF Inv, TypeOK, RunStates
  <2>3. st \in RunStates /\ Ahead(st, st) /\ Orderly(st)
    BY AheadSelf DEF Inv, TypeOK, StateInv
  <2> HIDE DEF s
  <2>4. Orderly(s)
    BY <2>2, <2>3, OrderlySame
  <2>5. Begun(s) /\ Ahead(st, s) /\ AttemptAt("rehook", s)
    BY <2>1, <2>2, <2>3 DEF Begun, Ahead, AttemptAt, NoneOpen
  <2> QED
    BY <2>1, <2>4, <2>5, SaveKeeps
<1>6. CASE ResumeLoop
  <2>1. NoneOpen(st)
    BY <1>6, AttemptForms DEF ResumeLoop, StateInv, Current, NoneOpen, Superseded
  <2>2. final => st.phase = "finalizing"
    BY <1>6 DEF ResumeLoop, Inv, At, Resuming
  <2>3. pc' = (IF final THEN "call" ELSE "loop") /\ UNCHANGED <<ckpt, st>> /\ pc # "down"
    BY <1>6 DEF ResumeLoop, Goto, durable
  <2>4. AttemptAt(pc', st)
    BY <2>1, <2>2, <2>3 DEF AttemptAt
  <2> QED
    BY <2>3, <2>4, GotoKeeps
<1> QED
  BY <1>1, <1>2, <1>3, <1>4, <1>5, <1>6 DEF Resume

LEMMA LoopKept == Inv /\ Inv' /\ StateInv /\ Loop => Kept
<1> SUFFICES ASSUME Inv, Inv', StateInv, Loop PROVE Kept
  OBVIOUS
<1>1. pc' \in {"cancel", "tools", "limit", "step"} /\ UNCHANGED <<ckpt, st>> /\ pc = "loop"
  BY DEF Loop, Goto, durable
<1>2. AttemptAt(pc', st)
  BY <1>1 DEF StateInv, AttemptAt, Settling
<1> QED
  BY <1>1, <1>2, GotoKeeps

\* The turn of a step: the step, its attempts, its answer.
LEMMA TurnKept == Inv /\ Inv' /\ StateInv /\ (BeginStep \/ BeginFinalTurn \/ StartAttempt) => Kept
<1> SUFFICES ASSUME Inv, Inv', StateInv, BeginStep \/ BeginFinalTurn \/ StartAttempt PROVE Kept
  OBVIOUS
<1>1. st \in RunStates /\ Orderly(st) /\ Begun(st) /\ NoneOpen(st) /\ pc # "down"
  BY DEF Inv, TypeOK, StateInv, AttemptAt, Settling, BeginStep, BeginFinalTurn, StartAttempt
<1>2. CASE BeginStep
  <2> DEFINE n == IF Superseded(st) THEN st.step ELSE st.step + 1
             s == [st EXCEPT !.step = n, !.phase = "model", !.status = "streaming"]
  <2>1. Save(s, "call")
    BY <1>2 DEF BeginStep
  <2>2. /\ s.attempt = st.attempt /\ s.history = st.history /\ s.step = n
        /\ s.asked = st.asked /\ s.answers = st.answers /\ s.approved = st.approved
        /\ s.granted = st.granted /\ s.phase = "model"
    BY <1>1 DEF RunStates
  <2>3. n = st.step \/ (n = st.step + 1 /\ st.attempt = NoAttempt)
    BY <1>1 DEF NoneOpen
  <2>4. st.step \in Int
    BY <1>1, BoundsAssumption DEF RunStates
  <2> HIDE DEF s, n
  <2>5. Orderly(s)
    BY <1>1, <2>2, <2>3, OrderlySame, OrderlyStep
  <2>6. Begun(s) /\ AttemptAt("call", s)
    BY <1>1, <2>2 DEF Begun, AttemptAt, NoneOpen, Superseded
  <2>7. Ahead(st, s)
    <3>1. Ahead(st, st)
      BY <1>1, AheadSelf
    <3>2. s.step >= st.step
      BY <2>2, <2>3, <2>4
    <3> QED
      BY <2>2, <3>1, <3>2 DEF Ahead
  <2> QED
    BY <1>1, <2>1, <2>5, <2>6, <2>7, SaveKeeps
<1>3. CASE BeginFinalTurn
  <2> DEFINE s == [st EXCEPT !.phase = "finalizing", !.status = "streaming", !.last = "user"]
  <2>1. Save(s, "call") /\ pc = "limit"
    BY <1>3 DEF BeginFinalTurn
  <2>2. /\ s.attempt = st.attempt /\ s.history = st.history /\ s.step = st.step
        /\ s.asked = st.asked /\ s.answers = st.answers /\ s.approved = st.approved
        /\ s.granted = st.granted /\ s.phase = "finalizing"
    BY <1>1 DEF RunStates
  <2> HIDE DEF s
  <2>3. Ahead(st, s)
    BY <1>1, <2>2, SameWork
  <2> QED
    BY <1>1, <2>1, <2>2, <2>3, QuietSaveKeeps DEF Settling
<1>4. CASE StartAttempt
  <2> DEFINE s == WithNewAttempt(st)
  <2>1. Save(s, "stream") /\ pc = "call"
    BY <1>4 DEF StartAttempt
  <2>2. Orderly(s) /\ s.attempt.status = "started"
    BY <1>1, OrderlyNewAttempt
  <2>3. /\ s.step = st.step /\ s.asked = st.asked /\ s.answers = st.answers
        /\ s.approved = st.approved /\ s.granted = st.granted /\ s.phase = st.phase
    BY <1>1 DEF WithNewAttempt, RunStates
  <2>4. st.phase # "created"
    BY <2>1 DEF StateInv, AttemptAt
  <2> HIDE DEF s
  <2>5. Ahead(st, s)
    BY <1>1, <2>3, SameWork
  <2>6. Begun(s) /\ AttemptAt("stream", s)
    BY <2>2, <2>3, <2>4 DEF Begun, AttemptAt, Settling
  <2> QED
    BY <1>1, <2>1, <2>2, <2>5, <2>6, SaveKeeps
<1> QED
  BY <1>2, <1>3, <1>4

\* The stream of an attempt.
LEMMA StreamKept == Inv /\ Inv' /\ StateInv /\ (Chunk \/ ModelFails) => Kept
<1> SUFFICES ASSUME Inv, Inv', StateInv, Chunk \/ ModelFails PROVE Kept
  OBVIOUS
<1>1. /\ st \in RunStates /\ Orderly(st) /\ st.attempt # NoAttempt /\ st.phase # "created"
      /\ pc = "stream" /\ pc # "down"
  BY DEF Inv, TypeOK, StateInv, AttemptAt, NoAttempt, Chunk, ModelFails
<1>2. ASSUME NEW x \in {"streaming", "superseded"}, NEW next \in {"stream", "call"},
             next = "call" <=> x = "superseded", Save([st EXCEPT !.attempt.status = x], next)
      PROVE  Kept
  <2> DEFINE s == [st EXCEPT !.attempt.status = x]
  <2>1. Save(s, next)
    BY <1>2
  <2>2. /\ s.attempt = [st.attempt EXCEPT !.status = x] /\ s.history = st.history
        /\ s.step = st.step /\ s.asked = st.asked /\ s.answers = st.answers
        /\ s.approved = st.approved /\ s.granted = st.granted /\ s.phase = st.phase
        /\ st.attempt \in Attempts
    BY <1>1 DEF RunStates
  <2> HIDE DEF s
  <2>3. s.attempt.status = x
    BY <2>2 DEF Attempts
  <2>4. Orderly(s)
    BY <1>1, <2>2, OrderlySettled DEF Current
  <2>5. Begun(s) /\ Ahead(st, s)
    BY <1>1, <2>2, SameWork DEF Begun
  <2>6. AttemptAt(next, s)
    BY <1>1, <1>2, <2>2, <2>3 DEF AttemptAt, Settling, NoneOpen, Superseded
  <2> QED
    BY <1>1, <2>1, <2>4, <2>5, <2>6, SaveKeeps
<1>3. CASE Chunk
  BY <1>2, <1>3 DEF Chunk
<1>4. CASE ModelFails
  <2>1. CASE \E e \in ErrorExits : Goto(e)
    BY <1>1, <2>1, ErrorKeeps DEF ErrorExits
  <2>2. CASE Save([st EXCEPT !.attempt.status = "superseded"], "call")
    BY <1>2, <2>2
  <2> QED
    BY <1>4, <2>1, <2>2 DEF ModelFails
<1> QED
  BY <1>3, <1>4

LEMMA ModelAnswersKept == Inv /\ Inv' /\ StateInv /\ ModelAnswers => Kept
<1> SUFFICES ASSUME Inv, Inv', StateInv, ModelAnswers PROVE Kept
  OBVIOUS
<1>1. /\ st \in RunStates /\ Orderly(st) /\ st.attempt # NoAttempt /\ pc # "down"
  BY DEF Inv, TypeOK, StateInv, AttemptAt, NoAttempt, ModelAnswers
<1>2. CASE Goto("fail")
  BY <1>1, <1>2, ErrorKeeps DEF ErrorExits
<1>3. ASSUME NEW n \in 0 .. MaxCalls,
             Save(WithAnswer(st, n), IF final THEN "hook" ELSE IF n = 0 THEN "complete" ELSE "loop")
      PROVE  Kept
  <2> DEFINE s == WithAnswer(st, n)
             next == IF final THEN "hook" ELSE IF n = 0 THEN "complete" ELSE "loop"
             turn == st.turn + (IF n = 0 THEN 0 ELSE 1)
             p == IF final THEN "completed" ELSE "model"
             past == AppendAttempt(st.history, [st.attempt EXCEPT !.status = "committed"])
             w == [st EXCEPT !.history = past, !.attempt = NoAttempt]
  <2>1. Save(s, next)
    BY <1>3
  <2>2. s = [w EXCEPT !.last = IF n = 0 THEN "text" ELSE "calls", !.turn = turn,
                      !.asked = @ \cup {<<turn, i>> : i \in 1 .. n},
                      !.pending = [i \in 1 .. n |-> <<turn, i>>],
                      !.phase = p, !.status = IF final THEN "completed" ELSE "running"]
    BY DEF WithAnswer, WithCommittedAttempt
  <2> HIDE DEF s, past, turn
  <2>3. /\ s.attempt = NoAttempt /\ s.history = past /\ s.step = st.step
        /\ st.asked \subseteq s.asked /\ s.answers = st.answers
        /\ s.approved = st.approved /\ s.granted = st.granted /\ s.phase = p
    BY <1>1, <2>2 DEF RunStates
  <2>4. Orderly(s)
    BY <1>1, <2>3, OrderlyCommitted DEF past
  <2>5. Ahead(st, s)
    <3>1. Ahead(st, st)
      BY <1>1, AheadSelf
    <3> QED
      BY <2>3, <3>1 DEF Ahead
  <2>6. Begun(s) /\ AttemptAt(next, s)
    BY <2>3 DEF Begun, AttemptAt, NoneOpen
  <2> QED
    BY <1>1, <2>1, <2>4, <2>5, <2>6, SaveKeeps
<1>4. 0 .. (IF st.attempt.status = "started" THEN 0 ELSE MaxCalls) \subseteq 0 .. MaxCalls
  BY BoundsAssumption
<1> QED
  BY <1>2, <1>3, <1>4 DEF ModelAnswers

LEMMA ModelKept == Inv /\ Inv' /\ StateInv /\ Model => Kept
<1> SUFFICES ASSUME Inv, Inv', StateInv, Model PROVE Kept
  OBVIOUS
<1>1. CASE CancelledBackoff
  BY <1>1, ErrorKeeps DEF CancelledBackoff, ErrorExits
<1>2. CASE Complete
  <2> DEFINE s == [st EXCEPT !.phase = "completed", !.status = "completed"]
  <2>1. Save(s, "hook") /\ pc = "complete"
    BY <1>2 DEF Complete
  <2>2. /\ s.attempt = st.attempt /\ s.history = st.history /\ s.step = st.step
        /\ s.asked = st.asked /\ s.answers = st.answers /\ s.approved = st.approved
        /\ s.granted = st.granted /\ s.phase = "completed" /\ st \in RunStates
    BY DEF Inv, TypeOK, RunStates
  <2> HIDE DEF s
  <2>3. Ahead(st, s)
    BY <2>2, SameWork
  <2> QED
    BY <2>1, <2>2, <2>3, QuietSaveKeeps DEF Settling
<1> QED
  BY <1>1, <1>2, TurnKept, StreamKept, ModelAnswersKept DEF Model

LEMMA HookKept == Inv /\ Inv' /\ StateInv /\ Hook => Kept
<1> SUFFICES ASSUME Inv, Inv', StateInv, Hook PROVE Kept
  OBVIOUS
<1>1. CASE HookAllows \/ HookExhausted
  BY <1>1, ExitUnstoredKeeps DEF HookAllows, HookExhausted, Conclude
<1>2. CASE HookRefuses
  <2>1. /\ st' = [st EXCEPT !.phase = "model", !.status = "running", !.pending = <<>>, !.last = "user"]
        /\ ckpt' = ckpt /\ pc \in {"hook", "rehook"} /\ pc' \in {"blocked", "loop"}
    BY <1>2 DEF HookRefuses
  <2>2. st \in RunStates /\ ckpt \in RunStates
    BY DEF Inv, TypeOK
  <2>3. /\ st'.attempt = st.attempt /\ st'.history = st.history /\ st'.step = st.step
        /\ st'.asked = st.asked /\ st'.answers = st.answers /\ st'.approved = st.approved
        /\ st'.granted = st.granted /\ st'.phase = "model"
    BY <2>1, <2>2 DEF RunStates
  <2>4. Orderly(st')
    BY <2>3, OrderlySame DEF StateInv
  <2>5. Begun(st') /\ AttemptAt(pc', st')
    BY <2>1, <2>3 DEF StateInv, Begun, AttemptAt, NoneOpen, Superseded, Settling
  <2>6. Orderly(ckpt') /\ Begun(ckpt')
    BY <2>1 DEF StateInv
  <2>7. Orderly(st)' /\ Orderly(ckpt)' /\ Begun(st)' /\ Begun(ckpt)' /\ AttemptAt(pc, st)'
    BY <2>4, <2>5, <2>6 DEF Orderly, Held, Chained, After, Succeeds, Linked, Begun, AttemptAt,
                            NoneOpen, Superseded
  <2>8. Ahead(ckpt, st)' /\ Ahead(ckpt, ckpt')
    BY <2>1, <2>2, <2>3, AheadSelf DEF StateInv, Ahead
  <2> QED
    BY <2>7, <2>8 DEF Kept, StateInv
<1>3. CASE HookFails
  BY <1>3, ErrorKeeps DEF HookFails
<1>4. CASE SaveRefusal
  <2>1. /\ Save(st, IF final THEN "call" ELSE "loop") /\ pc = "blocked"
        /\ st.phase # "created" /\ st \in RunStates
    BY <1>4 DEF SaveRefusal, StateInv, AttemptAt, Inv, TypeOK
  <2> QED
    BY <2>1, SameWork, QuietSaveKeeps DEF Settling
<1> QED
  BY <1>1, <1>2, <1>3, <1>4 DEF Hook

LEMMA ToolKept == Inv /\ Inv' /\ StateInv /\ Tool => Kept
<1> SUFFICES ASSUME Inv, Inv', StateInv, Tool PROVE Kept
  OBVIOUS
<1>1. CASE PopCall
  <2> DEFINE s == [st EXCEPT !.pending = Tail(@), !.active = Head(st.pending),
                             !.phase = "tool", !.status = "tool"]
  <2>1. Save(s, "invoke") /\ pc = "tools"
    BY <1>1 DEF PopCall
  <2>2. /\ s.attempt = st.attempt /\ s.history = st.history /\ s.step = st.step
        /\ s.asked = st.asked /\ s.answers = st.answers /\ s.approved = st.approved
        /\ s.granted = st.granted /\ s.phase = "tool" /\ st \in RunStates
    BY DEF Inv, TypeOK, RunStates
  <2> HIDE DEF s
  <2>3. Ahead(st, s)
    BY <2>2, SameWork
  <2> QED
    BY <2>1, <2>2, <2>3, QuietSaveKeeps DEF Settling
<1>2. CASE ToolsDone
  <2>1. pc' \in {"cancel", "loop"} /\ UNCHANGED <<ckpt, st>> /\ pc = "tools"
    BY <1>2 DEF ToolsDone, Goto, durable
  <2>2. AttemptAt(pc', st)
    BY <2>1 DEF StateInv, AttemptAt, Settling
  <2> QED
    BY <2>1, <2>2, GotoKeeps
<1>3. CASE Execute
  <2>1. pc' = "record" /\ UNCHANGED <<ckpt, st>> /\ pc \in {"invoke", "execute"}
    BY <1>3 DEF Execute, durable
  <2>2. AttemptAt(pc', st)
    BY <2>1 DEF StateInv, AttemptAt, Settling
  <2> QED
    BY <2>1, <2>2, GotoKeeps
<1>4. CASE ReuseGrant
  <2> DEFINE s == [st EXCEPT !.waiting = FALSE]
  <2>1. Save(s, "execute") /\ pc = "invoke"
    BY <1>4 DEF ReuseGrant
  <2>2. /\ s.attempt = st.attempt /\ s.history = st.history /\ s.step = st.step
        /\ s.asked = st.asked /\ s.answers = st.answers /\ s.approved = st.approved
        /\ s.granted = st.granted /\ s.phase = st.phase /\ st \in RunStates
    BY DEF Inv, TypeOK, RunStates
  <2> HIDE DEF s
  <2>3. Ahead(st, s)
    BY <2>2, SameWork
  <2> QED
    BY <2>1, <2>2, <2>3, QuietSaveKeeps DEF Settling
<1>5. CASE Record
  <2> DEFINE answers == [st.answers EXCEPT ![st.active] = @ + 1]
             s == [st EXCEPT !.active = NoCall, !.answers[st.active] = @ + 1,
                             !.last = "tool", !.status = "running"]
             next == IF pc = "record" THEN "tools" ELSE "resume"
  <2>1. Save(s, next) /\ pc \in {"record", "rerecord"}
    BY <1>5 DEF Record
  <2>2. /\ s.attempt = st.attempt /\ s.history = st.history /\ s.step = st.step
        /\ s.asked = st.asked /\ s.answers = answers /\ s.approved = st.approved
        /\ s.granted = st.granted /\ s.phase = st.phase /\ st \in RunStates
    BY DEF Inv, TypeOK, RunStates
  <2> HIDE DEF s
  <2>3. \A c \in CallIds : answers[c] >= st.answers[c]
    <3>1. st.answers \in [CallIds -> Nat]
      BY <2>2 DEF RunStates
    <3> DEFINE f == st.answers
    <3>2. f \in [CallIds -> Nat] /\ answers = [f EXCEPT ![st.active] = @ + 1]
      BY <3>1
    <3> HIDE DEF f, answers
    <3>3. \A c \in CallIds : answers[c] >= f[c]
      BY <3>2
    <3> QED
      BY <3>3 DEF f
  <2>4. Ahead(st, s)
    <3>1. Ahead(st, st)
      BY <2>2, AheadSelf
    <3> QED
      BY <2>2, <2>3, <3>1 DEF Ahead
  <2> QED
    BY <2>1, <2>2, <2>4, QuietSaveKeeps DEF Settling
<1> QED
  BY <1>1, <1>2, <1>3, <1>4, <1>5 DEF Tool

LEMMA ApprovalKept == Inv /\ Inv' /\ StateInv /\ Approval => Kept
<1> SUFFICES ASSUME Inv, Inv', StateInv, Approval PROVE Kept
  OBVIOUS
<1>1. CASE AskApproval
  <2> DEFINE s == [st EXCEPT !.waiting = TRUE, !.phase = "approval", !.status = "waiting"]
  <2>1. Save(s, "ask") /\ pc = "invoke"
    BY <1>1 DEF AskApproval
  <2>2. /\ s.attempt = st.attempt /\ s.history = st.history /\ s.step = st.step
        /\ s.asked = st.asked /\ s.answers = st.answers /\ s.approved = st.approved
        /\ s.granted = st.granted /\ s.phase = "approval" /\ st \in RunStates
    BY DEF Inv, TypeOK, RunStates
  <2> HIDE DEF s
  <2>3. Ahead(st, s)
    BY <2>2, SameWork
  <2> QED
    BY <2>1, <2>2, <2>3, QuietSaveKeeps DEF Settling
<1>2. CASE PublishRequest
  BY <1>2, RequestedKept DEF PublishRequest, Settling
<1>3. CASE RequeueApproved
  <2> DEFINE s == [st EXCEPT !.pending = <<st.active>> \o @, !.active = NoCall,
                             !.approved = @ \cup {st.active}, !.status = "running"]
  <2>1. Save(s, "resume") /\ pc = "requeue"
    BY <1>3 DEF RequeueApproved
  <2>2. /\ s.attempt = st.attempt /\ s.history = st.history /\ s.step = st.step
        /\ s.asked = st.asked /\ s.answers = st.answers /\ st.approved \subseteq s.approved
        /\ s.granted = st.granted /\ s.phase = st.phase /\ st \in RunStates
    BY DEF Inv, TypeOK, RunStates
  <2> HIDE DEF s
  <2>3. Ahead(st, s)
    BY <2>2, SameWork
  <2> QED
    BY <2>1, <2>2, <2>3, QuietSaveKeeps DEF Settling
<1> QED
  BY <1>1, <1>2, <1>3 DEF Approval

\* What an operator decides, or fails to.
LEMMA OperatorKept == Inv /\ Inv' /\ StateInv /\ Operator => Kept
<1> SUFFICES ASSUME Inv, Inv', StateInv, Operator PROVE Kept
  OBVIOUS
<1>1. pc \in {"await", "reawait"} /\ st \in RunStates
  BY DEF Operator, Approve, Reject, Abort, BrokerFails, Inv, TypeOK
<1>2. ASSUME NEW given, Approve(given) PROVE Kept
  <2> DEFINE s == [st EXCEPT !.waiting = FALSE, !.status = "running", !.granted = @ \cup given]
             next == IF pc = "await" THEN "execute" ELSE "requeue"
  <2>1. Save(s, next)
    BY <1>2 DEF Approve
  <2>2. /\ s.attempt = st.attempt /\ s.history = st.history /\ s.step = st.step
        /\ s.asked = st.asked /\ s.answers = st.answers /\ s.approved = st.approved
        /\ st.granted \subseteq s.granted /\ s.phase = st.phase
    BY <1>1 DEF RunStates
  <2> HIDE DEF s
  <2>3. Ahead(st, s)
    BY <1>1, <2>2, SameWork
  <2> QED
    BY <1>1, <2>1, <2>2, <2>3, QuietSaveKeeps DEF Settling
<1>3. ASSUME NEW next \in {"record", "rerecord", "cancel"}, Resolved(next),
             next = "record" => pc = "await"
      PROVE  Kept
  <2> DEFINE s == [st EXCEPT !.waiting = FALSE, !.status = "running"]
  <2>1. Save(s, next)
    BY <1>3 DEF Resolved
  <2>2. /\ s.attempt = st.attempt /\ s.history = st.history /\ s.step = st.step
        /\ s.asked = st.asked /\ s.answers = st.answers /\ s.approved = st.approved
        /\ s.granted = st.granted /\ s.phase = st.phase
    BY <1>1 DEF RunStates
  <2> HIDE DEF s
  <2>3. Ahead(st, s)
    BY <1>1, <2>2, SameWork
  <2> QED
    BY <1>1, <1>3, <2>1, <2>2, <2>3, QuietSaveKeeps DEF Settling
<1>4. CASE Reject \/ Abort
  BY <1>3, <1>4 DEF Reject, Abort
<1>5. CASE BrokerFails
  BY <1>1, <1>5, ErrorKeeps DEF BrokerFails
<1> QED
  BY <1>2, <1>4, <1>5 DEF Operator

LEMMA EndKept == Inv /\ Inv' /\ StateInv /\ (FailRun \/ CancelRun \/ Report) => Kept
<1> SUFFICES ASSUME Inv, Inv', StateInv, FailRun \/ CancelRun \/ Report PROVE Kept
  OBVIOUS
<1>1. CASE Report
  BY <1>1, ExitUnstoredKeeps DEF Report, Conclude
<1>2. ASSUME NEW outcome \in {"failed", "cancelled"}, NEW at \in {"fail", "cancel"},
             Finish(outcome, at, "report")
      PROVE  Kept
  <2> DEFINE s == [st EXCEPT !.phase = outcome, !.status = outcome]
  <2>1. /\ pc = at
        /\ \/ ckpt' = s /\ st' = s /\ pc' = "report"
           \/ ckpt' \in {ckpt, s} /\ Exit
    BY <1>2 DEF Finish
  <2>2. /\ s.attempt = st.attempt /\ s.history = st.history /\ s.step = st.step
        /\ s.asked = st.asked /\ s.answers = st.answers /\ s.approved = st.approved
        /\ s.granted = st.granted /\ s.phase = outcome /\ st \in RunStates /\ ckpt \in RunStates
    BY DEF Inv, TypeOK, RunStates
  <2> HIDE DEF s
  <2>3. Ahead(st, s) /\ Orderly(s) /\ Begun(s)
    BY <2>2, SameWork, OrderlySame DEF StateInv, Begun
  <2>4. CASE ckpt' = s /\ st' = s /\ pc' = "report"
    <3>1. s \in RunStates
      BY <2>4 DEF Inv, TypeOK
    <3>2. Ahead(ckpt, ckpt') /\ Ahead(ckpt', st')
      BY <2>1, <2>2, <2>3, <2>4, <3>1, AheadTwice, AheadSelf DEF StateInv
    <3>3. AttemptAt(pc', st')
      BY <2>4 DEF AttemptAt, Settling
    <3>4. Orderly(st)' /\ Orderly(ckpt)' /\ Begun(st)' /\ Begun(ckpt)' /\ AttemptAt(pc, st)'
      BY <2>3, <2>4, <3>3 DEF Orderly, Held, Chained, After, Succeeds, Linked, Begun, AttemptAt,
                              NoneOpen, Superseded
    <3> QED
      BY <3>2, <3>4 DEF Kept, StateInv, Ahead
  <2>5. CASE ckpt' \in {ckpt, s} /\ Exit
    <3>1. ckpt' \in RunStates
      BY DEF Inv, TypeOK
    <3>2. Ahead(ckpt, ckpt')
      <4>1. CASE ckpt' = ckpt
        BY <2>2, <4>1, AheadSelf
      <4>2. CASE ckpt' = s
        BY <2>1, <2>2, <2>3, <3>1, <4>2, AheadTwice DEF StateInv
      <4> QED
        BY <2>5, <4>1, <4>2
    <3>3. Orderly(ckpt') /\ Begun(ckpt')
      BY <2>3, <2>5 DEF StateInv
    <3> QED
      BY <2>5, <3>2, <3>3, ExitKeeps
  <2> QED
    BY <2>1, <2>4, <2>5
<1> QED
  BY <1>1, <1>2 DEF FailRun, CancelRun

-----------------------------------------------------------------------------
LEMMA InitState == Init => StateInv
BY FreshOrderly DEF Init, StateInv, Begun, AttemptAt, Settling, FreshState, NoCheckpoint

LEMMA NextState == Inv /\ Inv' /\ StateInv /\ [Next]_vars => Kept
<1> SUFFICES ASSUME Inv, Inv', StateInv, [Next]_vars PROVE Kept
  OBVIOUS
<1>1. CASE Cancel
  <2>1. UNCHANGED <<ckpt, st>> /\ pc # "down" /\ AttemptAt(pc', st)
    BY <1>1 DEF Cancel, durable, StateInv, AttemptAt
  <2> QED
    BY <2>1, GotoKeeps
<1>2. CASE Crash
  BY <1>2, ExitUnstoredKeeps DEF Crash, durable
<1>3. CASE cancelled /\ BrokerFails
  BY <1>3, OperatorKept DEF Operator
<1>4. CASE UNCHANGED vars
  <2>1. ckpt \in RunStates /\ UNCHANGED <<ckpt, st, pc>>
    BY <1>4 DEF Inv, TypeOK, vars
  <2>2. Ahead(ckpt, ckpt')
    BY <2>1, AheadSelf
  <2>3. Orderly(st)' /\ Orderly(ckpt)' /\ Begun(st)' /\ Begun(ckpt)'
    BY <2>1 DEF StateInv, Orderly, Held, Chained, After, Succeeds, Linked, Begun
  <2>4. AttemptAt(pc, st)' /\ (pc # "down" => Ahead(ckpt, st))'
    BY <2>1 DEF StateInv, AttemptAt, NoneOpen, Superseded, Ahead
  <2> QED
    BY <2>2, <2>3, <2>4 DEF Kept, StateInv
<1> QED
  BY <1>1, <1>2, <1>3, <1>4, LaunchEnterKept, ResumeKept, LoopKept, ModelKept, HookKept,
     ToolKept, ApprovalKept, OperatorKept, EndKept DEF Next, Driven

\* The attempts of every state in memory and in the checkpoint are in order.
THEOREM StateInvariance == Spec => []StateInv
<1>1. Inv /\ Inv' /\ StateInv /\ [Next]_vars => StateInv'
  BY NextState DEF Kept
<1> QED
  BY <1>1, InitState, Invariance, PTL DEF Spec

\* No crash and no failed write leaves behind a checkpoint that a later resume
\* refuses to load, whatever length the attempt history is limited to.
THEOREM SavedStatesLoad == Spec => []SavedStateLoads
<1>1. Inv /\ StateInv => SavedStateLoads
  BY OrderlyLoads DEF Inv, TypeOK, StateInv, SavedStateLoads
<1> QED
  BY <1>1, Invariance, StateInvariance, PTL

\* What a checkpoint holds of the run's work, every later checkpoint holds.
THEOREM WorkSurvives == Spec => CommittedWorkSurvives
<1>1. Inv /\ Inv' /\ StateInv /\ [Next]_vars =>
        [ckpt.phase # "none" =>
           /\ ckpt'.step >= ckpt.step
           /\ ckpt.asked \subseteq ckpt'.asked
           /\ \A c \in CallIds : ckpt'.answers[c] >= ckpt.answers[c]
           /\ ckpt.approved \subseteq ckpt'.approved
           /\ ckpt.granted \subseteq ckpt'.granted]_vars
  BY NextState DEF Kept, Ahead
<1> QED
  BY <1>1, Invariance, StateInvariance, PTL DEF Spec, CommittedWorkSurvives
===============================================================================
