-------------------------- MODULE JournalStreamProofs --------------------------
(***************************************************************************)
(* Proofs about JournalStream for any number of turns, records and faults  *)
(* and any size of a page.  What the host serves, on the stream or as a    *)
(* page, is a part of the log, and so is the window that the browser puts  *)
(* together from it, as long as nothing has made its numbers wrong: `skew` *)
(* names what may have, for each of them.                                  *)
(***************************************************************************)
EXTENDS JournalStream, SequenceTheorems, WellFoundedInduction, TLAPS

Causes == {"title", "prompt"}
Pages == [tail : Nat, recs : Seq(Nat), more : BOOLEAN]
Openings == [type : {"opened"}, cursor : Nat \cup {Empty}, page : Pages]
Entries == [type : {"entry"}, seq : Nat, rec : Nat, turn : Nat]
Places == [phase : {"pump", "await", "locate"}, turn : Nat, offset : Nat, sent : Nat, ahead : BOOLEAN]
Repairs == [state : {"asked", "answered"}, round : {1, 2}, through : Nat, queued : Seq(Entries), page : Pages]
Reads == [state : {"asked", "answered"}, through : Int, before : Nat, page : Pages]

\* The shape of every variable.
Shape ==
  /\ log \in Seq(Nat) /\ starts \in Seq(Nat) /\ ends \in Seq(Nat \cup {Running, Orphaned})
  /\ Len(ends) = Len(starts) /\ closed \subseteq DOMAIN starts
  /\ srv \in {NoStream} \cup Places /\ wire \in Seq(Openings \cup Entries)
  /\ online \in BOOLEAN /\ ready \in BOOLEAN /\ opened \in BOOLEAN /\ more \in BOOLEAN
  /\ phase \in {"cold", "opening", "live", "waiting", "error"} /\ attempt \in 0 .. 2
  /\ why \in {"none", "carrier", "page", "violation", "gaps"}
  /\ base \in Nat /\ win \in Seq(Nat)
  /\ repair \in {NoRepair} \cup Repairs /\ older \in {NoPage} \cup Reads
  /\ skew \in [stream : SUBSET Causes, window : SUBSET Causes, older : SUBSET Causes]
  /\ faults \in 0 .. MaxFaults

\* The turns divide the log.
Conversation ==
  /\ Turns = 0 => log = <<>>
  /\ Turns > 0 => starts[1] = 0
  /\ \A t \in 1 .. Turns : starts[t] <= Len(log)
  /\ \A t \in 1 .. Turns - 1 : starts[t] <= starts[t + 1]
  /\ Turns <= MaxTurns /\ Len(log) <= MaxRecords + Turns
  /\ Turns > 0 /\ starts[Turns] = Len(log) => Len(log) < MaxRecords + Turns

\* The host's goroutine numbers the records of its turn as the log does, unless a title or
\* a prompt has come between; without a prompt it never numbers them too high.
Server ==
  /\ srv # NoStream => srv.turn > 0
  /\ srv.phase = "locate" => srv.turn > 1
  /\ srv # NoStream /\ srv.turn <= Turns /\ srv.phase = "pump" =>
       /\ srv.sent <= Size(srv.turn) /\ srv.offset <= Len(log)
       /\ srv.turn = 1 => srv.offset = 0
       /\ "prompt" \notin skew.stream => srv.offset <= starts[srv.turn]
       /\ skew.stream = {} => srv.offset = starts[srv.turn]
  /\ srv # NoStream /\ srv.turn > Turns =>
       srv.phase = "pump" /\ Turns = 0 /\ srv.turn = 1 /\ srv.offset = 0 /\ srv.sent = 0

\* A page and an entry of the log l, which may be misnumbered for the causes c.
PageOf(l, c, p) ==
  /\ p.tail <= Len(l) /\ Len(p.recs) <= p.tail /\ (p.tail > 0 => Len(p.recs) > 0)
  /\ p.more => p.tail > 0
  /\ c = {} => \A i \in 1 .. Len(p.recs) : p.recs[i] = l[p.tail - Len(p.recs) + i]
EntryOf(l, c, e) ==
  /\ e.seq > 0 /\ e.seq <= Len(l) + Len(l) /\ ("prompt" \notin c => e.seq <= Len(l))
  /\ c = {} => e.rec = l[e.seq]

\* A stream begins with its opening frame, which is not behind what was applied.
FrameOf(l, c, f) ==
  /\ f \in Openings => PageOf(l, c, f.page) /\ f.cursor = PageTail(f.page)
  /\ f \in Entries => EntryOf(l, c, f)
Wire ==
  /\ \A i \in 1 .. Len(wire) : FrameOf(log, skew.stream, wire[i])
  /\ phase \in {"cold", "waiting", "error"} => srv = NoStream
  /\ phase = "live" => srv # NoStream
  /\ srv = NoStream => wire = <<>>
  /\ srv # NoStream /\ phase = "opening" =>
       /\ Len(wire) > 0 /\ wire[1] \in Openings /\ ("prompt" \notin skew.window => wire[1].cursor >= last)
       /\ \A i \in 2 .. Len(wire) : wire[i] \in Entries
  /\ phase = "live" => \A i \in 1 .. Len(wire) : wire[i] \in Entries

\* A stream that is still in the first turn has numbered nothing behind it, so that no
\* title goes in front of what it has numbered.
FirstTurn == IF Turns <= 1 THEN Len(log) ELSE starts[2]
EarlyFrame(n, f) == (f \in Openings => f.page.tail <= n) /\ (f \in Entries => f.seq <= n)
EarlyRepair(n, r) == r # NoRepair => r.through <= n /\ \A i \in 1 .. Len(r.queued) : r.queued[i].seq <= n
Early == srv.turn <= 1 =>
  (\A i \in 1 .. Len(wire) : EarlyFrame(FirstTurn, wire[i])) /\ EarlyRepair(FirstTurn, repair)

\* The window is a run of the log up to the cursor.
WindowOf(l, c, b, w) ==
  /\ w = <<>> <=> b = 0
  /\ c = {} => \A i \in 1 .. Len(w) : b + i - 1 \in 1 .. Len(l) /\ w[i] = l[b + i - 1]
Window ==
  /\ last \in {None, Empty} \/ last \in Nat \ {0}
  /\ "prompt" \notin skew.window => last <= Len(log)
  /\ opened => /\ WindowOf(log, skew.window, base, win) /\ last = base + Len(win) - 1
               /\ more => win # <<>>
               /\ phase \in {"opening", "live", "waiting"}
  /\ phase = "live" => opened

\* A violation is met only after a prompt fell between the two reads of a follower.
Alarm ==
  /\ phase # "error" => why = "none"
  /\ why = "violation" => "prompt" \in skew.stream \cup skew.window

\* What is being read is read for the window that is shown.
Mending ==
  /\ phase = "live" /\ repair.through > last /\ repair.through > 0
  /\ repair.through <= Len(log) + Len(log) /\ ("prompt" \notin skew.stream => repair.through <= Len(log))
  /\ Len(repair.queued) > 0
  /\ \A i \in 1 .. Len(repair.queued) : EntryOf(log, skew.stream, repair.queued[i])
  /\ repair.state = "answered" =>
       /\ PageOf(log, skew.stream, repair.page) /\ repair.page.tail <= repair.through
       /\ "prompt" \notin skew.stream => repair.page.tail = repair.through
Loading ==
  /\ opened /\ win # <<>> /\ older.before > 0
  /\ older.state = "answered" => PageOf(log, skew.older, older.page)
Reading == (repair # NoRepair => Mending) /\ (older # NoPage => Loading)

Inv == Shape /\ Conversation /\ Server /\ Wire /\ Early /\ Window /\ Alarm /\ Reading

-----------------------------------------------------------------------------
\* A part of a sequence, and one more element.
LEMMA Parts ==
  ASSUME NEW X, NEW s \in Seq(X), NEW a \in Int, NEW b \in Int, a >= 1, b <= Len(s)
  PROVE  /\ SubSeq(s, a, b) \in Seq(X)
         /\ Len(SubSeq(s, a, b)) = IF a <= b THEN b - a + 1 ELSE 0
         /\ \A i \in 1 .. b - a + 1 : SubSeq(s, a, b)[i] = s[a + i - 1]
<1>1. CASE a > b
  <2>1. SubSeq(s, a, b) = <<>>
    BY <1>1, SubSeqProperties
  <2>2. <<>> \in Seq(X) /\ Len(<<>>) = 0
    OBVIOUS
  <2> QED
    BY <1>1, <2>1, <2>2
<1>2. CASE a <= b
  <2>1. \A i \in a .. b : s[i] \in X
    BY <1>2, ElementOfSeq
  <2>2. SubSeq(s, a, b) = [i \in 1 .. b - a + 1 |-> s[a + i - 1]]
    BY <1>2
  <2>3. SubSeq(s, a, b) \in [1 .. b - a + 1 -> X]
    BY <1>2, <2>1, <2>2
  <2>4. SubSeq(s, a, b) \in Seq(X) /\ Len(SubSeq(s, a, b)) = b - a + 1
    BY <1>2, <2>3, LenProperties
  <2> QED
    BY <1>2, <2>2, <2>4
<1> QED
  BY <1>1, <1>2

LEMMA Appended ==
  ASSUME NEW X, NEW s \in Seq(X), NEW x \in X
  PROVE  /\ Append(s, x) \in Seq(X) /\ Len(Append(s, x)) = Len(s) + 1
         /\ \A i \in 1 .. Len(s) : Append(s, x)[i] = s[i]
         /\ Append(s, x)[Len(s) + 1] = x
BY AppendProperties

LEMMA Joined ==
  ASSUME NEW X, NEW s \in Seq(X), NEW t \in Seq(X)
  PROVE  /\ s \o t \in Seq(X) /\ Len(s \o t) = Len(s) + Len(t)
         /\ \A i \in 1 .. Len(s) : (s \o t)[i] = s[i]
         /\ \A i \in 1 .. Len(t) : (s \o t)[Len(s) + i] = t[i]
<1>1. Len(s) \in Nat /\ Len(t) \in Nat
  OBVIOUS
<1>2. /\ s \o t \in Seq(X) /\ Len(s \o t) = Len(s) + Len(t)
      /\ \A i \in 1 .. Len(s) + Len(t) : (s \o t)[i] = IF i <= Len(s) THEN s[i] ELSE t[i - Len(s)]
  BY ConcatProperties
<1> QED
  BY <1>1, <1>2

LEMMA Rest ==
  ASSUME NEW X, NEW s \in Seq(X), s # <<>>
  PROVE  /\ Head(s) = s[1] /\ s[1] \in X /\ Len(s) \in Nat \ {0}
         /\ Tail(s) \in Seq(X) /\ Len(Tail(s)) = Len(s) - 1
         /\ \A i \in 1 .. Len(s) - 1 : Tail(s)[i] = s[i + 1]
BY HeadTailProperties, ElementOfSeq, EmptySeq

\* A set of numbers has a least one, and one that is bounded a greatest.
LEMMA LeastOf == ASSUME NEW S, S \subseteq Nat, S # {} PROVE \E m \in S : \A n \in S : m <= n
<1> DEFINE R == OpToRel(<, Nat)
<1>1. PICK m \in S : \A n \in S : <<n, m>> \notin R
  <2>1. IsWellFoundedOn(R, Nat)
    BY NatLessThanWellFounded
  <2> HIDE DEF R
  <2> QED
    BY <2>1, WFMin
<1>2. ASSUME NEW n \in S PROVE m <= n
  <2>1. m \in Nat /\ n \in Nat /\ <<n, m>> \in Nat \X Nat
    OBVIOUS
  <2>2. n < m => <<n, m>> \in R
    BY <2>1 DEF OpToRel
  <2> HIDE DEF R
  <2> QED
    BY <1>1, <2>1, <2>2
<1> QED
  BY <1>2

LEMMA GreatestOf ==
  ASSUME NEW b \in Nat, NEW S, S \subseteq 1 .. b, S # {} PROVE \E m \in S : \A n \in S : n <= m
<1> DEFINE T == {b - n : n \in S}
<1>1. T \subseteq Nat /\ T # {}
  <2>1. \A n \in S : b - n \in Nat
    OBVIOUS
  <2>2. PICK n \in S : TRUE
    OBVIOUS
  <2>3. b - n \in T
    OBVIOUS
  <2> QED
    BY <2>1, <2>3
<1>2. PICK k \in T : \A n \in T : k <= n
  <2> HIDE DEF T
  <2> QED
    BY <1>1, LeastOf
<1>3. PICK m \in S : k = b - m
  OBVIOUS
<1>4. ASSUME NEW n \in S PROVE n <= m
  <2>1. b - n \in T
    OBVIOUS
  <2>2. b - m <= b - n
    BY <1>2, <1>3, <2>1
  <2>3. m \in Nat /\ n \in Nat
    OBVIOUS
  <2> HIDE DEF T
  <2> QED
    BY <2>2, <2>3
<1> QED
  BY <1>4

LEMMA Bounds == MaxTurns \in Nat /\ MaxRecords \in Nat /\ MaxFaults \in Nat /\ PageSize \in Nat \ {0}
BY JournalAssumption

-----------------------------------------------------------------------------
\* What is part of the log stays so while the log grows behind it.
Grows(l, m, k) == Len(l) <= Len(m) /\ \A i \in 1 .. k : m[i] = l[i]

LEMMA Counted ==
  ASSUME NEW t \in Nat, NEW n \in Nat, NEW k \in Nat, NEW i \in 1 .. n, n <= t, t <= k
  PROVE  t - n + i \in 1 .. k
OBVIOUS

LEMMA PagesStay ==
  ASSUME NEW l \in Seq(Nat), NEW m \in Seq(Nat), NEW k \in 0 .. Len(l), Grows(l, m, k),
         NEW c \in SUBSET Causes, NEW d \in SUBSET Causes, c \subseteq d,
         NEW p \in Pages, PageOf(l, c, p), d = {} => p.tail <= k
  PROVE  PageOf(m, d, p)
<1>1. p.tail \in Nat /\ Len(p.recs) \in Nat /\ Len(l) \in Nat /\ Len(m) \in Nat
  BY DEF Pages
<1>2. ASSUME d = {}, NEW i \in 1 .. Len(p.recs) PROVE p.recs[i] = m[p.tail - Len(p.recs) + i]
  <2>1. c = {} /\ p.tail <= k
    BY <1>2
  <2>2. Len(p.recs) <= p.tail
    BY DEF PageOf
  <2>3. p.recs[i] = l[p.tail - Len(p.recs) + i]
    BY <2>1 DEF PageOf
  <2>4. p.tail - Len(p.recs) + i \in 1 .. k
    BY <1>1, <2>1, <2>2, Counted
  <2> QED
    BY <2>3, <2>4 DEF Grows
<1> QED
  BY <1>1, <1>2 DEF PageOf, Grows

LEMMA EntriesStay ==
  ASSUME NEW l \in Seq(Nat), NEW m \in Seq(Nat), NEW k \in 0 .. Len(l), Grows(l, m, k),
         NEW c \in SUBSET Causes, NEW d \in SUBSET Causes, c \subseteq d,
         NEW e \in Entries, EntryOf(l, c, e), d = {} => e.seq <= k
  PROVE  EntryOf(m, d, e)
<1>1. Len(l) \in Nat /\ Len(m) \in Nat /\ e.seq \in Nat
  BY DEF Entries
<1>2. d = {} => e.rec = m[e.seq]
  <2>1. d = {} => c = {} /\ e.seq \in 1 .. k
    BY <1>1 DEF EntryOf
  <2> QED
    BY <2>1 DEF EntryOf, Grows
<1>3. /\ e.seq > 0 /\ e.seq <= Len(m) + Len(m)
      /\ "prompt" \notin d => e.seq <= Len(m)
  <2>1. "prompt" \notin d => "prompt" \notin c
    OBVIOUS
  <2> QED
    BY <1>1, <2>1 DEF EntryOf, Grows
<1> QED
  BY <1>2, <1>3 DEF EntryOf

LEMMA WindowsStay ==
  ASSUME NEW l \in Seq(Nat), NEW m \in Seq(Nat), NEW k \in 0 .. Len(l), Grows(l, m, k),
         NEW c \in SUBSET Causes, NEW d \in SUBSET Causes, c \subseteq d,
         NEW b \in Nat, NEW w \in Seq(Nat), WindowOf(l, c, b, w), d = {} => b + Len(w) - 1 <= k
  PROVE  WindowOf(m, d, b, w)
<1>1. Len(l) \in Nat /\ Len(m) \in Nat /\ Len(w) \in Nat
  OBVIOUS
<1>2. ASSUME d = {}, NEW i \in 1 .. Len(w) PROVE b + i - 1 \in 1 .. Len(m) /\ w[i] = m[b + i - 1]
  <2>1. b + i - 1 \in 1 .. Len(l) /\ w[i] = l[b + i - 1]
    BY <1>2 DEF WindowOf
  <2>2. b + i - 1 <= k
    BY <1>1, <1>2
  <2>3. b + i - 1 \in 1 .. k /\ b + i - 1 \in 1 .. Len(m)
    BY <1>1, <2>1, <2>2 DEF Grows
  <2> QED
    BY <2>1, <2>3 DEF Grows
<1> QED
  BY <1>2 DEF WindowOf

LEMMA Kinds ==
  /\ NoStream \notin Places /\ NoRepair \notin Repairs /\ NoPage \notin Reads
  /\ \A f \in Openings : f \notin Entries
  /\ NoStream.phase = "off" /\ NoStream.turn = 0 /\ NoRepair.state = "none" /\ NoPage.state = "none"
<1>1. \A s \in Places : s.phase \in {"pump", "await", "locate"}
  BY DEF Places
<1>2. NoStream.phase = "off" /\ NoStream.turn = 0 /\ NoRepair.state = "none" /\ NoPage.state = "none"
  BY DEF NoStream, NoRepair, NoPage
<1>3. \A r \in Repairs : r.state \in {"asked", "answered"}
  BY DEF Repairs
<1>4. \A r \in Reads : r.state \in {"asked", "answered"}
  BY DEF Reads
<1>5. \A f \in Openings : f.type = "opened"
  BY DEF Openings
<1>6. \A f \in Entries : f.type = "entry"
  BY DEF Entries
<1> QED
  BY <1>1, <1>2, <1>3, <1>4, <1>5, <1>6

\* The numbers of causes, and of turns.
LEMMA Skews ==
  ASSUME Inv
  PROVE  /\ skew.stream \in SUBSET Causes /\ skew.window \in SUBSET Causes /\ skew.older \in SUBSET Causes
         /\ srv.turn \in Nat /\ FirstTurn \in Nat /\ FirstTurn <= Len(log)
<1>1. /\ log \in Seq(Nat) /\ starts \in Seq(Nat) /\ Len(log) \in Nat /\ Turns = Len(starts) /\ Turns \in Nat
  BY DEF Inv, Shape, Turns
<1>2. srv.turn \in Nat
  BY Kinds DEF Inv, Shape, Places
<1>3. Turns > 1 => starts[2] \in Nat /\ starts[2] <= Len(log)
  <2>1. Turns > 1 => 2 \in 1 .. Len(starts)
    BY <1>1
  <2> QED
    BY <1>1, <2>1, ElementOfSeq DEF Inv, Conversation
<1>4. FirstTurn \in Nat /\ FirstTurn <= Len(log)
  BY <1>1, <1>3 DEF FirstTurn
<1> QED
  BY <1>2, <1>4 DEF Inv, Shape

LEMMA RepairIs ==
  ASSUME Inv, repair # NoRepair
  PROVE  /\ repair \in Repairs /\ repair.through \in Nat /\ repair.page \in Pages /\ repair.page.tail \in Nat
         /\ repair.queued \in Seq(Entries) /\ Len(repair.queued) \in Nat
         /\ \A i \in 1 .. Len(repair.queued) :
              repair.queued[i] \in Entries /\ repair.queued[i].seq \in Nat /\ repair.queued[i].turn \in Nat
<1>1. repair \in Repairs
  BY DEF Inv, Shape
<1>2. repair.through \in Nat /\ repair.page \in Pages /\ repair.queued \in Seq(Entries)
  BY <1>1 DEF Repairs
<1>3. repair.page.tail \in Nat /\ Len(repair.queued) \in Nat
  BY <1>2 DEF Pages
<1>4. ASSUME NEW i \in 1 .. Len(repair.queued)
      PROVE  repair.queued[i] \in Entries /\ repair.queued[i].seq \in Nat /\ repair.queued[i].turn \in Nat
  <2>1. repair.queued[i] \in Entries
    BY <1>2, ElementOfSeq
  <2> QED
    BY <2>1 DEF Entries
<1> QED
  BY <1>1, <1>2, <1>3, <1>4

\* What follows the conversation and is not moved is not disturbed when it grows behind
\* its first k records: all of them, or those of the first turn.
Spared(k) ==
  \/ k = Len(log)
  \/ /\ k = FirstTurn /\ (skew'.stream = {} => srv.turn <= 1) /\ (skew'.window = {} => last <= k)
     /\ skew'.older = {} /\ older.state = "answered" => older.page.tail <= k

LEMMA FollowersStay ==
  ASSUME Inv, log' \in Seq(Nat), NEW k \in 0 .. Len(log), Grows(log, log', k), Spared(k),
         FirstTurn' \in Nat, FirstTurn <= FirstTurn',
         skew' \in [stream : SUBSET Causes, window : SUBSET Causes, older : SUBSET Causes],
         skew.stream \subseteq skew'.stream, skew.window \subseteq skew'.window, skew.older \subseteq skew'.older,
         UNCHANGED <<network, stream, window, pages>>
  PROVE  Wire' /\ Early' /\ Window' /\ Alarm' /\ Reading'
<1> USE DEF network, stream, window, pages
<1> DEFINE ss == skew'.stream
           sw == skew'.window
           so == skew'.older
<1>1. /\ log \in Seq(Nat) /\ wire \in Seq(Openings \cup Entries) /\ base \in Nat /\ win \in Seq(Nat)
      /\ Len(log) \in Nat /\ Len(log') \in Nat /\ Len(log) <= Len(log') /\ k \in Nat
      /\ last \in Int
  BY DEF Inv, Shape, Grows, Window, None, Empty
<1>2. /\ skew.stream \in SUBSET Causes /\ skew.window \in SUBSET Causes /\ skew.older \in SUBSET Causes
      /\ ss \in SUBSET Causes /\ sw \in SUBSET Causes /\ so \in SUBSET Causes
      /\ srv.turn \in Nat /\ FirstTurn \in Nat /\ FirstTurn <= Len(log)
  BY Skews
<1>3. /\ "prompt" \notin ss => "prompt" \notin skew.stream
      /\ "prompt" \notin sw => "prompt" \notin skew.window
  OBVIOUS
<1>4. ASSUME NEW p \in Pages, PageOf(log, skew.stream, p), srv.turn <= 1 => p.tail <= FirstTurn
      PROVE  PageOf(log', ss, p)
  <2>1. p.tail \in Nat /\ p.tail <= Len(log)
    BY <1>4 DEF PageOf, Pages
  <2>2. ss = {} => p.tail <= k
    BY <1>4, <2>1 DEF Spared
  <2> HIDE DEF ss
  <2> QED
    BY <1>1, <1>2, <1>4, <2>2, PagesStay DEF ss
<1>5. ASSUME NEW e \in Entries, EntryOf(log, skew.stream, e), srv.turn <= 1 => e.seq <= FirstTurn
      PROVE  EntryOf(log', ss, e)
  <2>1. ss = {} => e.seq <= Len(log)
    BY <1>3, <1>5 DEF EntryOf
  <2>2. ss = {} => e.seq <= k
    BY <1>5, <2>1 DEF Spared
  <2> QED
    BY <1>1, <1>2, <1>5, <2>2, EntriesStay
<1>6. \A i \in 1 .. Len(wire) : FrameOf(log', ss, wire[i])
  <2> SUFFICES ASSUME NEW i \in 1 .. Len(wire) PROVE FrameOf(log', ss, wire[i])
    OBVIOUS
  <2>1. FrameOf(log, skew.stream, wire[i]) /\ (srv.turn <= 1 => EarlyFrame(FirstTurn, wire[i]))
    BY DEF Inv, Wire, Early
  <2>2. wire[i] \in Openings => wire[i].page \in Pages
    BY DEF Openings
  <2> QED
    BY <1>4, <1>5, <2>1, <2>2 DEF FrameOf, EarlyFrame
<1>7. Wire'
  BY <1>3, <1>6 DEF Inv, Wire
<1>8. Early'
  <2> SUFFICES ASSUME srv.turn <= 1
               PROVE  /\ \A i \in 1 .. Len(wire) : EarlyFrame(FirstTurn', wire[i])
                      /\ EarlyRepair(FirstTurn', repair')
    BY DEF Early, EarlyFrame
  <2>1. (\A i \in 1 .. Len(wire) : EarlyFrame(FirstTurn, wire[i])) /\ EarlyRepair(FirstTurn, repair)
    BY DEF Inv, Early
  <2>2. ASSUME NEW i \in 1 .. Len(wire) PROVE EarlyFrame(FirstTurn', wire[i])
    <3>1. EarlyFrame(FirstTurn, wire[i])
      BY <2>1
    <3>2. wire[i] \in Openings => wire[i].page.tail \in Nat
      BY DEF Openings, Pages
    <3>3. wire[i] \in Entries => wire[i].seq \in Nat
      BY DEF Entries
    <3> QED
      BY <1>2, <3>1, <3>2, <3>3 DEF EarlyFrame
  <2>3. EarlyRepair(FirstTurn', repair')
    <3> SUFFICES ASSUME repair # NoRepair
                 PROVE  /\ repair.through <= FirstTurn'
                        /\ \A i \in 1 .. Len(repair.queued) : repair.queued[i].seq <= FirstTurn'
      BY DEF EarlyRepair
    <3>1. repair.through \in Nat /\ repair.queued \in Seq(Entries)
      BY DEF Inv, Shape, Repairs
    <3>2. \A i \in 1 .. Len(repair.queued) : repair.queued[i].seq \in Nat
      BY RepairIs
    <3>3. /\ repair.through <= FirstTurn
          /\ \A i \in 1 .. Len(repair.queued) : repair.queued[i].seq <= FirstTurn
      BY <2>1 DEF EarlyRepair
    <3>4. \A n \in Nat : n <= FirstTurn => n <= FirstTurn'
      BY <1>2
    <3> QED
      BY <3>1, <3>2, <3>3, <3>4
  <2> QED
    BY <2>2, <2>3
<1>9. Window'
  <2>1. opened => WindowOf(log', sw, base, win)
    <3> SUFFICES ASSUME opened PROVE WindowOf(log', sw, base, win)
      OBVIOUS
    <3>1. WindowOf(log, skew.window, base, win) /\ last = base + Len(win) - 1
      BY DEF Inv, Window
    <3>2. sw = {} => base + Len(win) - 1 <= k
      BY <1>1, <1>3, <3>1 DEF Spared, Inv, Window
    <3> QED
      BY <1>1, <1>2, <3>1, <3>2, WindowsStay
  <2>2. "prompt" \notin sw => last <= Len(log')
    BY <1>1, <1>3 DEF Inv, Window
  <2> QED
    BY <2>1, <2>2 DEF Inv, Window
<1>10. Alarm'
  BY <1>3 DEF Inv, Alarm
<1>11. Reading'
  <2>1. ASSUME repair # NoRepair PROVE Mending'
    <3>1. Mending /\ repair \in Repairs
      BY <2>1 DEF Inv, Reading, Shape
    <3>2. repair.page \in Pages /\ repair.queued \in Seq(Entries) /\ repair.through \in Nat
      BY <3>1 DEF Repairs
    <3>3. srv.turn <= 1 => EarlyRepair(FirstTurn, repair)
      BY DEF Inv, Early
    <3>4. ASSUME NEW i \in 1 .. Len(repair.queued) PROVE EntryOf(log', ss, repair.queued[i])
      <4>1. repair.queued[i] \in Entries
        BY <3>2, ElementOfSeq
      <4> QED
        BY <1>5, <2>1, <3>1, <3>3, <4>1 DEF Mending, EarlyRepair
    <3>5. repair.state = "answered" => PageOf(log', ss, repair.page)
      <4> SUFFICES ASSUME repair.state = "answered" PROVE PageOf(log', ss, repair.page)
        OBVIOUS
      <4>1. PageOf(log, skew.stream, repair.page) /\ repair.page.tail <= repair.through
        BY <3>1 DEF Mending
      <4>2. repair.page.tail \in Nat
        BY <3>2 DEF Pages
      <4>3. srv.turn <= 1 => repair.page.tail <= FirstTurn
        BY <1>2, <2>1, <3>2, <3>3, <4>1, <4>2 DEF EarlyRepair
      <4> QED
        BY <1>4, <3>2, <4>1, <4>3
    <3>6. repair.through <= Len(log') + Len(log') /\ ("prompt" \notin ss => repair.through <= Len(log'))
      BY <1>1, <1>3, <3>1, <3>2 DEF Mending
    <3> QED
      BY <1>3, <3>1, <3>4, <3>5, <3>6 DEF Mending
  <2>2. ASSUME older # NoPage PROVE Loading'
    <3>1. Loading /\ older \in Reads
      BY <2>2 DEF Inv, Reading, Shape
    <3>2. older.page \in Pages
      BY <3>1 DEF Reads
    <3>3. ASSUME older.state = "answered" PROVE PageOf(log', so, older.page)
      <4>1. PageOf(log, skew.older, older.page)
        BY <3>1, <3>3 DEF Loading
      <4>2. older.page.tail \in Nat /\ older.page.tail <= Len(log)
        BY <3>2, <4>1 DEF Pages, PageOf
      <4>3. so = {} => older.page.tail <= k
        BY <3>3, <4>2 DEF Spared
      <4> QED
        BY <1>1, <1>2, <3>2, <4>1, <4>3, PagesStay
    <3> QED
      BY <3>1, <3>3 DEF Loading
  <2> QED
    BY <2>1, <2>2 DEF Reading
<1> QED
  BY <1>7, <1>8, <1>9, <1>10, <1>11

-----------------------------------------------------------------------------
\* Initially every part holds.
LEMMA Initially == Init => Inv
<1> SUFFICES ASSUME Init PROVE Inv
  OBVIOUS
<1>1. Shape
  <2>1. log \in Seq(Nat) /\ starts \in Seq(Nat) /\ win \in Seq(Nat)
    BY DEF Init
  <2>2. ends \in Seq(Nat \cup {Running, Orphaned}) /\ wire \in Seq(Openings \cup Entries) /\ Len(ends) = Len(starts)
    BY DEF Init
  <2>3. faults = 0 /\ 0 \in 0 .. MaxFaults
    BY Bounds DEF Init
  <2>4. attempt = 0 /\ base = 0 /\ closed = {} /\ srv = NoStream /\ repair = NoRepair /\ older = NoPage
    BY DEF Init
  <2>5. online = TRUE /\ ready = TRUE /\ opened = FALSE /\ more = FALSE /\ phase = "cold" /\ why = "none"
    BY DEF Init
  <2>6. closed \subseteq DOMAIN starts /\ attempt \in 0 .. 2 /\ base \in Nat /\ faults \in 0 .. MaxFaults
    BY <2>3, <2>4
  <2>7. /\ online \in BOOLEAN /\ ready \in BOOLEAN /\ opened \in BOOLEAN /\ more \in BOOLEAN
        /\ phase \in {"cold", "opening", "live", "waiting", "error"}
        /\ why \in {"none", "carrier", "page", "violation", "gaps"}
    BY <2>5
  <2>8. skew \in [stream : SUBSET Causes, window : SUBSET Causes, older : SUBSET Causes]
    BY DEF Init
  <2> QED
    BY <2>1, <2>2, <2>4, <2>6, <2>7, <2>8 DEF Shape
<1>2. Conversation
  <2>1. log = <<>> /\ starts = <<>> /\ Len(log) = 0 /\ Turns = 0
    BY DEF Init, Turns
  <2> QED
    BY Bounds, <2>1 DEF Conversation
<1>3. Server /\ Wire /\ Early /\ Window /\ Alarm /\ Reading
  <2>1. /\ srv = NoStream /\ wire = <<>> /\ Len(wire) = 0 /\ phase = "cold" /\ ~opened /\ last = None
        /\ Len(log) = 0 /\ why = "none"
    BY DEF Init
  <2>2. repair = NoRepair /\ older = NoPage
    BY DEF Init
  <2>3. Server /\ Wire
    BY <2>1, Kinds DEF Server, Wire
  <2>4. Early /\ Alarm /\ Reading
    BY <2>1, <2>2 DEF Early, EarlyRepair, Alarm, Reading
  <2>5. Window
    BY <2>1 DEF Window, None, Empty
  <2> QED
    BY <2>3, <2>4, <2>5
<1> QED
  BY <1>1, <1>2, <1>3 DEF Inv

\* A step of the conversation: a turn grows, and moves up, or another one begins.
Evolves ==
  /\ log' \in Seq(Nat) /\ starts' \in Seq(Nat) /\ Len(starts) <= Len(starts') /\ Len(log) <= Len(log')
  /\ \A t \in 1 .. Len(starts) :
       /\ starts[t] <= starts'[t] /\ Size(t) <= Size(t)'
       /\ skew'.stream = {} /\ t = srv.turn => starts'[t] = starts[t]
  /\ skew.stream \subseteq skew'.stream
  /\ Turns = 0 /\ Turns' > 0 => Turns' = 1 /\ starts'[1] = 0

\* How long a turn is.
LEMMA Sizes ==
  ASSUME log \in Seq(Nat), starts \in Seq(Nat), NEW t \in 1 .. Len(starts)
  PROVE  starts[t] \in Nat /\ TurnEnd(t) \in Nat /\ Size(t) \in Int /\ Size(t) = TurnEnd(t) - starts[t]
<1>1. Len(log) \in Nat /\ Len(starts) \in Nat /\ starts[t] \in Nat
  BY ElementOfSeq
<1>2. t # Len(starts) => starts[t + 1] \in Nat
  <2>1. t # Len(starts) => t + 1 \in 1 .. Len(starts)
    BY <1>1
  <2> QED
    BY <2>1, ElementOfSeq
<1>3. TurnEnd(t) \in Nat
  BY <1>1, <1>2 DEF TurnEnd, Turns
<1> QED
  BY <1>1, <1>3 DEF Size

LEMMA ServerStays == ASSUME Inv, Evolves, UNCHANGED srv PROVE Server'
<1> USE DEF Turns
<1>1. /\ log \in Seq(Nat) /\ starts \in Seq(Nat) /\ srv \in {NoStream} \cup Places
      /\ log' \in Seq(Nat) /\ starts' \in Seq(Nat)
  BY DEF Inv, Shape, Evolves
<1>2. /\ Len(starts) \in Nat /\ Len(starts') \in Nat /\ Len(log) \in Nat /\ Len(log') \in Nat
      /\ Len(starts) <= Len(starts') /\ Len(log) <= Len(log')
  BY <1>1 DEF Evolves
<1> SUFFICES ASSUME srv # NoStream
             PROVE  /\ srv.turn > 0 /\ (srv.phase = "locate" => srv.turn > 1)
                    /\ srv.turn <= Turns' /\ srv.phase = "pump" =>
                         /\ srv.sent <= Size(srv.turn)' /\ srv.offset <= Len(log')
                         /\ srv.turn = 1 => srv.offset = 0
                         /\ "prompt" \notin skew'.stream => srv.offset <= starts'[srv.turn]
                         /\ skew'.stream = {} => srv.offset = starts'[srv.turn]
                    /\ srv.turn > Turns' =>
                         srv.phase = "pump" /\ Turns' = 0 /\ srv.turn = 1 /\ srv.offset = 0 /\ srv.sent = 0
  BY Kinds DEF Server, Size, TurnEnd
<1>3. srv.turn \in Nat /\ srv.offset \in Nat /\ srv.sent \in Nat
  BY <1>1 DEF Places
<1>4. srv.turn > 0 /\ (srv.phase = "locate" => srv.turn > 1)
  BY DEF Inv, Server
<1>5. CASE srv.turn <= Turns
  <2>1. srv.turn \in 1 .. Len(starts) /\ srv.turn \in 1 .. Len(starts')
    BY <1>2, <1>3, <1>4, <1>5
  <2>2. /\ starts[srv.turn] <= starts'[srv.turn] /\ Size(srv.turn) <= Size(srv.turn)'
        /\ skew'.stream = {} => starts'[srv.turn] = starts[srv.turn]
        /\ skew'.stream = {} => skew.stream = {}
        /\ "prompt" \notin skew'.stream => "prompt" \notin skew.stream
    BY <2>1 DEF Evolves
  <2>3. starts[srv.turn] \in Nat /\ Size(srv.turn) \in Int /\ starts'[srv.turn] \in Nat
    BY <1>1, <2>1, Sizes, ElementOfSeq
  <2>4. Size(srv.turn)' \in Int
    <3>1. srv.turn = Len(starts') => TurnEnd(srv.turn)' = Len(log')
      BY DEF TurnEnd
    <3>2. srv.turn # Len(starts') => TurnEnd(srv.turn)' = starts'[srv.turn + 1]
      BY DEF TurnEnd
    <3>3. srv.turn # Len(starts') => starts'[srv.turn + 1] \in Nat
      <4>1. srv.turn # Len(starts') => srv.turn + 1 \in 1 .. Len(starts')
        BY <1>2, <2>1
      <4> QED
        BY <1>1, <4>1, ElementOfSeq
    <3>4. TurnEnd(srv.turn)' \in Int
      BY <1>2, <3>1, <3>2, <3>3
    <3>5. Size(srv.turn)' = TurnEnd(srv.turn)' - starts'[srv.turn]
      BY DEF Size
    <3> QED
      BY <2>3, <3>4, <3>5
  <2>5. srv.phase = "pump" =>
          /\ srv.sent <= Size(srv.turn) /\ srv.offset <= Len(log)
          /\ srv.turn = 1 => srv.offset = 0
          /\ "prompt" \notin skew.stream => srv.offset <= starts[srv.turn]
          /\ skew.stream = {} => srv.offset = starts[srv.turn]
    BY <1>5 DEF Inv, Server
  <2>6. srv.phase = "pump" => srv.sent <= Size(srv.turn)' /\ srv.offset <= Len(log')
    BY <1>2, <1>3, <2>2, <2>3, <2>4, <2>5
  <2>7. srv.phase = "pump" =>
          /\ "prompt" \notin skew'.stream => srv.offset <= starts'[srv.turn]
          /\ skew'.stream = {} => srv.offset = starts'[srv.turn]
    BY <1>3, <2>2, <2>3, <2>5
  <2> QED
    BY <1>2, <1>3, <1>4, <1>5, <2>5, <2>6, <2>7
<1>6. CASE srv.turn > Turns
  <2>1. srv.phase = "pump" /\ Turns = 0 /\ srv.turn = 1 /\ srv.offset = 0 /\ srv.sent = 0
    BY <1>6 DEF Inv, Server
  <2>2. CASE Turns' = 0
    BY <1>2, <2>1, <2>2
  <2>3. CASE Turns' > 0
    <3>1. Len(starts') = 1 /\ starts'[1] = 0
      BY <2>1, <2>3 DEF Evolves
    <3>2. Size(1)' = Len(log')
      BY <1>2, <3>1 DEF Size, TurnEnd
    <3> QED
      BY <1>2, <2>1, <3>1, <3>2
  <2> QED
    BY <1>2, <2>2, <2>3
<1> QED
  BY <1>2, <1>3, <1>5, <1>6

LEMMA RecordKeeps == ASSUME Inv, Record PROVE Inv'
<1>1. /\ log' = Append(log, NewRecord) /\ starts' = starts /\ Turns > 0
      /\ UNCHANGED <<ends, closed, network, stream, window, pages, skew, faults>>
  BY DEF Record
<1>2. /\ log \in Seq(Nat) /\ starts \in Seq(Nat) /\ Len(log) \in Nat /\ Len(starts) \in Nat
      /\ MaxRecords \in Nat /\ MaxTurns \in Nat /\ NewRecord \in Nat
  BY Bounds DEF Inv, Shape, NewRecord
<1>3. /\ log' \in Seq(Nat) /\ Len(log') = Len(log) + 1
      /\ \A i \in 1 .. Len(log) : log'[i] = log[i]
  BY <1>1, <1>2, Appended
<1>4. Turns \in 1 .. Len(starts) /\ Turns = Len(starts) /\ Turns' = Turns /\ starts[Turns] \in Nat
  BY <1>1, <1>2, ElementOfSeq DEF Turns
<1>5. Len(log) < MaxRecords \/ starts[Turns] = Len(log)
  <2>1. Len(log) < MaxRecords \/ Len(log) - starts[Turns] = 0
    BY DEF Record, Size, TurnEnd
  <2> QED
    BY <1>2, <1>4, <2>1
<1>6. Shape'
  BY <1>1, <1>3 DEF Inv, Shape, network, stream, window, pages
<1>7. Conversation'
  <2>1. \A t \in 1 .. Turns : starts[t] \in Nat /\ starts[t] <= Len(log)
    BY <1>2, <1>4, ElementOfSeq DEF Inv, Conversation
  <2>2. Len(log') <= MaxRecords + Turns
    <3>1. /\ starts[Turns] = Len(log) => Len(log) < MaxRecords + Turns
          /\ Turns \in Nat \ {0}
      BY <1>1, <1>2, <1>4 DEF Inv, Conversation
    <3>2. Len(log) < MaxRecords + Turns
      BY <1>2, <1>5, <3>1
    <3> QED
      BY <1>2, <1>3, <3>1, <3>2
  <2>3. starts[Turns] # Len(log')
    BY <1>2, <1>3, <1>4, <2>1
  <2>4. \A t \in 1 .. Turns : starts[t] <= Len(log')
    BY <1>2, <1>3, <2>1
  <2> QED
    BY <1>1, <1>4, <2>2, <2>3, <2>4 DEF Inv, Conversation
<1>8. Server'
  <2>1. ASSUME NEW t \in 1 .. Len(starts) PROVE starts[t] <= starts[t] /\ Size(t) <= Size(t)'
    <3>1. starts[t] \in Nat /\ TurnEnd(t) \in Nat
      BY <1>2, Sizes
    <3>2. t # Len(starts) => TurnEnd(t)' = TurnEnd(t)
      BY <1>1, <1>4 DEF TurnEnd
    <3>3. t = Len(starts) => TurnEnd(t) = Len(log) /\ TurnEnd(t)' = Len(log) + 1
      BY <1>3, <1>4 DEF TurnEnd
    <3>4. Size(t) = TurnEnd(t) - starts[t] /\ Size(t)' = TurnEnd(t)' - starts[t]
      BY <1>1 DEF Size
    <3> QED
      BY <1>2, <3>1, <3>2, <3>3, <3>4
  <2>2. Len(log) <= Len(log') /\ Len(starts) <= Len(starts')
    BY <1>1, <1>2, <1>3
  <2>3. Evolves
    BY <1>1, <1>2, <1>3, <1>4, <2>1, <2>2 DEF Evolves
  <2> QED
    BY <1>1, <2>3, ServerStays DEF network
<1>9. Wire' /\ Early' /\ Window' /\ Alarm' /\ Reading'
  <2>1. Grows(log, log', Len(log)) /\ Len(log) \in 0 .. Len(log)
    BY <1>2, <1>3 DEF Grows
  <2>2. FirstTurn \in Nat
    BY Skews
  <2>3. FirstTurn' \in Nat /\ FirstTurn <= FirstTurn'
    <3>1. Turns <= 1 => FirstTurn = Len(log) /\ FirstTurn' = Len(log')
      BY <1>4 DEF FirstTurn
    <3>2. Turns > 1 => FirstTurn' = FirstTurn
      BY <1>1, <1>4 DEF FirstTurn
    <3> QED
      BY <1>2, <1>3, <1>4, <2>2, <3>1, <3>2
  <2>4. Spared(Len(log))
    BY DEF Spared
  <2>5. skew' = skew /\ skew \in [stream : SUBSET Causes, window : SUBSET Causes, older : SUBSET Causes]
    BY <1>1 DEF Inv, Shape
  <2> QED
    BY <1>1, <1>3, <2>1, <2>3, <2>4, <2>5, FollowersStay
<1> QED
  BY <1>6, <1>7, <1>8, <1>9 DEF Inv

\* A title goes in behind the records of the first turn.
LEMMA RenameIs ==
  ASSUME Inv, Rename
  PROVE  /\ log \in Seq(Nat) /\ starts \in Seq(Nat) /\ Len(log) \in Nat /\ Len(starts) \in Nat
         /\ Turns = Len(starts) /\ Turns > 0 /\ Len(log) < MaxRecords
         /\ FirstTurn = TurnEnd(1) /\ TurnEnd(1) \in 0 .. Len(log)
         /\ log' \in Seq(Nat) /\ Len(log') = Len(log) + 1
         /\ \A i \in 1 .. TurnEnd(1) : log'[i] = log[i]
         /\ starts' \in Seq(Nat) /\ Len(starts') = Len(starts)
         /\ starts[1] = 0 /\ starts'[1] = 0
         /\ \A t \in 2 .. Len(starts) : starts'[t] = starts[t] + 1
<1>1. /\ log \in Seq(Nat) /\ starts \in Seq(Nat) /\ Len(log) \in Nat /\ Len(starts) \in Nat
      /\ Turns = Len(starts) /\ NewRecord \in Nat /\ Turns > 0 /\ Len(log) < MaxRecords
  <2>1. log \in Seq(Nat) /\ starts \in Seq(Nat)
    BY DEF Inv, Shape
  <2>2. Turns > 0 /\ Len(log) < MaxRecords
    BY DEF Rename
  <2>3. Len(log) \in Nat /\ Len(starts) \in Nat
    BY <2>1
  <2> QED
    BY <2>1, <2>2, <2>3 DEF Turns, NewRecord
<1>2. FirstTurn = TurnEnd(1)
  BY <1>1 DEF FirstTurn, TurnEnd
<1> DEFINE f == TurnEnd(1)
<1>3. f \in Nat /\ f <= Len(log)
  BY <1>2, Skews
<1> HIDE DEF f
<1>4. /\ SubSeq(log, 1, f) \in Seq(Nat) /\ Len(SubSeq(log, 1, f)) = f
      /\ \A i \in 1 .. f : SubSeq(log, 1, f)[i] = log[i]
  <2>1. /\ SubSeq(log, 1, f) \in Seq(Nat) /\ Len(SubSeq(log, 1, f)) = (IF 1 <= f THEN f - 1 + 1 ELSE 0)
        /\ \A i \in 1 .. f - 1 + 1 : SubSeq(log, 1, f)[i] = log[1 + i - 1]
    BY <1>1, <1>3, Parts
  <2> QED
    BY <1>3, <2>1
<1>5. SubSeq(log, f + 1, Len(log)) \in Seq(Nat) /\ Len(SubSeq(log, f + 1, Len(log))) = Len(log) - f
  <2>1. /\ SubSeq(log, f + 1, Len(log)) \in Seq(Nat)
        /\ Len(SubSeq(log, f + 1, Len(log))) = (IF f + 1 <= Len(log) THEN Len(log) - (f + 1) + 1 ELSE 0)
    BY <1>1, <1>3, Parts
  <2> QED
    BY <1>1, <1>3, <2>1
<1> DEFINE front == SubSeq(log, 1, f)
           back == SubSeq(log, f + 1, Len(log))
<1>6. <<NewRecord>> \in Seq(Nat) /\ Len(<<NewRecord>>) = 1
  BY <1>1
<1>7. log' = (front \o <<NewRecord>>) \o back
  BY DEF Rename, f
<1> HIDE DEF front, back
<1>8. /\ front \o <<NewRecord>> \in Seq(Nat) /\ Len(front \o <<NewRecord>>) = f + 1
      /\ \A i \in 1 .. f : (front \o <<NewRecord>>)[i] = front[i]
  BY <1>4, <1>6, Joined DEF front
<1>9. /\ log' \in Seq(Nat) /\ Len(log') = (f + 1) + (Len(log) - f)
      /\ \A i \in 1 .. f + 1 : log'[i] = (front \o <<NewRecord>>)[i]
  <2>1. back \in Seq(Nat) /\ Len(back) = Len(log) - f
    BY <1>5 DEF back
  <2> DEFINE most == front \o <<NewRecord>>
  <2>2. most \in Seq(Nat) /\ Len(most) = f + 1 /\ log' = most \o back
    BY <1>7, <1>8
  <2> HIDE DEF most
  <2>3. /\ most \o back \in Seq(Nat) /\ Len(most \o back) = Len(most) + Len(back)
        /\ \A i \in 1 .. Len(most) : (most \o back)[i] = most[i]
    BY <2>1, <2>2, Joined
  <2> QED
    BY <2>1, <2>2, <2>3 DEF most
<1>10. Len(log') = Len(log) + 1 /\ \A i \in 1 .. f : log'[i] = log[i]
  <2>1. \A i \in 1 .. f : i \in 1 .. f + 1
    BY <1>3
  <2> QED
    BY <1>1, <1>3, <1>4, <1>8, <1>9, <2>1 DEF front
<1>11. starts[1] = 0
  BY <1>1 DEF Inv, Conversation
<1>12. /\ starts' \in Seq(Nat) /\ Len(starts') = Len(starts) /\ starts'[1] = 0
       /\ \A t \in 2 .. Len(starts) : starts'[t] = starts[t] + 1
  <2>1. DOMAIN starts = 1 .. Len(starts)
    BY <1>1, LenProperties
  <2> DEFINE moved == [t \in 1 .. Len(starts) |-> IF t = 1 THEN 0 ELSE starts[t] + 1]
  <2>2. starts' = moved
    BY <2>1 DEF Rename
  <2>3. \A t \in 1 .. Len(starts) : starts[t] \in Nat
    BY <1>1, ElementOfSeq
  <2>4. moved \in [1 .. Len(starts) -> Nat]
    BY <2>3
  <2>5. moved \in Seq(Nat) /\ Len(moved) = Len(starts)
    <3> DEFINE n == Len(starts)
    <3>1. n \in Nat /\ moved \in [1 .. n -> Nat]
      BY <1>1, <2>4
    <3> HIDE DEF moved, n
    <3>2. moved \in Seq(Nat) /\ Len(moved) = n
      BY <3>1, SeqDef, LenProperties
    <3> QED
      BY <3>2 DEF n
  <2>6. \A t \in 2 .. Len(starts) : starts'[t] = starts[t] + 1
    BY <1>1, <2>2
  <2> QED
    BY <1>1, <2>2, <2>5, <2>6
<1>13. TurnEnd(1) \in 0 .. Len(log) /\ \A i \in 1 .. TurnEnd(1) : log'[i] = log[i]
  BY <1>1, <1>3, <1>10 DEF f
<1> QED
  BY <1>1, <1>2, <1>9, <1>10, <1>11, <1>12, <1>13

LEMMA RenameKeeps == ASSUME Inv, Rename PROVE Inv'
<1>1. /\ log \in Seq(Nat) /\ starts \in Seq(Nat) /\ Len(log) \in Nat /\ Len(starts) \in Nat
      /\ Turns = Len(starts) /\ Turns > 0 /\ Len(log) < MaxRecords
      /\ FirstTurn = TurnEnd(1) /\ TurnEnd(1) \in 0 .. Len(log)
      /\ log' \in Seq(Nat) /\ Len(log') = Len(log) + 1
      /\ \A i \in 1 .. TurnEnd(1) : log'[i] = log[i]
      /\ starts' \in Seq(Nat) /\ Len(starts') = Len(starts)
      /\ starts[1] = 0 /\ starts'[1] = 0
      /\ \A t \in 2 .. Len(starts) : starts'[t] = starts[t] + 1
  BY RenameIs
<1>2. UNCHANGED <<ends, closed, network, stream, window, pages, faults>> /\ MaxRecords \in Nat /\ MaxTurns \in Nat
  BY Bounds DEF Rename
<1>3. /\ skew' = [stream |-> IF srv.turn > 1 THEN skew.stream \cup {"title"} ELSE skew.stream,
                  window |-> IF last > TurnEnd(1) THEN skew.window \cup {"title"} ELSE skew.window,
                  older |-> IF older.state = "answered" /\ older.page.tail > TurnEnd(1)
                            THEN skew.older \cup {"title"} ELSE skew.older]
  BY DEF Rename
<1>4. /\ skew.stream \in SUBSET Causes /\ skew.window \in SUBSET Causes /\ skew.older \in SUBSET Causes
      /\ srv.turn \in Nat /\ FirstTurn \in Nat
  BY Skews
<1>5. /\ skew' \in [stream : SUBSET Causes, window : SUBSET Causes, older : SUBSET Causes]
      /\ skew.stream \subseteq skew'.stream /\ skew.window \subseteq skew'.window
      /\ skew.older \subseteq skew'.older
      /\ skew'.stream = {} => srv.turn <= 1
      /\ skew'.window = {} => ~(last > TurnEnd(1))
      /\ skew'.older = {} => ~(older.state = "answered" /\ older.page.tail > TurnEnd(1))
  BY <1>3, <1>4 DEF Causes
<1>6. Shape'
  <2>1. DOMAIN starts' = DOMAIN starts
    BY <1>1, LenProperties
  <2> QED
    BY <1>1, <1>2, <1>5, <2>1 DEF Inv, Shape, network, stream, window, pages
<1>7. \A t \in 1 .. Len(starts) : starts[t] \in Nat /\ starts[t] <= Len(log)
  BY <1>1, ElementOfSeq DEF Inv, Conversation
<1>8. \A t \in 1 .. Len(starts) : starts'[t] <= Len(log') /\ starts[t] <= starts'[t]
  <2> SUFFICES ASSUME NEW t \in 1 .. Len(starts) PROVE starts'[t] <= Len(log') /\ starts[t] <= starts'[t]
    OBVIOUS
  <2>1. CASE t = 1
    BY <1>1, <2>1
  <2>2. CASE t # 1
    <3>1. t \in 2 .. Len(starts)
      BY <1>1, <2>2
    <3>2. starts'[t] = starts[t] + 1
      BY <1>1, <3>1
    <3> QED
      BY <1>1, <1>7, <3>2
  <2> QED
    BY <2>1, <2>2
<1>9. Conversation'
  <2>1. Turns' = Turns
    BY <1>1 DEF Turns
  <2>2. ASSUME NEW t \in 1 .. Turns - 1 PROVE starts'[t] <= starts'[t + 1]
    <3>0. starts[t] <= starts[t + 1]
      BY DEF Inv, Conversation
    <3>1. t \in 1 .. Len(starts) /\ t + 1 \in 2 .. Len(starts) /\ t + 1 \in 1 .. Len(starts)
      BY <1>1
    <3>2. starts'[t + 1] = starts[t + 1] + 1 /\ starts[t] \in Nat /\ starts[t + 1] \in Nat
      BY <1>1, <1>7, <3>1
    <3>3. CASE t = 1
      BY <1>1, <3>2, <3>3
    <3>4. CASE t # 1
      <4>1. t \in 2 .. Len(starts)
        BY <1>1, <3>1, <3>4
      <4>2. starts'[t] = starts[t] + 1
        BY <1>1, <4>1
      <4> QED
        BY <3>0, <3>2, <4>2
    <3> QED
      BY <3>3, <3>4
  <2>3. Len(log') <= MaxRecords + Turns /\ Len(log') < MaxRecords + Turns
    BY <1>1, <1>2
  <2> QED
    BY <1>1, <1>2, <1>8, <2>1, <2>2, <2>3 DEF Inv, Conversation
<1>10. Server'
  <2>1. ASSUME NEW t \in 1 .. Len(starts) PROVE Size(t) <= Size(t)'
    <3>1. starts[t] \in Nat /\ TurnEnd(t) \in Nat /\ Size(t) = TurnEnd(t) - starts[t]
      BY <1>1, Sizes
    <3>2. TurnEnd(t)' = TurnEnd(t) + 1
      <4>1. CASE t = Len(starts)
        BY <1>1, <4>1 DEF TurnEnd, Turns
      <4>2. CASE t # Len(starts)
        <5>1. t + 1 \in 2 .. Len(starts)
          BY <1>1, <4>2
        <5> QED
          BY <1>1, <4>2, <5>1 DEF TurnEnd, Turns
      <4> QED
        BY <4>1, <4>2
    <3>3. starts'[t] = starts[t] \/ starts'[t] = starts[t] + 1
      BY <1>1
    <3>4. Size(t)' = TurnEnd(t)' - starts'[t]
      BY DEF Size
    <3> QED
      BY <3>1, <3>2, <3>3, <3>4
  <2>2. ASSUME NEW t \in 1 .. Len(starts), skew'.stream = {}, t = srv.turn PROVE starts'[t] = starts[t]
    <3>1. t = 1
      BY <1>4, <1>5, <2>2
    <3> QED
      BY <1>1, <3>1
  <2>3. Evolves
    BY <1>1, <1>5, <1>8, <2>1, <2>2 DEF Evolves
  <2> QED
    BY <1>2, <2>3, ServerStays DEF network
<1>11. Wire' /\ Early' /\ Window' /\ Alarm' /\ Reading'
  <2>1. Grows(log, log', TurnEnd(1))
    BY <1>1 DEF Grows
  <2>2. FirstTurn' = FirstTurn + 1
    <3>1. Turns' = Turns
      BY <1>1 DEF Turns
    <3>2. CASE Turns <= 1
      BY <1>1, <3>1, <3>2 DEF FirstTurn
    <3>3. CASE Turns > 1
      <4>1. 2 \in 2 .. Len(starts)
        BY <1>1, <3>3
      <4> QED
        BY <1>1, <3>1, <3>3, <4>1 DEF FirstTurn
    <3> QED
      BY <1>1, <3>2, <3>3
  <2>3. FirstTurn' \in Nat /\ FirstTurn <= FirstTurn'
    BY <1>4, <2>2
  <2>4. Spared(TurnEnd(1))
    <3>1. last \in Int
      BY DEF Inv, Window, None, Empty
    <3>2. older.state = "answered" => older.page.tail \in Nat
      <4>1. older.state = "answered" => older \in Reads
        BY Kinds DEF Inv, Shape
      <4> QED
        BY <4>1 DEF Reads, Pages
    <3>3. skew'.older = {} /\ older.state = "answered" => older.page.tail <= TurnEnd(1)
      BY <1>1, <1>5, <3>2
    <3> QED
      BY <1>1, <1>5, <3>1, <3>3 DEF Spared
  <2> HIDE DEF FirstTurn
  <2> QED
    BY <1>1, <1>2, <1>5, <2>1, <2>3, <2>4, FollowersStay
<1> QED
  BY <1>6, <1>9, <1>10, <1>11 DEF Inv

LEMMA PromptKeeps == ASSUME Inv, Prompt PROVE Inv'
<1>1. /\ log \in Seq(Nat) /\ starts \in Seq(Nat) /\ ends \in Seq(Nat \cup {Running, Orphaned})
      /\ Len(log) \in Nat /\ Len(starts) \in Nat /\ MaxTurns \in Nat /\ MaxRecords \in Nat
      /\ Len(ends) = Len(starts)
  BY Bounds DEF Inv, Shape
<1>2. log' = log /\ UNCHANGED <<closed, network, stream, window, pages, skew, faults>>
  BY DEF Prompt
<1>3. /\ starts' \in Seq(Nat) /\ Len(starts') = Len(starts) + 1 /\ starts'[Len(starts) + 1] = Len(log)
      /\ \A t \in 1 .. Len(starts) : starts'[t] = starts[t]
  BY <1>1, Appended DEF Prompt
<1>4. ends' \in Seq(Nat \cup {Running, Orphaned}) /\ Len(ends') = Len(ends) + 1
  <2>1. ends' = Append(ends, Running)
    BY DEF Prompt
  <2> QED
    BY <1>1, <2>1, Appended
<1>5. Shape'
  <2>1. closed \subseteq DOMAIN starts'
    BY <1>1, <1>3, LenProperties DEF Inv, Shape
  <2> QED
    BY <1>1, <1>2, <1>3, <1>4, <2>1 DEF Inv, Shape, network, stream, window, pages
<1>6. Conversation'
  <2>1. Turns' = Turns + 1 /\ Turns = Len(starts) /\ Turns < MaxTurns
    BY <1>1, <1>3 DEF Turns, Prompt
  <2>2. Turns = 0 => Len(log) = 0
    BY DEF Inv, Conversation
  <2>3. \A t \in 1 .. Turns : starts[t] \in Nat /\ starts[t] <= Len(log)
    BY <1>1, <2>1, ElementOfSeq DEF Inv, Conversation
  <2>4. \A t \in 1 .. Turns' - 1 : starts'[t] <= starts'[t + 1]
    <3> SUFFICES ASSUME NEW t \in 1 .. Turns PROVE starts'[t] <= starts'[t + 1]
      BY <1>1, <2>1
    <3>1. CASE t = Turns
      BY <1>3, <2>1, <2>3, <3>1
    <3>2. CASE t # Turns
      <4>1. t \in 1 .. Turns - 1 /\ t + 1 \in 1 .. Turns
        BY <1>1, <2>1, <3>2
      <4> QED
        BY <1>3, <2>1, <4>1 DEF Inv, Conversation
    <3> QED
      BY <3>1, <3>2
  <2>5. starts'[1] = 0
    BY <1>1, <1>3, <2>1, <2>2 DEF Inv, Conversation
  <2>6. \A t \in 1 .. Turns' : starts'[t] <= Len(log)
    <3> SUFFICES ASSUME NEW t \in 1 .. Len(starts) + 1 PROVE starts'[t] <= Len(log)
      BY <1>3, <2>1
    <3>1. CASE t = Len(starts) + 1
      BY <1>1, <1>3, <3>1
    <3>2. CASE t \in 1 .. Len(starts)
      BY <1>3, <2>1, <2>3, <3>2
    <3> QED
      BY <1>1, <3>1, <3>2
  <2>7. Len(log) <= MaxRecords + Turns
    BY DEF Inv, Conversation
  <2> QED
    BY <1>1, <1>2, <2>1, <2>4, <2>5, <2>6, <2>7 DEF Conversation
<1>7. Evolves
  <2>1. ASSUME NEW t \in 1 .. Len(starts) PROVE starts[t] <= starts'[t] /\ Size(t) <= Size(t)'
    <3>1. starts[t] \in Nat /\ TurnEnd(t) \in Nat /\ Size(t) = TurnEnd(t) - starts[t]
      BY <1>1, Sizes
    <3>2. t = Len(starts) => TurnEnd(t) = Len(log) /\ TurnEnd(t)' = Len(log)
      BY <1>1, <1>2, <1>3 DEF TurnEnd, Turns
    <3>3. t # Len(starts) => TurnEnd(t) = starts[t + 1] /\ TurnEnd(t)' = starts[t + 1]
      BY <1>1, <1>3 DEF TurnEnd, Turns
    <3>4. starts'[t] = starts[t] /\ Size(t)' = TurnEnd(t)' - starts'[t]
      BY <1>3 DEF Size
    <3>5. TurnEnd(t)' = TurnEnd(t)
      BY <3>2, <3>3
    <3> QED
      BY <3>1, <3>4, <3>5
  <2>2. Turns = 0 => Len(log) = 0
    BY DEF Inv, Conversation
  <2> QED
    BY <1>1, <1>2, <1>3, <2>1, <2>2 DEF Evolves, Turns
<1>8. Server'
  BY <1>2, <1>7, ServerStays DEF network
<1>9. Wire' /\ Early' /\ Window' /\ Alarm' /\ Reading'
  <2>1. Grows(log, log', Len(log)) /\ Len(log) \in 0 .. Len(log)
    BY <1>1, <1>2 DEF Grows
  <2>2. FirstTurn \in Nat
    BY Skews
  <2>3. FirstTurn' = FirstTurn
    <3>1. Turns = Len(starts) /\ Turns' = Turns + 1
      BY <1>1, <1>3 DEF Turns
    <3>2. CASE Turns = 0
      BY <1>2, <3>1, <3>2 DEF FirstTurn
    <3>3. CASE Turns = 1
      BY <1>2, <1>3, <3>1, <3>3 DEF FirstTurn
    <3>4. CASE Turns > 1
      <4>1. 2 \in 1 .. Len(starts)
        BY <1>1, <3>1, <3>4
      <4> QED
        BY <1>1, <1>2, <1>3, <3>1, <3>4, <4>1 DEF FirstTurn
    <3> QED
      BY <1>1, <3>1, <3>2, <3>3, <3>4
  <2>4. Spared(Len(log))
    BY DEF Spared
  <2>5. skew' = skew /\ skew \in [stream : SUBSET Causes, window : SUBSET Causes, older : SUBSET Causes]
    BY <1>2 DEF Inv, Shape
  <2>6. log' \in Seq(Nat) /\ FirstTurn' \in Nat /\ FirstTurn <= FirstTurn'
    BY <1>1, <1>2, <2>2, <2>3
  <2> HIDE DEF FirstTurn
  <2> QED
    BY <1>2, <2>1, <2>4, <2>5, <2>6, FollowersStay
<1> QED
  BY <1>5, <1>6, <1>8, <1>9 DEF Inv

LEMMA FinishKeeps == ASSUME Inv, Finish PROVE Inv'
<1>1. /\ log' = log /\ starts' = starts /\ UNCHANGED <<network, stream, window, pages, skew, faults>>
  BY DEF Finish
<1>2. Shape'
  <2>1. starts \in Seq(Nat) /\ log \in Seq(Nat) /\ ends \in Seq(Nat \cup {Running, Orphaned}) /\ Len(ends) = Len(starts)
    BY DEF Inv, Shape
  <2>2. Turns \in 1 .. Len(ends) /\ Turns = Len(starts) /\ Len(starts) \in Nat
    BY <2>1 DEF Turns, Finish
  <2>3. Size(Turns) \in Nat
    <3>1. starts[Turns] \in Nat /\ starts[Turns] <= Len(log)
      <4>1. starts[Turns] <= Len(log)
        BY <2>1, <2>2 DEF Inv, Conversation
      <4> QED
        BY <2>1, <2>2, <4>1, ElementOfSeq
    <3> QED
      BY <2>1, <3>1 DEF Size, TurnEnd
  <2>4. ends' \in Seq(Nat \cup {Running, Orphaned}) /\ Len(ends') = Len(ends)
    <3>1. ends' = [ends EXCEPT ![Turns] = Size(Turns)]
      BY DEF Finish
    <3> QED
      BY <2>1, <2>2, <2>3, <3>1, ExceptSeq
  <2>5. closed' \subseteq DOMAIN starts
    <3>1. closed' = closed \cup {Turns}
      BY DEF Finish
    <3> QED
      BY <2>1, <2>2, <3>1, LenProperties DEF Inv, Shape
  <2> QED
    BY <1>1, <2>1, <2>4, <2>5 DEF Inv, Shape, network, stream, window, pages
<1> QED
  BY <1>1, <1>2 DEF Inv, Conversation, Server, Wire, Early, EarlyFrame, EarlyRepair, FirstTurn, Window, Alarm,
                    Reading, Mending, Loading, FrameOf, Turns, Size, TurnEnd, network, stream, window, pages

-----------------------------------------------------------------------------
\* The host's side: every page and every frame is part of the log, or its numbers are askew.
LEMMA PageIsSound ==
  ASSUME log \in Seq(Nat), NEW c, NEW top \in 0 .. Len(log)
  PROVE  /\ Page(top) \in Pages /\ PageOf(log, c, Page(top)) /\ Page(top).tail = top
         /\ PageTail(Page(top)) = IF top = 0 THEN Empty ELSE top
<1> DEFINE from == Most(1, top - PageSize + 1)
           recs == SubSeq(log, from, top)
           some == top > 0 /\ from > 1
<1>1. Len(log) \in Nat /\ top \in Nat /\ PageSize \in Nat /\ PageSize > 0
  BY Bounds
<1>2. from \in Nat /\ from >= 1 /\ (top > 0 => from <= top)
  BY <1>1 DEF Most
<1>3. /\ recs \in Seq(Nat) /\ Len(recs) = (IF from <= top THEN top - from + 1 ELSE 0)
      /\ \A i \in 1 .. top - from + 1 : recs[i] = log[from + i - 1]
  <2> HIDE DEF from
  <2> QED
    BY <1>1, <1>2, Parts
<1>4. Page(top) = [tail |-> top, recs |-> recs, more |-> some]
  BY DEF Page
<1>5. Page(top).tail = top /\ Page(top).recs = recs /\ (Page(top).more => top > 0)
  <2>1. some => top > 0
    OBVIOUS
  <2> HIDE DEF from, recs, some
  <2> QED
    BY <1>4, <2>1
<1>9. some \in BOOLEAN
  OBVIOUS
<1> HIDE DEF from, recs, some
<1>6. Page(top) \in Pages
  BY <1>1, <1>3, <1>4, <1>9 DEF Pages
<1>7. CASE top = 0
  <2>1. Len(recs) = 0
    BY <1>2, <1>3, <1>7
  <2>2. recs = <<>>
    BY <1>3, <2>1
  <2> QED
    BY <1>1, <1>5, <1>6, <1>7, <2>1, <2>2 DEF PageOf, PageTail
<1>8. CASE top > 0
  <2>1. Len(recs) = top - from + 1 /\ Len(recs) > 0 /\ Len(recs) <= top /\ recs # <<>>
    BY <1>1, <1>2, <1>3, <1>8
  <2>2. \A i \in 1 .. Len(recs) : recs[i] = log[top - Len(recs) + i]
    BY <1>1, <1>2, <1>3, <2>1
  <2> QED
    BY <1>1, <1>5, <1>6, <1>8, <2>1, <2>2 DEF PageOf, PageTail
<1> QED
  BY <1>1, <1>7, <1>8

LEMMA ThroughIsSound ==
  ASSUME log \in Seq(Nat), NEW c, NEW cursor \in Int, NEW before \in Nat, before > 0
  PROVE  /\ Through(cursor, before) \in Pages /\ PageOf(log, c, Through(cursor, before))
         /\ cursor > 0 /\ before = Len(log) + 1 =>
              Through(cursor, before).tail = Least(cursor, Len(log))
<1> DEFINE top == Least(IF cursor < 0 \/ cursor > Len(log) THEN Len(log) ELSE cursor, before - 1)
<1>1. Len(log) \in Nat
  OBVIOUS
<1>2. top \in 0 .. Len(log) /\ (cursor > 0 /\ before = Len(log) + 1 => top = Least(cursor, Len(log)))
  BY <1>1 DEF Least
<1>3. Through(cursor, before) = Page(top)
  BY DEF Through
<1> HIDE DEF top
<1> QED
  BY <1>2, <1>3, PageIsSound

\* A page that reaches the cursor of a frame reaches it as PageTail does.
LEMMA TailOf ==
  ASSUME NEW l \in Seq(Nat), NEW c, NEW p \in Pages, PageOf(l, c, p)
  PROVE  /\ PageTail(p) = IF p.tail = 0 THEN Empty ELSE p.tail
         /\ PageTail(p) = Empty => p.recs = <<>>
<1>1. p.tail \in Nat /\ p.recs \in Seq(Nat) /\ Len(p.recs) \in Nat
  BY DEF Pages
<1>2. p.tail = 0 <=> p.recs = <<>>
  BY <1>1 DEF PageOf
<1> QED
  BY <1>1, <1>2 DEF PageTail, Empty

\* The steps of the host leave the window, and what is being read for it, alone.
LEMMA WindowStays ==
  ASSUME Inv, UNCHANGED <<log, phase, why, window, pages, skew>> PROVE Window' /\ Alarm' /\ Reading'
BY DEF Inv, Window, Alarm, Reading, Mending, Loading, window, pages

LEMMA ServeFollowKeeps == ASSUME Inv, ServeFollow PROVE Inv'
<1>1. UNCHANGED <<host, online, ready, stream, window, pages, faults>> /\ phase = "opening" /\ srv = NoStream
  BY DEF ServeFollow
<1>2. /\ log \in Seq(Nat) /\ starts \in Seq(Nat) /\ Len(log) \in Nat /\ Len(starts) \in Nat
      /\ Turns = Len(starts) /\ Turns \in Nat
  BY DEF Inv, Shape, Turns
<1> DEFINE frame == [type |-> "opened", cursor |-> Cursor, page |-> Page(Len(log))]
<1>3. /\ Page(Len(log)) \in Pages /\ PageOf(log, {}, Page(Len(log)))
      /\ PageTail(Page(Len(log))) = Cursor /\ Page(Len(log)).tail = Len(log)
  <2>1. Len(log) = 0 <=> log = <<>>
    BY <1>2
  <2>2. Len(log) \in 0 .. Len(log)
    BY <1>2
  <2> QED
    BY <1>2, <2>1, <2>2, PageIsSound DEF Cursor
<1>4. Cursor \in Nat \cup {Empty} /\ ("prompt" \notin skew.window => Cursor >= last)
  <2>1. last \in {None, Empty} \/ last \in Nat \ {0}
    BY DEF Inv, Window
  <2>2. "prompt" \notin skew.window => last <= Len(log)
    BY DEF Inv, Window
  <2>3. Cursor = IF Len(log) = 0 THEN -1 ELSE Len(log)
    BY <1>2, EmptySeq DEF Cursor, Empty
  <2> QED
    BY <1>2, <2>1, <2>2, <2>3 DEF Empty, None
<1>5. frame \in Openings /\ FrameOf(log, {}, frame) /\ frame.page.tail = Len(log) /\ frame.cursor = Cursor
  <2>1. frame \in Openings
    BY <1>3, <1>4 DEF Openings
  <2> QED
    BY <1>3, <2>1, Kinds DEF FrameOf
<1>6. wire' = <<frame>> /\ skew' = [skew EXCEPT !.stream = {}]
  BY DEF ServeFollow
<1>7. /\ wire' \in Seq(Openings \cup Entries) /\ Len(wire') = 1 /\ wire'[1] = frame
      /\ \A i \in 1 .. Len(wire') : wire'[i] = frame
  BY <1>5, <1>6
<1>8. /\ srv' \in Places /\ srv'.phase = "pump" /\ srv' # NoStream
      /\ srv'.turn = (IF Turns = 0 THEN 1 ELSE Turns)
  <2>1. Turns # 0 => starts[Turns] \in Nat /\ Size(Turns) \in Nat
    <3>1. Turns # 0 => Turns \in 1 .. Len(starts)
      BY <1>2
    <3>2. Turns # 0 => starts[Turns] \in Nat /\ starts[Turns] <= Len(log)
      BY <1>2, <3>1, ElementOfSeq DEF Inv, Conversation
    <3> QED
      BY <1>2, <3>2 DEF Size, TurnEnd
  <2>2. Ended(Turns) \in BOOLEAN
    BY DEF Ended
  <2>3. srv' \in Places /\ srv'.phase = "pump" /\ srv'.turn = (IF Turns = 0 THEN 1 ELSE Turns)
    BY <1>2, <2>1, <2>2 DEF ServeFollow, Pump, Places
  <2> QED
    BY <2>3, Kinds
<1>9. /\ skew' \in [stream : SUBSET Causes, window : SUBSET Causes, older : SUBSET Causes]
      /\ skew'.stream = {} /\ skew'.window = skew.window /\ skew'.older = skew.older
  BY <1>6 DEF Inv, Shape
<1>10. Shape'
  BY <1>1, <1>7, <1>8, <1>9 DEF Inv, Shape, host, stream, window, pages
<1>11. Conversation'
  BY <1>1 DEF Inv, Conversation, Turns, host
<1>12. Server'
  <2>1. UNCHANGED <<log, starts>> /\ Turns' = Turns
    BY <1>1 DEF host, Turns
  <2>2. CASE Turns = 0
    <3>1. srv' = [phase |-> "pump", turn |-> 1, offset |-> 0, sent |-> 0, ahead |-> TRUE]
      BY <2>2 DEF ServeFollow, Pump
    <3> QED
      BY <2>1, <2>2, <3>1 DEF Server
  <2>3. CASE Turns # 0
    <3>1. srv'.phase = "pump" /\ srv'.turn = Turns /\ srv'.offset = starts[Turns] /\ srv'.sent = Size(Turns)
      BY <2>3 DEF ServeFollow, Pump
    <3>2. Size(Turns) \in Nat /\ starts[Turns] \in Nat
      BY <1>8, <3>1 DEF Places
    <3>3. Turns' = Turns /\ Size(Turns)' = Size(Turns)
      BY <2>1 DEF Size, TurnEnd
    <3>4. starts[Turns] <= Len(log)
      BY <1>2, <2>3 DEF Inv, Conversation
    <3>5. Turns = 1 => starts[Turns] = 0
      BY DEF Inv, Conversation
    <3> QED
      BY <1>2, <1>8, <2>1, <2>3, <3>1, <3>2, <3>3, <3>4, <3>5 DEF Server, Size, TurnEnd
  <2> QED
    BY <2>2, <2>3
<1>13. Wire'
  <2>1. log' = log /\ phase' = "opening" /\ last' = last
    BY <1>1 DEF host, stream, window
  <2>2. wire'[1].cursor = Cursor /\ wire'[1] \in Openings
    BY <1>5, <1>7
  <2> HIDE DEF frame
  <2> QED
    BY <1>4, <1>5, <1>7, <1>8, <1>9, <2>1, <2>2 DEF Wire
<1>14. repair = NoRepair /\ why = "none"
  BY <1>1 DEF Inv, Reading, Mending, Alarm
<1>15. Early'
  <2> SUFFICES ASSUME srv'.turn <= 1
               PROVE  (\A i \in 1 .. Len(wire') : EarlyFrame(FirstTurn', wire'[i])) /\ EarlyRepair(FirstTurn', repair')
    BY DEF Early
  <2>1. Turns' <= 1 /\ log' = log
    BY <1>1, <1>2, <1>8 DEF Turns, host
  <2>2. FirstTurn' = Len(log)
    BY <2>1 DEF FirstTurn
  <2>3. \A i \in 1 .. Len(wire') : EarlyFrame(FirstTurn', wire'[i])
    <3> HIDE DEF frame
    <3> QED
      BY <1>2, <1>5, <1>7, <2>2, Kinds DEF EarlyFrame
  <2>4. repair' = NoRepair
    BY <1>1, <1>14 DEF pages
  <2> QED
    BY <2>3, <2>4 DEF EarlyRepair
<1>16. Window' /\ Alarm' /\ Reading'
  BY <1>1, <1>9, <1>14 DEF Inv, Window, Alarm, Reading, Loading, host, stream, window, pages
<1> QED
  BY <1>10, <1>11, <1>12, <1>13, <1>15, <1>16 DEF Inv

\* The frame that a follower sends, and the place it is at afterwards.
LEMMA SendIs ==
  ASSUME Inv, SendRecord
  PROVE  /\ srv \in Places /\ srv # NoStream /\ srv.phase = "pump" /\ srv.turn \in 1 .. Len(starts)
         /\ srv.offset \in Nat /\ srv.sent \in Nat
         /\ srv' \in Places /\ srv' # NoStream /\ srv'.phase = "pump" /\ srv'.turn = srv.turn
         /\ srv'.offset = srv.offset /\ srv'.sent = srv.sent + 1 /\ srv.sent + 1 <= Size(srv.turn)
         /\ \E frame \in Entries :
              /\ wire' = Append(wire, frame)
              /\ frame.seq = srv.offset + srv.sent + 1 /\ frame.turn = srv.turn
              /\ EntryOf(log, skew.stream, frame)
              /\ srv.turn <= 1 => frame.seq <= FirstTurn
<1>1. srv.phase = "pump" /\ srv.turn <= Turns /\ srv.sent < Size(srv.turn)
  BY DEF SendRecord
<1>2. log \in Seq(Nat) /\ starts \in Seq(Nat) /\ Len(log) \in Nat /\ Len(starts) \in Nat
  BY DEF Inv, Shape
<1>3. srv \in Places /\ srv # NoStream
  BY <1>1, Kinds DEF Inv, Shape
<1>4. srv.turn \in 1 .. Len(starts) /\ srv.offset \in Nat /\ srv.sent \in Nat
  BY <1>1, <1>2, <1>3 DEF Places, Inv, Server, Turns
<1>5. /\ srv.offset <= Len(log) /\ (srv.turn = 1 => srv.offset = 0)
      /\ "prompt" \notin skew.stream => srv.offset <= starts[srv.turn]
      /\ skew.stream = {} => srv.offset = starts[srv.turn]
  BY <1>1, <1>3 DEF Inv, Server
<1>6. /\ starts[srv.turn] \in Nat /\ TurnEnd(srv.turn) \in Nat /\ TurnEnd(srv.turn) <= Len(log)
      /\ Size(srv.turn) \in Int /\ Size(srv.turn) = TurnEnd(srv.turn) - starts[srv.turn]
  <2>1. srv.turn # Len(starts) => starts[srv.turn + 1] <= Len(log)
    <3>1. srv.turn # Len(starts) => srv.turn + 1 \in 1 .. Len(starts)
      BY <1>2, <1>4
    <3> QED
      BY <3>1 DEF Inv, Conversation, Turns
  <2>2. TurnEnd(srv.turn) <= Len(log)
    BY <1>2, <2>1 DEF TurnEnd, Turns
  <2> QED
    BY <1>2, <1>4, <2>2, Sizes
<1> DEFINE seq == srv.offset + srv.sent + 1
           place == starts[srv.turn] + srv.sent + 1
           frame == [type |-> "entry", seq |-> seq, rec |-> log[place], turn |-> srv.turn]
           s == starts[srv.turn]
           o == srv.offset
           n == srv.sent
           e == TurnEnd(srv.turn)
           len == Len(log)
<1>18. /\ s \in Nat /\ o \in Nat /\ n \in Nat /\ e \in Nat /\ len \in Nat /\ e <= len /\ n < e - s
       /\ seq = o + n + 1 /\ place = s + n + 1 /\ o <= len
  BY <1>1, <1>2, <1>4, <1>5, <1>6
<1>19. place \in 1 .. len /\ place <= e /\ n + 1 <= len
  <2> HIDE DEF seq, place, s, o, n, e, len
  <2> QED
    BY <1>18
<1>7. place \in 1 .. Len(log) /\ place <= TurnEnd(srv.turn)
  BY <1>19
<1>8. /\ seq \in Nat /\ seq > 0 /\ seq <= Len(log) + Len(log)
      /\ "prompt" \notin skew.stream => seq <= Len(log)
      /\ skew.stream = {} => seq = place
  <2>1. /\ seq \in Nat /\ seq > 0 /\ seq <= len + len
        /\ o <= s => seq <= len
        /\ o = s => seq = place
    <3> HIDE DEF seq, place, s, o, n, e, len
    <3> QED
      BY <1>18, <1>19
  <2> QED
    BY <1>5, <2>1
<1>9. srv.turn <= 1 => seq <= FirstTurn
  <2> SUFFICES ASSUME srv.turn <= 1 PROVE seq <= FirstTurn
    OBVIOUS
  <2>1. srv.turn = 1 /\ srv.offset = 0 /\ starts[1] = 0
    BY <1>1, <1>4, <1>5 DEF Inv, Conversation, Turns
  <2>2. seq = place
    BY <1>4, <2>1
  <2>3. TurnEnd(1) = FirstTurn
    <3>1. Turns \in Nat /\ Turns >= 1
      BY <1>2, <1>4, <2>1 DEF Turns
    <3>2. TurnEnd(1) = (IF 1 = Turns THEN Len(log) ELSE starts[2])
      BY DEF TurnEnd
    <3>3. FirstTurn = (IF Turns <= 1 THEN Len(log) ELSE starts[2])
      BY DEF FirstTurn
    <3> QED
      BY <3>1, <3>2, <3>3
  <2> HIDE DEF seq, place
  <2> QED
    BY <1>7, <2>1, <2>2, <2>3
<1>10. log[place] \in Nat
  BY <1>2, <1>7, ElementOfSeq
<1>11. wire' = Append(wire, frame)
  BY DEF SendRecord
<1> HIDE DEF seq, place, s, o, n, e, len
<1>12. frame \in Entries /\ frame.seq = seq /\ frame.turn = srv.turn /\ frame.rec = log[place]
  BY <1>4, <1>8, <1>10 DEF Entries
<1> HIDE DEF frame
<1>13. EntryOf(log, skew.stream, frame)
  BY <1>8, <1>12 DEF EntryOf
<1>14. /\ srv' \in Places /\ srv'.phase = "pump" /\ srv'.turn = srv.turn /\ srv'.offset = srv.offset
       /\ srv'.sent = srv.sent + 1
  <2>1. srv' = [srv EXCEPT !.sent = srv.sent + 1]
    BY DEF SendRecord
  <2> QED
    BY <1>1, <1>3, <1>4, <2>1 DEF Places
<1>15. srv.sent + 1 <= Size(srv.turn)
  BY <1>1, <1>4, <1>6
<1>16. srv' # NoStream
  BY <1>14, Kinds
<1>17. frame.seq = srv.offset + srv.sent + 1 /\ (srv.turn <= 1 => frame.seq <= FirstTurn)
  BY <1>9, <1>12 DEF seq
<1> QED
  BY <1>1, <1>3, <1>4, <1>11, <1>12, <1>13, <1>14, <1>15, <1>16, <1>17

LEMMA SendRecordKeeps == ASSUME Inv, SendRecord PROVE Inv'
<1>1. UNCHANGED <<host, online, ready, stream, window, pages, skew, faults>>
  BY DEF SendRecord
<1>2. /\ srv \in Places /\ srv # NoStream /\ srv.phase = "pump" /\ srv.turn \in 1 .. Len(starts)
      /\ srv.offset \in Nat /\ srv.sent \in Nat
      /\ srv' \in Places /\ srv' # NoStream /\ srv'.phase = "pump" /\ srv'.turn = srv.turn
      /\ srv'.offset = srv.offset /\ srv'.sent = srv.sent + 1 /\ srv.sent + 1 <= Size(srv.turn)
  BY SendIs
<1>3. PICK frame \in Entries :
        /\ wire' = Append(wire, frame) /\ EntryOf(log, skew.stream, frame)
        /\ srv.turn <= 1 => frame.seq <= FirstTurn
  BY SendIs
<1>4. FrameOf(log, skew.stream, frame) /\ frame \in Openings \cup Entries /\ (srv.turn <= 1 => EarlyFrame(FirstTurn, frame))
  BY <1>3, Kinds DEF FrameOf, EarlyFrame
<1>5. /\ wire' \in Seq(Openings \cup Entries) /\ Len(wire') = Len(wire) + 1 /\ wire'[Len(wire) + 1] = frame
      /\ \A i \in 1 .. Len(wire) : wire'[i] = wire[i]
      /\ wire \in Seq(Openings \cup Entries) /\ Len(wire) \in Nat
  <2>1. wire \in Seq(Openings \cup Entries) /\ Len(wire) \in Nat
    BY DEF Inv, Shape
  <2> QED
    BY <1>3, <1>4, <2>1, Appended
<1>6. \A i \in 1 .. Len(wire') : i \in 1 .. Len(wire) \/ i = Len(wire) + 1
  BY <1>5
<1>7. Shape'
  BY <1>1, <1>2, <1>5 DEF Inv, Shape, host, stream, window, pages
<1>8. Conversation'
  BY <1>1 DEF Inv, Conversation, Turns, host
<1>9. Server'
  <2>1. UNCHANGED <<log, starts, skew>>
    BY <1>1 DEF host
  <2>2. srv.turn \in Nat /\ srv.turn > 0 /\ srv.turn <= Turns /\ Turns \in Nat
    <3>1. starts \in Seq(Nat) /\ Len(starts) \in Nat
      BY DEF Inv, Shape
    <3> QED
      BY <1>2, <3>1 DEF Turns
  <2>3. /\ srv.offset <= Len(log) /\ (srv.turn = 1 => srv.offset = 0)
        /\ "prompt" \notin skew.stream => srv.offset <= starts[srv.turn]
        /\ skew.stream = {} => srv.offset = starts[srv.turn]
    BY <1>2, <2>2 DEF Inv, Server
  <2>4. Turns' = Turns /\ \A t : Size(t)' = Size(t)
    BY <2>1 DEF Turns, Size, TurnEnd
  <2> QED
    BY <1>2, <2>1, <2>2, <2>3, <2>4 DEF Server
<1>10. Wire'
  <2>1. log' = log /\ phase' = phase /\ last' = last /\ skew' = skew
    BY <1>1 DEF host, stream, window
  <2>2. \A i \in 1 .. Len(wire') : FrameOf(log, skew.stream, wire'[i])
    BY <1>4, <1>5, <1>6 DEF Inv, Wire
  <2>3. phase \notin {"cold", "waiting", "error"}
    BY <1>2 DEF Inv, Wire
  <2>4. ASSUME phase = "opening"
        PROVE  /\ Len(wire') > 0 /\ wire'[1] \in Openings
               /\ "prompt" \notin skew.window => wire'[1].cursor >= last
               /\ \A i \in 2 .. Len(wire') : wire'[i] \in Entries
    <3>1. /\ Len(wire) > 0 /\ wire[1] \in Openings /\ ("prompt" \notin skew.window => wire[1].cursor >= last)
          /\ \A i \in 2 .. Len(wire) : wire[i] \in Entries
      BY <1>2, <2>4 DEF Inv, Wire
    <3>2. wire'[1] = wire[1] /\ Len(wire') > 0
      BY <1>5, <3>1
    <3>3. \A i \in 2 .. Len(wire') : i \in 2 .. Len(wire) \/ i = Len(wire) + 1
      BY <1>5
    <3>4. \A i \in 2 .. Len(wire) : wire'[i] = wire[i]
      BY <1>5
    <3> QED
      BY <1>3, <1>5, <3>1, <3>2, <3>3, <3>4
  <2>5. phase = "live" => \A i \in 1 .. Len(wire') : wire'[i] \in Entries
    BY <1>3, <1>5, <1>6 DEF Inv, Wire
  <2> QED
    BY <1>2, <2>1, <2>2, <2>3, <2>4, <2>5 DEF Wire
<1>11. Early'
  <2> SUFFICES ASSUME srv.turn <= 1
               PROVE  (\A i \in 1 .. Len(wire') : EarlyFrame(FirstTurn, wire'[i])) /\ EarlyRepair(FirstTurn, repair)
    BY <1>1, <1>2 DEF Early, FirstTurn, Turns, host, pages
  <2>1. (\A i \in 1 .. Len(wire) : EarlyFrame(FirstTurn, wire[i])) /\ EarlyRepair(FirstTurn, repair)
    BY DEF Inv, Early
  <2> QED
    BY <1>4, <1>5, <1>6, <2>1
<1>12. Window' /\ Alarm' /\ Reading'
  BY <1>1, WindowStays DEF host, stream
<1> QED
  BY <1>7, <1>8, <1>9, <1>10, <1>11, <1>12 DEF Inv

\* A step of the goroutine between two turns.
LEMMA MovesOn ==
  ASSUME Inv, UNCHANGED <<host, online, ready, wire, stream, window, pages>>, faults' \in 0 .. MaxFaults,
         srv # NoStream, srv' \in Places, srv'.turn >= srv.turn, srv'.turn > 0, Server',
         skew' \in [stream : SUBSET Causes, window : SUBSET Causes, older : SUBSET Causes],
         skew.stream \subseteq skew'.stream, skew'.window = skew.window, skew'.older = skew.older
  PROVE  Inv'
<1>1. srv' # NoStream /\ srv'.turn \in Nat /\ srv.turn \in Nat
  BY Kinds, Skews DEF Places
<1>2. Shape'
  BY DEF Inv, Shape, host, stream, window, pages
<1>3. Conversation'
  BY DEF Inv, Conversation, Turns, host
<1>4. log' = log /\ starts' = starts /\ wire' = wire /\ repair' = repair /\ last' = last /\ phase' = phase
  BY DEF host, window, stream, pages
<1>5. FirstTurn' = FirstTurn
  BY <1>4 DEF FirstTurn, Turns
<1>6. \A e \in Entries : EntryOf(log, skew.stream, e) => EntryOf(log, skew'.stream, e)
  BY DEF EntryOf
<1>7. \A p \in Pages : PageOf(log, skew.stream, p) => PageOf(log, skew'.stream, p)
  BY DEF PageOf
<1>8. Wire'
  <2>1. ASSUME NEW i \in 1 .. Len(wire) PROVE FrameOf(log, skew'.stream, wire[i])
    <3>1. FrameOf(log, skew.stream, wire[i])
      BY DEF Inv, Wire
    <3>2. wire[i] \in Openings => wire[i].page \in Pages
      BY DEF Openings
    <3> QED
      BY <1>6, <1>7, <3>1, <3>2 DEF FrameOf
  <2> QED
    BY <1>1, <1>4, <2>1 DEF Inv, Wire
<1>9. Early'
  <2> SUFFICES ASSUME srv'.turn <= 1
               PROVE  (\A i \in 1 .. Len(wire) : EarlyFrame(FirstTurn, wire[i])) /\ EarlyRepair(FirstTurn, repair)
    BY <1>4, <1>5 DEF Early
  <2>1. srv.turn <= 1
    BY <1>1
  <2> QED
    BY <2>1 DEF Inv, Early
<1>10. Window' /\ Alarm'
  BY DEF Inv, Window, Alarm, host, stream, window
<1>11. Reading'
  <2>1. ASSUME repair # NoRepair PROVE Mending'
    <3>1. Mending /\ repair.page \in Pages
      BY <2>1, RepairIs DEF Inv, Reading
    <3>2. \A i \in 1 .. Len(repair.queued) : EntryOf(log, skew'.stream, repair.queued[i])
      BY <1>6, <2>1, <3>1, RepairIs DEF Mending
    <3>3. "prompt" \notin skew'.stream => "prompt" \notin skew.stream
      OBVIOUS
    <3> QED
      BY <1>4, <1>7, <3>1, <3>2, <3>3 DEF Mending
  <2> QED
    BY <1>4, <2>1 DEF Inv, Reading, Loading, host, window, pages
<1> QED
  BY <1>2, <1>3, <1>8, <1>9, <1>10, <1>11 DEF Inv

LEMMA FaultsCount == ASSUME Inv, faults < MaxFaults, faults' = faults + 1 PROVE faults' \in 0 .. MaxFaults
BY Bounds DEF Inv, Shape

LEMMA BetweenTurns == ASSUME Inv, EndTurn \/ CutTurn \/ Locate \/ FollowNext PROVE Inv'
<1>1. /\ starts \in Seq(Nat) /\ log \in Seq(Nat) /\ Len(starts) \in Nat /\ Len(log) \in Nat /\ Turns \in Nat
      /\ Turns = Len(starts)
  BY DEF Inv, Shape, Turns
<1>2. UNCHANGED <<host, online, ready, wire, stream, window, pages>>
  BY DEF EndTurn, CutTurn, Locate, FollowNext
<1>3. srv \in Places /\ srv # NoStream
  <2>1. srv.phase # "off"
    BY DEF EndTurn, CutTurn, Locate, FollowNext
  <2> QED
    BY <2>1, Kinds DEF Inv, Shape
<1>4. srv.turn > 0 /\ srv.turn \in Nat
  BY <1>3 DEF Inv, Server, Places
<1>5. log' = log /\ starts' = starts /\ Turns' = Turns
  BY <1>2 DEF host, Turns
<1>6. faults' \in 0 .. MaxFaults
  <2>1. EndTurn \/ Locate \/ FollowNext => faults' = faults
    BY DEF EndTurn, Locate, FollowNext
  <2>2. CutTurn => faults < MaxFaults /\ faults' = faults + 1
    BY DEF CutTurn
  <2> QED
    BY <2>1, <2>2, FaultsCount DEF Inv, Shape
<1>7. ~FollowNext => skew' = skew
  BY DEF EndTurn, CutTurn, Locate
<1>8. skew \in [stream : SUBSET Causes, window : SUBSET Causes, older : SUBSET Causes]
  BY DEF Inv, Shape
<1>9. CASE EndTurn \/ CutTurn
  <2>1. srv' = [srv EXCEPT !.phase = "await"] /\ srv.turn <= Turns
    <3>1. EndTurn => srv.turn <= Turns
      BY DEF EndTurn
    <3>2. CutTurn => srv.turn <= Turns
      <4> SUFFICES ASSUME CutTurn, srv.turn > Turns PROVE FALSE
        BY <1>1, <1>4
      <4>1. srv.turn \in closed
        BY DEF CutTurn
      <4>2. DOMAIN starts = 1 .. Len(starts) /\ closed \subseteq DOMAIN starts
        BY <1>1, LenProperties DEF Inv, Shape
      <4> QED
        BY <1>1, <1>4, <4>1, <4>2
    <3> QED
      BY <1>9, <3>1, <3>2 DEF EndTurn, CutTurn
  <2>2. srv' \in Places /\ srv'.turn = srv.turn /\ srv'.phase = "await"
    BY <1>3, <2>1 DEF Places
  <2>3. Server'
    BY <1>1, <1>4, <1>5, <2>1, <2>2 DEF Server
  <2>4. srv'.turn >= srv.turn /\ srv'.turn > 0
    BY <1>4, <2>2
  <2>5. skew' = skew
    BY <1>7, <1>9 DEF EndTurn, CutTurn
  <2> QED
    BY <1>2, <1>3, <1>6, <1>8, <2>2, <2>3, <2>4, <2>5, MovesOn
<1>10. CASE Locate
  <2>1. srv' = [srv EXCEPT !.phase = "locate", !.turn = Turns] /\ Turns > srv.turn
    BY <1>10 DEF Locate
  <2>2. srv' \in Places /\ srv'.turn = Turns /\ srv'.phase = "locate"
    BY <1>1, <1>3, <2>1 DEF Places
  <2>3. srv'.turn > 1 /\ srv'.turn > 0 /\ srv'.turn >= srv.turn
    BY <1>1, <1>4, <2>1, <2>2
  <2>4. Server'
    BY <1>1, <1>5, <2>2, <2>3 DEF Server
  <2>5. skew' = skew
    BY <1>10 DEF Locate
  <2> QED
    BY <1>2, <1>3, <1>6, <1>8, <2>2, <2>3, <2>4, <2>5, MovesOn
<1>11. CASE FollowNext
  <2>1. srv.phase = "locate" /\ srv' = Pump(srv.turn, starts[Turns], 0, TRUE)
    BY <1>11 DEF FollowNext
  <2>2. srv.turn <= Turns
    BY <1>1, <1>3, <1>4, <2>1 DEF Inv, Server
  <2>3. Turns \in 1 .. Len(starts) /\ srv.turn \in 1 .. Len(starts)
    BY <1>1, <1>4, <2>2
  <2>4. starts[Turns] \in Nat /\ starts[Turns] <= Len(log) /\ starts[srv.turn] \in Nat
    BY <1>1, <2>3, ElementOfSeq DEF Inv, Conversation
  <2>5. srv' = [phase |-> "pump", turn |-> srv.turn, offset |-> starts[Turns], sent |-> 0, ahead |-> TRUE]
    BY <2>1 DEF Pump
  <2>6. /\ srv' \in Places /\ srv'.turn = srv.turn /\ srv'.phase = "pump" /\ srv'.offset = starts[Turns]
        /\ srv'.sent = 0
    BY <1>1, <1>4, <2>4, <2>5 DEF Places
  <2>7. /\ skew' \in [stream : SUBSET Causes, window : SUBSET Causes, older : SUBSET Causes]
        /\ skew.stream \subseteq skew'.stream /\ skew'.window = skew.window /\ skew'.older = skew.older
        /\ srv.turn # Turns => "prompt" \in skew'.stream
    <3>1. skew' = [skew EXCEPT !.stream = IF srv.turn = Turns THEN skew.stream ELSE skew.stream \cup {"prompt"}]
      BY <1>11 DEF FollowNext
    <3> QED
      BY <1>8, <3>1 DEF Causes
  <2>8. Size(srv.turn) >= 0
    <3>1. srv.turn # Len(starts) => srv.turn \in 1 .. Turns - 1
      BY <1>1, <2>3
    <3>2. starts[srv.turn] <= TurnEnd(srv.turn)
      <4>1. CASE srv.turn = Turns
        BY <2>4, <4>1 DEF TurnEnd
      <4>2. CASE srv.turn # Turns
        BY <1>1, <3>1, <4>2 DEF TurnEnd, Inv, Conversation
      <4> QED
        BY <4>1, <4>2
    <3>3. TurnEnd(srv.turn) \in Nat /\ Size(srv.turn) = TurnEnd(srv.turn) - starts[srv.turn]
      BY <1>1, <2>3, Sizes
    <3> QED
      BY <2>4, <3>2, <3>3
  <2>9. Server'
    <3>1. \A t : Size(t)' = Size(t)
      BY <1>5 DEF Size, TurnEnd
    <3>2. srv.turn > 1
      BY <2>1 DEF Inv, Server
    <3>3. "prompt" \notin skew'.stream => srv.turn = Turns
      BY <2>7
    <3>4. /\ srv'.turn > 1 /\ srv'.turn <= Turns' /\ srv'.phase = "pump" /\ srv'.sent <= Size(srv.turn)
          /\ srv'.offset <= Len(log') /\ ("prompt" \notin skew'.stream => srv'.offset = starts[srv'.turn])
      BY <1>5, <2>2, <2>4, <2>6, <2>8, <3>2, <3>3
    <3>5. Turns' \in Nat /\ srv'.turn \in Nat /\ starts[srv'.turn] \in Nat
      BY <1>1, <1>4, <1>5, <2>4, <2>6
    <3> QED
      BY <1>5, <2>6, <3>1, <3>4, <3>5 DEF Server
  <2>10. srv'.turn >= srv.turn /\ srv'.turn > 0
    BY <1>4, <2>6
  <2> QED
    BY <1>2, <1>3, <1>6, <2>6, <2>7, <2>9, <2>10, MovesOn
<1> QED
  BY <1>9, <1>10, <1>11

LEMMA EarlyStays == ASSUME Inv, UNCHANGED <<log, starts, srv, wire, repair>> PROVE Early'
BY DEF Inv, Early, FirstTurn, Turns

LEMMA ServeRepairKeeps == ASSUME Inv, ServeRepair PROVE Inv'
<1>1. UNCHANGED <<host, network, stream, window, older, skew, faults>> /\ repair.state = "asked"
  BY DEF ServeRepair
<1>2. repair # NoRepair /\ repair \in Repairs /\ Mending
  BY <1>1, Kinds DEF Inv, Shape, Reading
<1>3. log \in Seq(Nat) /\ Len(log) \in Nat
  BY DEF Inv, Shape
<1> DEFINE page == Through(repair.through, Len(log) + 1)
<1>9. repair.through \in Nat /\ repair.through > 0 /\ ("prompt" \notin skew.stream => repair.through <= Len(log))
  BY <1>2, RepairIs DEF Mending
<1>4. /\ page \in Pages /\ PageOf(log, skew.stream, page) /\ page.tail <= repair.through
      /\ "prompt" \notin skew.stream => page.tail = repair.through
  <2>1. /\ page \in Pages /\ PageOf(log, skew.stream, page) /\ page.tail = Least(repair.through, Len(log))
    <3>1. repair.through \in Int /\ Len(log) + 1 \in Nat /\ Len(log) + 1 > 0
      BY <1>3, <1>9
    <3> QED
      BY <1>3, <1>9, <3>1, ThroughIsSound
  <2> QED
    BY <1>3, <1>9, <2>1 DEF Least
<1>5. repair' = [repair EXCEPT !.state = "answered", !.page = page]
  BY DEF ServeRepair
<1> HIDE DEF page
<1>6. /\ repair' \in Repairs /\ repair'.state = "answered" /\ repair'.page = page
      /\ repair'.through = repair.through /\ repair'.queued = repair.queued
  BY <1>2, <1>4, <1>5 DEF Repairs
<1>7. Shape'
  BY <1>1, <1>6 DEF Inv, Shape, host, network, stream, window
<1>8. Reading'
  BY <1>1, <1>2, <1>4, <1>6 DEF Inv, Reading, Mending, Loading, host, stream, window
<1>10. Early'
  <2> SUFFICES ASSUME srv.turn <= 1
               PROVE  (\A i \in 1 .. Len(wire) : EarlyFrame(FirstTurn, wire[i])) /\ EarlyRepair(FirstTurn, repair')
    BY <1>1 DEF Early, FirstTurn, Turns, host, network
  <2> QED
    BY <1>2, <1>6 DEF Inv, Early, EarlyRepair
<1> QED
  BY <1>1, <1>7, <1>8, <1>10 DEF Inv, Conversation, Server, Wire, Window, Alarm, FrameOf, Turns, Size, TurnEnd,
                                 host, network, stream, window

LEMMA ServeOlderKeeps == ASSUME Inv, ServeOlder PROVE Inv'
<1>1. UNCHANGED <<host, network, stream, window, repair, faults>> /\ older.state = "asked"
  BY DEF ServeOlder
<1>2. older # NoPage /\ older \in Reads /\ Loading
  BY <1>1, Kinds DEF Inv, Shape, Reading
<1>3. log \in Seq(Nat) /\ Len(log) \in Nat
  BY DEF Inv, Shape
<1> DEFINE page == Through(older.through, older.before)
<1>4. page \in Pages /\ PageOf(log, {}, page)
  <2>1. older.through \in Int /\ older.before \in Nat /\ older.before > 0
    BY <1>2 DEF Reads, Loading
  <2> QED
    BY <1>3, <2>1, ThroughIsSound
<1>5. older' = [older EXCEPT !.state = "answered", !.page = page]
  BY DEF ServeOlder
<1> HIDE DEF page
<1>6. older' \in Reads /\ older'.page = page /\ older'.before = older.before
  BY <1>2, <1>4, <1>5 DEF Reads
<1>9. /\ skew' \in [stream : SUBSET Causes, window : SUBSET Causes, older : SUBSET Causes]
      /\ skew'.older = {} /\ skew'.stream = skew.stream /\ skew'.window = skew.window
  BY DEF ServeOlder, Inv, Shape
<1>7. Shape'
  BY <1>1, <1>6, <1>9 DEF Inv, Shape, host, network, stream, window
<1>8. Reading'
  BY <1>1, <1>2, <1>4, <1>6, <1>9 DEF Inv, Reading, Mending, Loading, host, stream, window
<1>10. Early'
  BY <1>1, EarlyStays DEF host, network
<1> QED
  BY <1>1, <1>7, <1>8, <1>9, <1>10 DEF Inv, Conversation, Server, Wire, Window, Alarm, FrameOf, Turns, Size, TurnEnd,
                                       host, network, stream, window

-----------------------------------------------------------------------------
\* The browser's side.  Whatever it does, the conversation stays.
LEMMA HostStays ==
  ASSUME Inv, UNCHANGED <<log, starts>>, srv' \in {srv, NoStream}, skew'.stream = skew.stream
  PROVE  Conversation' /\ Server'
BY Kinds DEF Inv, Conversation, Server, Turns, Size, TurnEnd

\* The stream fails for good, or another generation of it begins.
LEMMA FailKeeps ==
  ASSUME Inv, NEW reason \in {"carrier", "page", "violation", "gaps"}, Fail(reason),
         reason = "violation" => "prompt" \in skew.stream \cup skew.window,
         UNCHANGED <<log, starts>>, ends' \in Seq(Nat \cup {Running, Orphaned}), Len(ends') = Len(ends),
         closed' \subseteq closed, online' \in BOOLEAN, ready' \in BOOLEAN, faults' \in 0 .. MaxFaults
  PROVE  Inv'
<1>1. /\ phase' = "error" /\ why' = reason /\ opened' = FALSE /\ srv' = NoStream /\ wire' = <<>>
      /\ repair' = NoRepair /\ older' = NoPage /\ UNCHANGED <<attempt, base, win, last, more, skew>>
  BY DEF Fail, NoFrames
<1>2. wire' \in Seq(Openings \cup Entries) /\ Len(wire') = 0
  BY <1>1
<1>3. Shape'
  BY <1>1, <1>2 DEF Inv, Shape
<1>4. Conversation' /\ Server'
  BY <1>1, HostStays
<1>5. Wire'
  BY <1>1, <1>2 DEF Wire
<1>6. Window' /\ Alarm' /\ Reading'
  BY <1>1 DEF Inv, Window, Alarm, Reading
<1>7. Early'
  BY <1>1, <1>2 DEF Early, EarlyRepair
<1> QED
  BY <1>3, <1>4, <1>5, <1>6, <1>7 DEF Inv

LEMMA StartsOver ==
  ASSUME Inv, phase \in {"opening", "live"}, phase' \in {"opening", "waiting"}, NoFrames, repair' = NoRepair,
         UNCHANGED <<why, window, older, skew>>, UNCHANGED <<log, starts>>, ends' \in Seq(Nat \cup {Running, Orphaned}), Len(ends') = Len(ends),
         closed' \subseteq closed, online' \in BOOLEAN, ready' \in BOOLEAN,
         attempt' \in 0 .. 2, faults' \in 0 .. MaxFaults
  PROVE  Inv'
<1>1. srv' = NoStream /\ wire' = <<>> /\ wire' \in Seq(Openings \cup Entries) /\ Len(wire') = 0
  BY DEF NoFrames
<1>2. Shape'
  BY <1>1 DEF Inv, Shape, window
<1>3. Conversation' /\ Server'
  BY <1>1, HostStays
<1>4. Wire'
  BY <1>1 DEF Wire
<1>5. Window' /\ Alarm' /\ Reading'
  BY DEF Inv, Window, Alarm, Reading, Loading, window
<1>6. Early'
  BY <1>1 DEF Early, EarlyRepair
<1> QED
  BY <1>2, <1>3, <1>4, <1>5, <1>6 DEF Inv

LEMMA RetryKeeps ==
  ASSUME Inv, phase \in {"opening", "live"}, NEW seen, Retry(seen), UNCHANGED <<log, starts>>, ends' \in Seq(Nat \cup {Running, Orphaned}), Len(ends') = Len(ends),
         closed' \subseteq closed, online' \in BOOLEAN, ready' \in BOOLEAN, faults' \in 0 .. MaxFaults
  PROVE  Inv'
<1>1. CASE seen /\ attempt > 0
  BY <1>1, FailKeeps DEF Retry
<1>2. CASE ~(seen /\ attempt > 0)
  <2>1. /\ phase' = (IF seen THEN "opening" ELSE "waiting") /\ attempt' = Least(2, attempt + 1)
        /\ NoFrames /\ repair' = NoRepair /\ UNCHANGED <<why, window, older, skew>>
    BY <1>2 DEF Retry
  <2>2. attempt' \in 0 .. 2
    BY <2>1 DEF Inv, Shape, Least
  <2> QED
    BY <2>1, <2>2, StartsOver
<1> QED
  BY <1>1, <1>2

LEMMA LoseKeeps == ASSUME Inv, NEW restart \in BOOLEAN, Lose(restart) PROVE Inv'
<1>1. UNCHANGED <<log, starts>> /\ online' = FALSE /\ ready' = FALSE /\ faults' \in 0 .. MaxFaults
  BY FaultsCount DEF Lose
<1>5. ends' \in Seq(Nat \cup {Running, Orphaned}) /\ Len(ends') = Len(ends)
  <2> DEFINE X == Nat \cup {Running, Orphaned}
             n == Len(ends)
             left == [t \in 1 .. n |-> IF restart /\ ends[t] = Running THEN Orphaned ELSE ends[t]]
  <2>1. ends \in Seq(X) /\ n \in Nat /\ DOMAIN ends = 1 .. n /\ Orphaned \in X
    BY LenProperties DEF Inv, Shape
  <2>2. \A t \in 1 .. n : ends[t] \in X
    BY <2>1, ElementOfSeq
  <2>3. ends' = left
    BY <2>1 DEF Lose
  <2>4. left \in [1 .. n -> X]
    BY <2>1, <2>2
  <2>5. left \in Seq(X) /\ Len(left) = n
    <3> HIDE DEF left, n, X
    <3> QED
      BY <2>1, <2>4, SeqDef, LenProperties
  <2> QED
    BY <2>3, <2>5
<1>2. closed' \subseteq closed
  BY DEF Lose
<1>3. CASE phase \in {"opening", "live"}
  <2>1. PICK seen \in {ready, FALSE} : Retry(seen)
    BY <1>3 DEF Lose
  <2>2. online' \in BOOLEAN /\ ready' \in BOOLEAN
    BY <1>1
  <2> QED
    BY <1>1, <1>2, <1>3, <1>5, <2>1, <2>2, RetryKeeps
<1>4. CASE phase \notin {"opening", "live"}
  <2>1. srv' = NoStream /\ wire' = <<>> /\ UNCHANGED <<stream, window, pages, skew>>
    BY <1>4 DEF Lose, NoFrames
  <2>2. wire' \in Seq(Openings \cup Entries) /\ Len(wire') = 0
    BY <2>1
  <2>3. Shape'
    BY <1>1, <1>2, <1>5, <2>1, <2>2 DEF Inv, Shape, stream, window, pages
  <2>4. Conversation' /\ Server'
    BY <1>1, <2>1, HostStays
  <2>5. Wire'
    BY <1>4, <2>1, <2>2 DEF Wire, stream
  <2>6. Window' /\ Alarm' /\ Reading'
    BY <1>1, <2>1, WindowStays DEF stream
  <2>7. repair' = NoRepair
    BY <1>4, <2>1 DEF Inv, Reading, Mending, pages
  <2>8. Early'
    BY <2>2, <2>7 DEF Early, EarlyRepair
  <2> QED
    BY <2>3, <2>4, <2>5, <2>6, <2>8 DEF Inv
<1> QED
  BY <1>3, <1>4

LEMMA ConnectFailsKeeps == ASSUME Inv, ConnectFails PROVE Inv'
<1>1. /\ UNCHANGED <<log, starts>> /\ ends' \in Seq(Nat \cup {Running, Orphaned}) /\ Len(ends') = Len(ends)
      /\ closed' \subseteq closed /\ Retry(FALSE) /\ faults' \in 0 .. MaxFaults /\ phase \in {"opening", "live"}
  BY FaultsCount DEF ConnectFails, host, Inv, Shape
<1>2. online' \in BOOLEAN /\ ready' \in BOOLEAN
  BY DEF ConnectFails, Inv, Shape
<1> QED
  BY <1>1, <1>2, RetryKeeps

LEMMA RebaselineKeeps == ASSUME Inv, Rebaseline PROVE Inv'
<1>1. /\ UNCHANGED <<log, starts>> /\ ends' \in Seq(Nat \cup {Running, Orphaned}) /\ Len(ends') = Len(ends)
      /\ closed' \subseteq closed /\ faults' \in 0 .. MaxFaults /\ phase \in {"opening", "live"}
  BY FaultsCount DEF Rebaseline, host, Inv, Shape
<1>2. online' \in BOOLEAN /\ ready' \in BOOLEAN
  BY DEF Rebaseline, Inv, Shape
<1>3. CASE Retry(ready)
  BY <1>1, <1>2, <1>3, RetryKeeps
<1>4. CASE /\ phase' = "opening" /\ attempt' = 0 /\ NoFrames /\ repair' = NoRepair
           /\ UNCHANGED <<why, window, older, skew>>
  <2>1. attempt' \in 0 .. 2
    BY <1>4
  <2> QED
    BY <1>1, <1>2, <1>4, <2>1, StartsOver
<1> QED
  BY <1>3, <1>4 DEF Rebaseline

LEMMA RepairFailsKeeps == ASSUME Inv, RepairFails PROVE Inv'
<1>1. /\ UNCHANGED <<log, starts>> /\ ends' \in Seq(Nat \cup {Running, Orphaned}) /\ Len(ends') = Len(ends)
      /\ closed' \subseteq closed /\ Fail("page") /\ faults' \in 0 .. MaxFaults
  BY FaultsCount DEF RepairFails, host, Inv, Shape
<1>2. online' \in BOOLEAN /\ ready' \in BOOLEAN
  BY DEF RepairFails, Inv, Shape
<1> QED
  BY <1>1, <1>2, FailKeeps

LEMMA OpenKeeps == ASSUME Inv, Open PROVE Inv'
<1>1. /\ phase \in {"cold", "error"} /\ phase' = "opening" /\ attempt' = 0 /\ why' = "none" /\ last' = None
      /\ UNCHANGED <<host, network, opened, base, win, more, pages, skew, faults>>
  BY DEF Open
<1>2. srv = NoStream /\ wire = <<>> /\ ~opened /\ repair = NoRepair /\ older = NoPage
  BY <1>1 DEF Inv, Wire, Window, Reading, Mending, Loading
<1>3. Shape'
  BY <1>1 DEF Inv, Shape, host, network, pages
<1>4. Conversation' /\ Server'
  BY <1>1, HostStays DEF host, network
<1>5. Wire'
  <2>1. Len(wire) = 0
    BY <1>2
  <2> QED
    BY <1>1, <1>2, <2>1 DEF Wire, network
<1>6. Window' /\ Alarm' /\ Reading'
  <2>1. None < 0 /\ None <= Len(log)
    <3>1. Len(log) \in Nat
      BY DEF Inv, Shape
    <3> QED
      BY <3>1 DEF None
  <2> QED
    BY <1>1, <1>2, <2>1 DEF Window, Alarm, Reading, pages, host
<1>7. Early'
  BY <1>1, EarlyStays DEF host, network, pages
<1> QED
  BY <1>3, <1>4, <1>5, <1>6, <1>7 DEF Inv

LEMMA CarrierKeeps == ASSUME Inv, Reconnect \/ Ready PROVE Inv'
<1>1. /\ UNCHANGED <<host, srv, wire, attempt, why, window, pages, skew, faults>>
      /\ phase' = phase \/ (phase = "waiting" /\ phase' = "opening")
      /\ online' \in BOOLEAN /\ ready' \in BOOLEAN
  BY DEF Reconnect, Ready, stream, Inv, Shape
<1>2. Shape'
  BY <1>1 DEF Inv, Shape, host, window, pages
<1>3. Conversation' /\ Server'
  BY <1>1, HostStays DEF host
<1>4. Wire' /\ Window' /\ Alarm'
  <2>1. phase = "waiting" => srv = NoStream /\ wire = <<>>
    BY DEF Inv, Wire
  <2>2. CASE phase' = phase
    BY <1>1, <2>2 DEF Inv, Wire, Window, Alarm, host, window
  <2>3. CASE phase = "waiting" /\ phase' = "opening"
    BY <1>1, <2>1, <2>3 DEF Inv, Wire, Window, Alarm, host, window
  <2> QED
    BY <1>1, <2>2, <2>3
<1>5. Reading'
  <2>1. repair # NoRepair => phase = "live"
    BY DEF Inv, Reading, Mending
  <2> QED
    BY <1>1, <2>1 DEF Inv, Reading, Mending, Loading, host, window, pages
<1>6. Early'
  BY <1>1, EarlyStays DEF host, pages
<1> QED
  BY <1>2, <1>3, <1>4, <1>5, <1>6 DEF Inv

LEMMA LoadOlderKeeps == ASSUME Inv, LoadOlder PROVE Inv'
<1>1. UNCHANGED <<host, network, stream, window, repair, skew, faults>> /\ opened /\ more
  BY DEF LoadOlder
<1>2. log \in Seq(Nat) /\ Len(log) \in Nat /\ base \in Nat /\ win \in Seq(Nat) /\ Len(win) \in Nat
  BY DEF Inv, Shape
<1>3. win # <<>> /\ base > 0
  <2>1. win # <<>> /\ base # 0
    BY <1>1 DEF Inv, Window, WindowOf
  <2> QED
    BY <1>2, <2>1
<1>4. older' = [state |-> "asked", through |-> last, before |-> base, page |-> Page(0)]
  BY DEF LoadOlder
<1>5. Page(0) \in Pages
  <2>1. 0 \in 0 .. Len(log)
    BY <1>2
  <2> QED
    BY <1>2, <2>1, PageIsSound
<1>6. last \in Int
  BY <1>2 DEF Inv, Window, None, Empty
<1>7. older' \in Reads /\ older'.state = "asked" /\ older'.before = base
  BY <1>2, <1>4, <1>5, <1>6 DEF Reads
<1>8. Shape'
  BY <1>1, <1>7 DEF Inv, Shape, host, network, stream, window
<1>9. Reading'
  BY <1>1, <1>3, <1>7 DEF Inv, Reading, Mending, Loading, host, stream, window
<1>10. Early'
  BY <1>1, EarlyStays DEF host, network
<1> QED
  BY <1>1, <1>8, <1>9, <1>10 DEF Inv, Conversation, Server, Wire, Window, Alarm, FrameOf, Turns, Size, TurnEnd,
                          host, network, stream, window

LEMMA OlderFailsKeeps == ASSUME Inv, OlderFails PROVE Inv'
<1>1. UNCHANGED <<host, network, stream, window, repair, skew>> /\ older' = NoPage /\ faults' \in 0 .. MaxFaults
  BY FaultsCount DEF OlderFails
<1>2. Shape'
  BY <1>1 DEF Inv, Shape, host, network, stream, window
<1>3. Reading'
  BY <1>1 DEF Inv, Reading, Mending, host, stream, window
<1>4. Early'
  BY <1>1, EarlyStays DEF host, network
<1> QED
  BY <1>1, <1>2, <1>3, <1>4 DEF Inv, Conversation, Server, Wire, Window, Alarm, FrameOf, Turns, Size, TurnEnd,
                          host, network, stream, window

\* A page of the log is a window of it.
LEMMA PageIsWindow ==
  ASSUME NEW l \in Seq(Nat), NEW c, NEW p \in Pages, PageOf(l, c, p)
  PROVE  /\ PageBase(p) \in Nat /\ p.recs \in Seq(Nat) /\ Len(p.recs) \in Nat
         /\ WindowOf(l, c, PageBase(p), p.recs) /\ PageTail(p) = PageBase(p) + Len(p.recs) - 1
         /\ p.recs # <<>> => PageBase(p) = p.tail - Len(p.recs) + 1 /\ PageBase(p) >= 1 /\ Len(p.recs) >= 1
         /\ p.more => p.recs # <<>>
<1>1. p.tail \in Nat /\ p.recs \in Seq(Nat) /\ Len(p.recs) \in Nat /\ Len(l) \in Nat
  BY DEF Pages
<1>2. CASE p.recs = <<>>
  <2>1. Len(p.recs) = 0 /\ p.tail = 0
    BY <1>1, <1>2 DEF PageOf
  <2>2. PageBase(p) = 0 /\ PageTail(p) = -1 /\ ~p.more
    BY <1>2, <2>1 DEF PageBase, PageTail, Empty, PageOf
  <2>3. WindowOf(l, c, PageBase(p), p.recs)
    BY <2>1, <2>2 DEF WindowOf
  <2>4. PageTail(p) = PageBase(p) + Len(p.recs) - 1 /\ PageBase(p) \in Nat
    BY <2>1, <2>2
  <2> QED
    BY <1>1, <1>2, <2>2, <2>3, <2>4
<1>3. CASE p.recs # <<>>
  <2>1. Len(p.recs) >= 1 /\ Len(p.recs) <= p.tail /\ p.tail <= Len(l)
    BY <1>1, <1>3 DEF PageOf
  <2>2. PageBase(p) = p.tail - Len(p.recs) + 1 /\ PageTail(p) = p.tail
    BY <1>3 DEF PageBase, PageTail
  <2>3. ASSUME c = {}, NEW i \in 1 .. Len(p.recs)
        PROVE  PageBase(p) + i - 1 \in 1 .. Len(l) /\ p.recs[i] = l[PageBase(p) + i - 1]
    <3>1. PageBase(p) + i - 1 = p.tail - Len(p.recs) + i
      BY <1>1, <2>2
    <3>2. p.recs[i] = l[p.tail - Len(p.recs) + i]
      BY <2>3 DEF PageOf
    <3>3. p.tail - Len(p.recs) + i \in 1 .. Len(l)
      BY <1>1, <2>1
    <3> QED
      BY <3>1, <3>2, <3>3
  <2>5. PageBase(p) \in Nat /\ PageBase(p) >= 1 /\ PageTail(p) = PageBase(p) + Len(p.recs) - 1
    BY <1>1, <2>1, <2>2
  <2>4. WindowOf(l, c, PageBase(p), p.recs)
    BY <1>3, <2>3, <2>5 DEF WindowOf
  <2> QED
    BY <1>1, <1>3, <2>1, <2>2, <2>4, <2>5
<1> QED
  BY <1>2, <1>3

LEMMA TakeOpenedKeeps == ASSUME Inv, TakeOpened PROVE Inv'
<1>1. phase = "opening" /\ wire # <<>> /\ UNCHANGED <<host, online, ready, faults>>
  BY DEF TakeOpened
<1>2. /\ log \in Seq(Nat) /\ Len(log) \in Nat /\ wire \in Seq(Openings \cup Entries) /\ win \in Seq(Nat)
      /\ base \in Nat /\ Len(win) \in Nat
  BY DEF Inv, Shape
<1>3. srv # NoStream
  BY <1>1 DEF Inv, Wire
<1>4. /\ Len(wire) > 0 /\ wire[1] \in Openings /\ ("prompt" \notin skew.window => wire[1].cursor >= last)
      /\ \A i \in 2 .. Len(wire) : wire[i] \in Entries
  BY <1>1, <1>3 DEF Inv, Wire
<1> DEFINE frame == Head(wire)
           page == frame.page
<1>5. frame = wire[1]
  BY <1>1, <1>2, Rest
<1>6. /\ frame \in Openings /\ page \in Pages /\ PageOf(log, skew.stream, page) /\ frame.cursor = PageTail(page)
      /\ "prompt" \notin skew.window => frame.cursor >= last
  <2>1. 1 \in 1 .. Len(wire)
    BY <1>2, <1>4
  <2>2. FrameOf(log, skew.stream, wire[1])
    BY <2>1 DEF Inv, Wire
  <2> QED
    BY <1>4, <1>5, <2>2 DEF FrameOf, Openings
<1>7. frame.cursor \in Int /\ last \in Int
  BY <1>2, <1>6 DEF Openings, Inv, Window, None, Empty
<1>19. CASE frame.cursor < last
  <2>1. Fail("violation") /\ "prompt" \in skew.stream \cup skew.window
    BY <1>6, <1>7, <1>19 DEF TakeOpened
  <2>2. /\ UNCHANGED <<log, starts>> /\ ends' \in Seq(Nat \cup {Running, Orphaned}) /\ Len(ends') = Len(ends)
        /\ closed' \subseteq closed /\ online' \in BOOLEAN /\ ready' \in BOOLEAN /\ faults' \in 0 .. MaxFaults
    BY <1>1 DEF Inv, Shape, host
  <2> QED
    BY <2>1, <2>2, FailKeeps
<1> SUFFICES ASSUME frame.cursor >= last PROVE Inv'
  BY <1>7, <1>19
<1>20. /\ skew' \in [stream : SUBSET Causes, window : SUBSET Causes, older : SUBSET Causes]
       /\ skew'.window = skew.stream /\ skew'.stream = skew.stream /\ skew'.older = skew.older
  <2>1. skew' = [skew EXCEPT !.window = skew.stream]
    BY <1>6, <1>7 DEF TakeOpened
  <2> QED
    BY <2>1 DEF Inv, Shape
<1>8. /\ phase' = "live" /\ attempt' = 0 /\ opened' = TRUE /\ last' = frame.cursor
      /\ base' = PageBase(page) /\ win' = page.recs /\ more' = page.more
      /\ wire' = Tail(wire) /\ UNCHANGED <<srv, why, pages>>
  BY <1>6, <1>7 DEF TakeOpened
<1>9. /\ PageBase(page) \in Nat /\ page.recs \in Seq(Nat) /\ Len(page.recs) \in Nat
      /\ WindowOf(log, skew.stream, PageBase(page), page.recs) /\ PageTail(page) = PageBase(page) + Len(page.recs) - 1
      /\ page.recs # <<>> => PageBase(page) >= 1 /\ Len(page.recs) >= 1
      /\ page.more => page.recs # <<>>
  BY <1>2, <1>6, PageIsWindow
<1>10. more' \in BOOLEAN
  BY <1>6, <1>8 DEF Pages
<1>11. /\ wire' \in Seq(Openings \cup Entries) /\ Len(wire') = Len(wire) - 1
       /\ \A i \in 1 .. Len(wire) - 1 : wire'[i] = wire[i + 1]
  BY <1>1, <1>2, <1>8, Rest
<1>12. repair = NoRepair
  BY <1>1 DEF Inv, Reading, Mending
<1> HIDE DEF frame, page
<1>13. Shape'
  <2>1. UNCHANGED <<host, online, ready, faults, srv, why, pages>> /\ attempt' \in 0 .. 2
    BY <1>1, <1>8
  <2>2. base' \in Nat /\ win' \in Seq(Nat) /\ opened' \in BOOLEAN /\ phase' = "live"
    BY <1>8, <1>9
  <2> QED
    BY <1>10, <1>11, <1>20, <2>1, <2>2 DEF Inv, Shape, host, pages
<1>14. Conversation' /\ Server'
  BY <1>1, <1>8, <1>20, HostStays DEF host
<1>15. Wire'
  <2>1. log' = log
    BY <1>1 DEF host
  <2>2. ASSUME NEW i \in 1 .. Len(wire') PROVE FrameOf(log, skew.stream, wire'[i]) /\ wire'[i] \in Entries
    <3>1. i + 1 \in 2 .. Len(wire) /\ i + 1 \in 1 .. Len(wire) /\ wire'[i] = wire[i + 1]
      BY <1>2, <1>11
    <3> QED
      BY <1>4, <3>1 DEF Inv, Wire
  <2> QED
    BY <1>3, <1>8, <1>20, <2>1, <2>2 DEF Wire
<1>21. Early'
  <2> SUFFICES ASSUME srv.turn <= 1
               PROVE  (\A i \in 1 .. Len(wire') : EarlyFrame(FirstTurn, wire'[i])) /\ EarlyRepair(FirstTurn, repair)
    BY <1>1, <1>8 DEF Early, FirstTurn, Turns, host, pages
  <2>1. \A i \in 1 .. Len(wire') : i + 1 \in 1 .. Len(wire) /\ wire'[i] = wire[i + 1]
    BY <1>2, <1>11
  <2> QED
    BY <2>1 DEF Inv, Early
<1>16. last' \in {None, Empty} \cup 1 .. Len(log)
  <2>1. PageTail(page) = (IF page.tail = 0 THEN Empty ELSE page.tail) /\ page.tail \in Nat /\ page.tail <= Len(log)
    BY <1>2, <1>6, TailOf DEF Pages, PageOf
  <2> QED
    BY <1>2, <1>6, <1>8, <2>1
<1>17. Window' /\ Alarm'
  <2>1. last' \in {None, Empty} \/ last' \in Nat \ {0}
    BY <1>16
  <2>2. last' <= Len(log)
    BY <1>2, <1>16 DEF None, Empty
  <2>3. why = "none"
    BY <1>1 DEF Inv, Alarm
  <2> QED
    BY <1>1, <1>6, <1>8, <1>9, <1>20, <2>1, <2>2, <2>3 DEF Window, Alarm, host
<1>18. Reading'
  <2>1. ASSUME older # NoPage PROVE win' # <<>>
    <3>1. opened /\ win # <<>> /\ Loading
      BY <2>1 DEF Inv, Reading, Loading
    <3>2. last >= 1
      <4>1. Len(win) >= 1
        BY <1>2, <3>1, EmptySeq
      <4>2. base # 0 /\ last = base + Len(win) - 1
        BY <3>1 DEF Inv, Window, WindowOf
      <4> QED
        BY <1>2, <4>1, <4>2
    <3>3. PageTail(page) >= 1 /\ PageTail(page) # Empty
      BY <1>6, <1>7, <3>2 DEF Empty
    <3>4. page.recs # <<>>
      BY <3>3 DEF PageTail
    <3> QED
      BY <1>8, <3>4
  <2> QED
    BY <1>1, <1>8, <1>12, <1>20, <2>1 DEF Inv, Reading, Loading, pages, host
<1> QED
  BY <1>13, <1>14, <1>15, <1>17, <1>18, <1>21 DEF Inv

\* After the head of the wire is taken.
LEMMA WireAdvances ==
  ASSUME Inv, phase = "live", wire # <<>>, wire' = Tail(wire), UNCHANGED <<log, srv, phase>>,
         skew'.stream = skew.stream
  PROVE  /\ Head(wire) \in Entries /\ EntryOf(log, skew.stream, Head(wire))
         /\ srv.turn <= 1 => Head(wire).seq <= FirstTurn
         /\ wire' \in Seq(Openings \cup Entries) /\ Wire'
         /\ srv.turn <= 1 => \A i \in 1 .. Len(wire') : EarlyFrame(FirstTurn, wire'[i])
<1>1. wire \in Seq(Openings \cup Entries) /\ Len(wire) \in Nat
  BY DEF Inv, Shape
<1>2. /\ Head(wire) = wire[1] /\ Len(wire) \in Nat \ {0}
      /\ wire' \in Seq(Openings \cup Entries) /\ Len(wire') = Len(wire) - 1
      /\ \A i \in 1 .. Len(wire) - 1 : wire'[i] = wire[i + 1]
  BY <1>1, Rest
<1>3. /\ \A i \in 1 .. Len(wire) : FrameOf(log, skew.stream, wire[i]) /\ wire[i] \in Entries
      /\ srv.turn <= 1 => \A i \in 1 .. Len(wire) : EarlyFrame(FirstTurn, wire[i])
  BY DEF Inv, Wire, Early
<1>4. /\ Head(wire) \in Entries /\ EntryOf(log, skew.stream, Head(wire))
      /\ srv.turn <= 1 => Head(wire).seq <= FirstTurn
  <2>1. 1 \in 1 .. Len(wire)
    BY <1>2
  <2>2. /\ FrameOf(log, skew.stream, Head(wire)) /\ Head(wire) \in Entries
        /\ srv.turn <= 1 => EarlyFrame(FirstTurn, Head(wire))
    BY <1>2, <1>3, <2>1
  <2> QED
    BY <2>2 DEF FrameOf, EarlyFrame
<1>5. \A i \in 1 .. Len(wire') : i + 1 \in 1 .. Len(wire) /\ wire'[i] = wire[i + 1]
  BY <1>2
<1>6. /\ \A i \in 1 .. Len(wire') : FrameOf(log, skew.stream, wire'[i]) /\ wire'[i] \in Entries
      /\ srv.turn <= 1 => \A i \in 1 .. Len(wire') : EarlyFrame(FirstTurn, wire'[i])
  BY <1>3, <1>5
<1>7. srv # NoStream
  BY DEF Inv, Wire
<1> QED
  BY <1>2, <1>4, <1>6, <1>7 DEF Wire

LEMMA TakeEntryKeeps == ASSUME Inv, TakeEntry PROVE Inv'
<1>1. /\ phase = "live" /\ wire # <<>> /\ repair = NoRepair /\ wire' = Tail(wire)
      /\ UNCHANGED <<host, srv, online, ready, stream, older, faults>>
  BY DEF TakeEntry
<1>2. /\ log \in Seq(Nat) /\ Len(log) \in Nat /\ win \in Seq(Nat) /\ Len(win) \in Nat /\ base \in Nat
      /\ log' = log /\ phase' = phase
      /\ skew \in [stream : SUBSET Causes, window : SUBSET Causes, older : SUBSET Causes]
  BY <1>1 DEF Inv, Shape, host, stream
<1> DEFINE entry == Head(wire)
<1>3. /\ skew' = skew \/ skew' = [skew EXCEPT !.window = skew.window \cup skew.stream]
      /\ skew' \in [stream : SUBSET Causes, window : SUBSET Causes, older : SUBSET Causes]
      /\ skew'.stream = skew.stream /\ skew'.older = skew.older
  <2>1. skew' = skew \/ skew' = [skew EXCEPT !.window = skew.window \cup skew.stream]
    BY DEF TakeEntry
  <2> QED
    BY <1>2, <2>1
<1>4. /\ entry \in Entries /\ EntryOf(log, skew.stream, entry) /\ (srv.turn <= 1 => entry.seq <= FirstTurn)
      /\ wire' \in Seq(Openings \cup Entries) /\ Wire'
      /\ srv.turn <= 1 => \A i \in 1 .. Len(wire') : EarlyFrame(FirstTurn, wire'[i])
  BY <1>1, <1>3, WireAdvances DEF host, stream
<1>5. /\ entry.seq \in Nat /\ entry.rec \in Nat /\ entry.seq > 0 /\ entry.seq <= Len(log) + Len(log)
      /\ "prompt" \notin skew.stream => entry.seq <= Len(log)
      /\ skew.stream = {} => entry.rec = log[entry.seq]
  BY <1>4 DEF EntryOf, Entries
<1>6. Conversation' /\ Server'
  BY <1>1, <1>3, HostStays DEF host
<1>7. /\ opened /\ WindowOf(log, skew.window, base, win) /\ last = base + Len(win) - 1 /\ last \in Int
      /\ why = "none" /\ srv # NoStream
  <2>1. opened
    BY <1>1 DEF Inv, Window
  <2> QED
    BY <1>1, <1>2, <2>1 DEF Inv, Window, Alarm, Wire
<1>8. ASSUME srv.turn <= 1 => EarlyRepair(FirstTurn, repair') PROVE Early'
  <2>1. FirstTurn' = FirstTurn
    BY <1>1 DEF FirstTurn, Turns, host
  <2> QED
    BY <1>1, <1>4, <1>8, <2>1 DEF Early
<1>9. CASE entry.seq <= last /\ UNCHANGED <<window, repair, skew>>
  <2>1. Shape'
    BY <1>1, <1>4, <1>9 DEF Inv, Shape, host, stream, window
  <2>2. Window' /\ Alarm' /\ Reading'
    BY <1>1, <1>2, <1>9 DEF Inv, Window, Alarm, Reading, Mending, Loading, stream, window
  <2>3. Early'
    BY <1>1, <1>8, <1>9 DEF EarlyRepair
  <2> QED
    BY <1>4, <1>6, <2>1, <2>2, <2>3 DEF Inv
<1>10. CASE /\ entry.seq = last + 1
            /\ win' = Append(win, entry.rec) /\ last' = entry.seq
            /\ base' = IF win = <<>> THEN entry.seq ELSE base
            /\ skew' = [skew EXCEPT !.window = skew.window \cup skew.stream]
            /\ UNCHANGED <<opened, more, repair>>
  <2>1. win # <<>> /\ base # 0
    <3> SUFFICES ASSUME win = <<>> PROVE FALSE
      BY <1>7 DEF WindowOf
    <3>1. base = 0 /\ Len(win) = 0
      BY <1>7 DEF WindowOf
    <3>2. entry.seq = 0
      BY <1>7, <1>10, <3>1
    <3> QED
      BY <1>5, <3>2
  <2>2. base' = base /\ skew'.window = skew.window \cup skew.stream
    BY <1>2, <1>10, <2>1
  <2>3. /\ win' \in Seq(Nat) /\ Len(win') = Len(win) + 1 /\ win'[Len(win) + 1] = entry.rec
        /\ \A i \in 1 .. Len(win) : win'[i] = win[i]
    BY <1>2, <1>5, <1>10, Appended
  <2>4. win' # <<>>
    BY <1>2, <2>3
  <2>5. Shape'
    BY <1>1, <1>3, <1>4, <1>10, <2>2, <2>3 DEF Inv, Shape, host, stream
  <2>6. ASSUME skew'.window = {}, NEW i \in 1 .. Len(win')
        PROVE  base + i - 1 \in 1 .. Len(log) /\ win'[i] = log[base + i - 1]
    <3>1. CASE i \in 1 .. Len(win)
      <4>1. skew.window = {} /\ win'[i] = win[i]
        BY <2>2, <2>3, <2>6, <3>1
      <4> QED
        BY <1>7, <3>1, <4>1 DEF WindowOf
    <3>2. CASE i = Len(win) + 1
      <4>1. base + i - 1 = entry.seq
        BY <1>2, <1>7, <1>10, <3>2
      <4>2. entry.rec = log[entry.seq] /\ entry.seq \in 1 .. Len(log)
        <5>1. skew.stream = {} /\ "prompt" \notin skew.stream
          BY <2>2, <2>6
        <5> QED
          BY <1>2, <1>5, <5>1
      <4> QED
        BY <2>3, <3>2, <4>1, <4>2
    <3> QED
      BY <1>2, <2>3, <3>1, <3>2
  <2>7. WindowOf(log, skew'.window, base', win')
    BY <2>1, <2>2, <2>4, <2>6 DEF WindowOf
  <2>8. last' = base' + Len(win') - 1
    BY <1>2, <1>5, <1>7, <1>10, <2>2, <2>3
  <2>9. Window' /\ Alarm'
    <3>1. "prompt" \notin skew'.window => last' <= Len(log)
      BY <1>5, <1>10, <2>2
    <3>2. last' \in Nat \ {0}
      BY <1>5, <1>10
    <3>3. why' = why
      BY <1>1 DEF stream
    <3> QED
      BY <1>1, <1>2, <1>7, <1>10, <2>4, <2>7, <2>8, <3>1, <3>2, <3>3 DEF Window, Alarm
  <2>10. Reading'
    BY <1>1, <1>2, <1>3, <1>7, <1>10, <2>4 DEF Inv, Reading, Loading
  <2>11. Early'
    BY <1>1, <1>8, <1>10 DEF EarlyRepair
  <2> QED
    BY <1>4, <1>6, <2>5, <2>9, <2>10, <2>11 DEF Inv
<1>11. CASE /\ entry.seq > last + 1
            /\ repair' = [state |-> "asked", round |-> 1, through |-> entry.seq,
                          queued |-> <<entry>>, page |-> Page(0)]
            /\ UNCHANGED <<window, skew>>
  <2>1. Page(0) \in Pages
    <3>1. 0 \in 0 .. Len(log)
      BY <1>2
    <3> QED
      BY <1>2, <3>1, PageIsSound
  <2>2. <<entry>> \in Seq(Entries) /\ Len(<<entry>>) = 1 /\ \A i \in 1 .. 1 : <<entry>>[i] = entry
    BY <1>4
  <2> HIDE DEF entry
  <2>3. /\ repair' \in Repairs /\ repair'.through = entry.seq /\ repair'.queued = <<entry>>
        /\ repair'.state = "asked"
    BY <1>5, <1>11, <2>1, <2>2 DEF Repairs
  <2>4. Shape'
    BY <1>1, <1>4, <1>11, <2>3 DEF Inv, Shape, host, stream, window
  <2>5. Window' /\ Alarm'
    BY <1>1, <1>2, <1>11 DEF Inv, Window, Alarm, window, stream
  <2>6. Mending'
    <3>1. entry.seq > last
      BY <1>5, <1>7, <1>11
    <3> QED
      BY <1>1, <1>2, <1>4, <1>5, <1>11, <2>2, <2>3, <3>1 DEF Mending, window
  <2>7. Reading'
    BY <1>1, <1>2, <1>11, <2>6 DEF Inv, Reading, Loading, window
  <2>8. Early'
    <3>1. srv.turn <= 1 => EarlyRepair(FirstTurn, repair')
      BY <1>4, <2>2, <2>3 DEF EarlyRepair
    <3> QED
      BY <1>8, <3>1
  <2> QED
    BY <1>4, <1>6, <2>4, <2>5, <2>7, <2>8 DEF Inv
<1> QED
  BY <1>9, <1>10, <1>11 DEF TakeEntry

\* An entry that waits for the page.
LEMMA QueuedIs ==
  ASSUME Inv, TakeQueued
  PROVE  /\ repair # NoRepair /\ repair' \in Repairs /\ repair'.through = repair.through
         /\ repair'.round = repair.round /\ repair'.state = repair.state /\ repair'.page = repair.page
         /\ Head(wire) \in Entries /\ repair'.queued \in Seq(Entries)
         /\ repair'.queued = Append(repair.queued, Head(wire))
         /\ Len(repair'.queued) = Len(repair.queued) + 1
         /\ repair'.queued[Len(repair.queued) + 1] = Head(wire)
         /\ \A i \in 1 .. Len(repair.queued) : repair'.queued[i] = repair.queued[i]
<1>1. /\ phase = "live" /\ wire # <<>> /\ repair # NoRepair
      /\ repair' = [repair EXCEPT !.queued = Append(repair.queued, Head(wire))]
  BY DEF TakeQueued
<1>2. repair \in Repairs /\ repair.queued \in Seq(Entries)
  BY <1>1, RepairIs
<1>3. Head(wire) \in Entries
  <2>1. wire \in Seq(Openings \cup Entries) /\ \A i \in 1 .. Len(wire) : wire[i] \in Entries
    BY <1>1 DEF Inv, Shape, Wire
  <2>2. Head(wire) = wire[1] /\ Len(wire) \in Nat \ {0}
    BY <1>1, <2>1, Rest
  <2> QED
    BY <2>1, <2>2
<1> DEFINE queued == Append(repair.queued, Head(wire))
<1>4. /\ queued \in Seq(Entries) /\ Len(queued) = Len(repair.queued) + 1
      /\ queued[Len(repair.queued) + 1] = Head(wire)
      /\ \A i \in 1 .. Len(repair.queued) : queued[i] = repair.queued[i]
  BY <1>2, <1>3, Appended
<1>5. repair' = [repair EXCEPT !.queued = queued] /\ queued = Append(repair.queued, Head(wire))
  BY <1>1
<1> HIDE DEF queued
<1>6. /\ repair' \in Repairs /\ repair'.queued = queued /\ repair'.through = repair.through
      /\ repair'.round = repair.round /\ repair'.state = repair.state /\ repair'.page = repair.page
  BY <1>2, <1>4, <1>5 DEF Repairs
<1> QED
  BY <1>1, <1>3, <1>4, <1>5, <1>6

LEMMA TakeQueuedKeeps == ASSUME Inv, TakeQueued PROVE Inv'
<1>1. /\ phase = "live" /\ wire # <<>> /\ repair # NoRepair /\ wire' = Tail(wire)
      /\ UNCHANGED <<host, srv, online, ready, stream, window, older, skew, faults>>
  BY DEF TakeQueued
<1>2. Mending /\ Len(repair.queued) \in Nat
  BY <1>1, RepairIs DEF Inv, Reading
<1>3. /\ Head(wire) \in Entries /\ EntryOf(log, skew.stream, Head(wire))
      /\ srv.turn <= 1 => Head(wire).seq <= FirstTurn
      /\ wire' \in Seq(Openings \cup Entries) /\ Wire'
      /\ srv.turn <= 1 => \A i \in 1 .. Len(wire') : EarlyFrame(FirstTurn, wire'[i])
  BY <1>1, WireAdvances DEF host, stream
<1> DEFINE queued == repair'.queued
<1>4. /\ repair' \in Repairs /\ repair'.through = repair.through
      /\ repair'.state = repair.state /\ repair'.page = repair.page
      /\ Len(queued) = Len(repair.queued) + 1 /\ queued[Len(repair.queued) + 1] = Head(wire)
      /\ \A i \in 1 .. Len(repair.queued) : queued[i] = repair.queued[i]
  BY QueuedIs
<1>5. \A i \in 1 .. Len(queued) : i \in 1 .. Len(repair.queued) \/ i = Len(repair.queued) + 1
  BY <1>2, <1>4
<1> HIDE DEF queued
<1>6. \A i \in 1 .. Len(queued) : EntryOf(log, skew.stream, queued[i])
  BY <1>2, <1>3, <1>4, <1>5 DEF Mending
<1>7. Shape'
  BY <1>1, <1>3, <1>4 DEF Inv, Shape, host, stream, window
<1>8. Conversation' /\ Server'
  BY <1>1, HostStays DEF host
<1>9. Window' /\ Alarm'
  BY <1>1 DEF Inv, Window, Alarm, host, stream, window
<1>10. Mending'
  <2>1. Len(queued) > 0
    BY <1>2, <1>4
  <2> QED
    BY <1>1, <1>2, <1>4, <1>6, <2>1 DEF Mending, host, stream, window, queued
<1>11. Reading'
  BY <1>1, <1>10 DEF Inv, Reading, Loading, host, window
<1>12. Early'
  <2> SUFFICES ASSUME srv.turn <= 1 PROVE EarlyRepair(FirstTurn, repair')
    BY <1>1, <1>3 DEF Early, FirstTurn, Turns, host
  <2>1. repair.through <= FirstTurn /\ \A i \in 1 .. Len(repair.queued) : repair.queued[i].seq <= FirstTurn
    BY <1>1 DEF Inv, Early, EarlyRepair
  <2>2. \A i \in 1 .. Len(queued) : queued[i].seq <= FirstTurn
    BY <1>3, <1>4, <1>5, <2>1
  <2> QED
    BY <1>4, <2>1, <2>2 DEF EarlyRepair, queued
<1> QED
  BY <1>3, <1>7, <1>8, <1>9, <1>11, <1>12 DEF Inv


-----------------------------------------------------------------------------
\* A repair.  Reach is the newest number of the page and the entries that waited, and
\* every number behind the page has an entry when they are complete.
LEMMA Reaches ==
  ASSUME NEW r \in Repairs, NEW b \in Nat, r.through \in 1 .. b,
         \A i \in 1 .. Len(r.queued) : r.queued[i].seq \in 1 .. b
  PROVE  /\ Reach(r) \in 1 .. b /\ Reach(r) >= r.through
         /\ Reach(r) # r.through => \E i \in 1 .. Len(r.queued) : Reach(r) = r.queued[i].seq
         /\ \A i \in 1 .. Len(r.queued) : r.queued[i].seq <= Reach(r)
<1> DEFINE S == {r.through} \cup {r.queued[i].seq : i \in DOMAIN r.queued}
<1>1. r.queued \in Seq(Entries) /\ DOMAIN r.queued = 1 .. Len(r.queued)
  BY LenProperties DEF Repairs
<1>2. S \subseteq 1 .. b /\ S # {}
  BY <1>1
<1>3. PICK m \in S : \A n \in S : n <= m
  <2> HIDE DEF S
  <2> QED
    BY <1>2, GreatestOf
<1>4. m >= r.through /\ \A i \in DOMAIN r.queued : r.queued[i].seq <= m
  <2>1. r.through \in S
    OBVIOUS
  <2>2. r.through <= m /\ m \in 1 .. b
    BY <1>2, <1>3, <2>1
  <2>3. \A i \in DOMAIN r.queued : r.queued[i].seq \in S
    OBVIOUS
  <2> QED
    BY <1>1, <1>3, <2>2, <2>3
<1>5. /\ Reach(r) \in S /\ Reach(r) >= r.through
      /\ \A i \in DOMAIN r.queued : r.queued[i].seq <= Reach(r)
  BY <1>3, <1>4 DEF Reach
<1> QED
  BY <1>1, <1>2, <1>5

\* The bounds of the numbers of a repair.
LEMMA ReachIs ==
  ASSUME Inv, repair # NoRepair
  PROVE  /\ Reach(repair) \in 1 .. Len(log) + Len(log) /\ Reach(repair) >= repair.through
         /\ Reach(repair) # repair.through =>
              \E i \in 1 .. Len(repair.queued) : Reach(repair) = repair.queued[i].seq
         /\ \A i \in 1 .. Len(repair.queued) : repair.queued[i].seq <= Reach(repair)
         /\ "prompt" \notin skew.stream => Reach(repair) \in 1 .. Len(log)
         /\ srv.turn <= 1 => Reach(repair) <= FirstTurn
<1>1. /\ repair \in Repairs /\ repair.through \in Nat /\ Mending /\ Len(log) \in Nat
      /\ \A i \in 1 .. Len(repair.queued) : repair.queued[i].seq \in Nat
  BY RepairIs DEF Inv, Reading, Shape
<1>2. \A i \in 1 .. Len(repair.queued) : EntryOf(log, skew.stream, repair.queued[i])
  BY <1>1 DEF Mending
<1>3. /\ repair.through \in 1 .. Len(log) + Len(log)
      /\ \A i \in 1 .. Len(repair.queued) : repair.queued[i].seq \in 1 .. Len(log) + Len(log)
  BY <1>1, <1>2 DEF Mending, EntryOf
<1>4. /\ Reach(repair) \in 1 .. Len(log) + Len(log) /\ Reach(repair) >= repair.through
      /\ Reach(repair) # repair.through =>
           \E i \in 1 .. Len(repair.queued) : Reach(repair) = repair.queued[i].seq
      /\ \A i \in 1 .. Len(repair.queued) : repair.queued[i].seq <= Reach(repair)
  <2>1. Len(log) + Len(log) \in Nat
    BY <1>1
  <2> QED
    BY <1>1, <1>3, <2>1, Reaches
<1>5. ASSUME "prompt" \notin skew.stream PROVE Reach(repair) \in 1 .. Len(log)
  <2>1. /\ repair.through \in 1 .. Len(log)
        /\ \A i \in 1 .. Len(repair.queued) : repair.queued[i].seq \in 1 .. Len(log)
    BY <1>1, <1>2, <1>5 DEF Mending, EntryOf
  <2> QED
    BY <1>1, <2>1, Reaches
<1>6. ASSUME srv.turn <= 1 PROVE Reach(repair) <= FirstTurn
  <2>1. FirstTurn \in Nat
    BY Skews
  <2>2. EarlyRepair(FirstTurn, repair)
    BY <1>6 DEF Inv, Early
  <2>3. /\ repair.through \in 1 .. FirstTurn
        /\ \A i \in 1 .. Len(repair.queued) : repair.queued[i].seq \in 1 .. FirstTurn
    BY <1>1, <1>2, <2>1, <2>2 DEF EarlyRepair, Mending, EntryOf
  <2>4. Reach(repair) \in 1 .. FirstTurn
    BY <1>1, <2>1, <2>3, Reaches
  <2> QED
    BY <2>1, <2>4
<1> QED
  BY <1>4, <1>5, <1>6

LEMMA FirstIsThere ==
  ASSUME NEW r \in Repairs, NEW seq, QueuedAt(r, seq) # {} PROVE FirstAt(r, seq) \in QueuedAt(r, seq)
<1>1. r.queued \in Seq(Entries) /\ DOMAIN r.queued = 1 .. Len(r.queued)
  BY LenProperties DEF Repairs
<1>2. QueuedAt(r, seq) \subseteq Nat
  BY <1>1 DEF QueuedAt
<1>3. \E i \in QueuedAt(r, seq) : \A j \in QueuedAt(r, seq) : i <= j
  BY <1>2, LeastOf
<1> QED
  BY <1>3 DEF FirstAt

LEMMA MergedIsWindow ==
  ASSUME log \in Seq(Nat), NEW c \in SUBSET Causes, NEW r \in Repairs, Complete(r),
         \A i \in 1 .. Len(r.queued) : EntryOf(log, c, r.queued[i]),
         PageOf(log, c, r.page), r.page.tail = r.through, r.through > 0,
         Reach(r) \in Nat, Reach(r) >= r.through
  PROVE  /\ Merged(r) \in Seq(Nat) /\ Merged(r) # <<>> /\ PageBase(r.page) \in Nat
         /\ WindowOf(log, c, PageBase(r.page), Merged(r))
         /\ Reach(r) = PageBase(r.page) + Len(Merged(r)) - 1
<1> DEFINE p == r.page
           tail == p.tail
           n == Reach(r) - tail
           rest == [k \in 1 .. n |-> r.queued[FirstAt(r, tail + k)].rec]
<1>1. /\ Len(log) \in Nat /\ p \in Pages /\ tail \in Nat /\ tail > 0 /\ tail = r.through
      /\ r.queued \in Seq(Entries) /\ DOMAIN r.queued = 1 .. Len(r.queued)
  BY LenProperties DEF Repairs, Pages
<1>2. Reach(r) >= tail /\ n \in Nat
  BY <1>1
<1>11. Reach(r) = tail + n
  <2>1. \A a, b \in Nat : a = b + (a - b)
    OBVIOUS
  <2> QED
    BY <1>1, <2>1
<1>3. ASSUME NEW k \in 1 .. n
      PROVE  /\ rest[k] \in Nat
             /\ c = {} => tail + k \in 1 .. Len(log) /\ rest[k] = log[tail + k]
  <2> DEFINE i == FirstAt(r, tail + k)
  <2>1. tail + k \in tail + 1 .. Reach(r)
    <3> HIDE DEF n, tail
    <3> QED
      BY <1>1, <1>2, <1>11
  <2>2. QueuedAt(r, tail + k) # {}
    BY <2>1 DEF Complete
  <2>3. i \in QueuedAt(r, tail + k)
    BY <2>2, FirstIsThere
  <2> HIDE DEF i
  <2>4. i \in 1 .. Len(r.queued) /\ r.queued[i].seq = tail + k
    BY <1>1, <2>3 DEF QueuedAt
  <2>7. r.queued[i] \in Entries
    BY <1>1, <2>4, ElementOfSeq
  <2>8. r.queued[i].rec \in Nat /\ r.queued[i].seq \in Nat
    BY <2>7 DEF Entries
  <2>5. c = {} => tail + k \in 1 .. Len(log) /\ r.queued[i].rec = log[tail + k]
    <3>1. EntryOf(log, c, r.queued[i])
      BY <2>4
    <3> HIDE DEF tail
    <3> QED
      BY <1>1, <2>4, <2>8, <3>1 DEF EntryOf
  <2>6. rest[k] = r.queued[i].rec
    BY DEF i
  <2> QED
    BY <2>5, <2>6, <2>8
<1>4. rest \in Seq(Nat) /\ Len(rest) = n
  <2> HIDE DEF n, tail
  <2>1. rest \in [1 .. n -> Nat]
    BY <1>3
  <2> HIDE DEF rest
  <2> QED
    BY <1>2, <2>1, SeqDef, LenProperties
<1>5. /\ p.recs \in Seq(Nat) /\ Len(p.recs) >= 1 /\ Len(p.recs) \in Nat
      /\ WindowOf(log, c, PageBase(p), p.recs)
      /\ PageBase(p) = tail - Len(p.recs) + 1 /\ PageBase(p) >= 1 /\ PageBase(p) \in Nat
  <2>1. p.recs # <<>>
    BY <1>1 DEF PageOf
  <2> QED
    BY <1>1, <2>1, PageIsWindow
<1>6. Merged(r) = p.recs \o rest
  BY DEF Merged
<1> HIDE DEF rest, n, tail, p
<1>7. /\ Merged(r) \in Seq(Nat) /\ Len(Merged(r)) = Len(p.recs) + n
      /\ \A i \in 1 .. Len(p.recs) : Merged(r)[i] = p.recs[i]
      /\ \A i \in 1 .. n : Merged(r)[Len(p.recs) + i] = rest[i]
  <2>1. /\ p.recs \o rest \in Seq(Nat) /\ Len(p.recs \o rest) = Len(p.recs) + Len(rest)
        /\ \A i \in 1 .. Len(p.recs) : (p.recs \o rest)[i] = p.recs[i]
        /\ \A i \in 1 .. Len(rest) : (p.recs \o rest)[Len(p.recs) + i] = rest[i]
    <3>1. p.recs \in Seq(Nat) /\ rest \in Seq(Nat)
      BY <1>4, <1>5
    <3> QED
      BY <3>1, Joined
  <2> QED
    BY <1>4, <1>6, <2>1
<1>8. ASSUME c = {}, NEW i \in 1 .. Len(Merged(r))
      PROVE  PageBase(p) + i - 1 \in 1 .. Len(log) /\ Merged(r)[i] = log[PageBase(p) + i - 1]
  <2>1. CASE i \in 1 .. Len(p.recs)
    BY <1>5, <1>7, <1>8, <2>1 DEF WindowOf
  <2>2. CASE i > Len(p.recs)
    <3> DEFINE k == i - Len(p.recs)
    <3>1. k \in 1 .. n /\ i = Len(p.recs) + k
      <4>1. i \in Nat /\ i <= Len(p.recs) + n /\ n \in Nat /\ Len(p.recs) \in Nat
        BY <1>2, <1>5, <1>7
      <4>2. \A a, b, d \in Nat : a > b /\ a <= b + d => a - b \in 1 .. d /\ a = b + (a - b)
        OBVIOUS
      <4> QED
        BY <2>2, <4>1, <4>2
    <3>2. PageBase(p) + i - 1 = tail + k
      <4>1. i \in Nat /\ tail \in Nat /\ Len(p.recs) \in Nat /\ PageBase(p) = tail - Len(p.recs) + 1
        BY <1>1, <1>5
      <4>2. \A a, b, d \in Nat : (b - d + 1) + a - 1 = b + (a - d)
        OBVIOUS
      <4> QED
        BY <4>1, <4>2
    <3> HIDE DEF k
    <3> QED
      BY <1>3, <1>7, <1>8, <3>1, <3>2
  <2> QED
    BY <1>5, <2>1, <2>2
<1>9. Reach(r) = PageBase(p) + Len(Merged(r)) - 1 /\ Merged(r) # <<>>
  <2>1. Reach(r) = PageBase(p) + Len(Merged(r)) - 1
    <3>1. \A a, b, d \in Nat : a + b = (a - d + 1) + (d + b) - 1
      OBVIOUS
    <3>2. Len(Merged(r)) = Len(p.recs) + n /\ PageBase(p) = tail - Len(p.recs) + 1 /\ n \in Nat
      BY <1>2, <1>5, <1>7
    <3>3. tail + n = (tail - Len(p.recs) + 1) + (Len(p.recs) + n) - 1
      BY <1>1, <1>5, <3>1, <3>2
    <3> QED
      BY <1>11, <3>2, <3>3
  <2>2. Len(Merged(r)) # 0
    BY <1>2, <1>5, <1>7
  <2> QED
    BY <2>1, <2>2
<1>10. WindowOf(log, c, PageBase(p), Merged(r))
  BY <1>5, <1>8, <1>9 DEF WindowOf
<1> QED
  BY <1>5, <1>7, <1>9, <1>10 DEF p

LEMMA TakeRepairKeeps == ASSUME Inv, TakeRepair PROVE Inv'
<1>1. repair.state = "answered" /\ UNCHANGED <<host, online, ready, faults>>
  BY DEF TakeRepair
<1>2. /\ repair # NoRepair /\ repair \in Repairs /\ Mending /\ repair.through \in Nat /\ repair.page.tail \in Nat
      /\ log \in Seq(Nat) /\ Len(log) \in Nat /\ last \in Int
      /\ skew \in [stream : SUBSET Causes, window : SUBSET Causes, older : SUBSET Causes]
  BY <1>1, Kinds, RepairIs DEF Inv, Shape, Reading, Window, None, Empty
<1>3. /\ phase = "live" /\ repair.through > 0 /\ repair.through > last
      /\ \A i \in 1 .. Len(repair.queued) : EntryOf(log, skew.stream, repair.queued[i])
      /\ PageOf(log, skew.stream, repair.page) /\ repair.page.tail <= repair.through /\ repair.page \in Pages
      /\ "prompt" \notin skew.stream => repair.page.tail = repair.through
  BY <1>1, <1>2, RepairIs DEF Mending
<1>4. PageTail(repair.page) = IF repair.page.tail = 0 THEN Empty ELSE repair.page.tail
  BY <1>2, <1>3, TailOf
<1>5. /\ Reach(repair) \in Nat /\ Reach(repair) > 0 /\ Reach(repair) >= repair.through
      /\ Reach(repair) <= Len(log) + Len(log)
      /\ "prompt" \notin skew.stream => Reach(repair) <= Len(log)
      /\ srv.turn <= 1 => Reach(repair) <= FirstTurn
  BY <1>2, ReachIs
<1>6. /\ UNCHANGED <<log, starts>> /\ ends' \in Seq(Nat \cup {Running, Orphaned}) /\ Len(ends') = Len(ends)
      /\ closed' \subseteq closed /\ online' \in BOOLEAN /\ ready' \in BOOLEAN /\ faults' \in 0 .. MaxFaults
  BY <1>1 DEF Inv, Shape, host
<1>7. CASE PageTail(repair.page) # repair.through
  <2>1. Fail("violation")
    BY <1>7 DEF TakeRepair
  <2>2. "prompt" \in skew.stream
    BY <1>2, <1>3, <1>4, <1>7
  <2> QED
    BY <1>6, <2>1, <2>2, FailKeeps
<1> SUFFICES ASSUME PageTail(repair.page) = repair.through PROVE Inv'
  BY <1>7
<1>8. repair.page.tail = repair.through
  BY <1>2, <1>3, <1>4 DEF Empty
<1>9. CASE ~Complete(repair) /\ repair.round = 2
  <2>1. Fail("gaps")
    BY <1>9 DEF TakeRepair
  <2> QED
    BY <1>6, <2>1, FailKeeps
<1>10. CASE Complete(repair)
  <2>1. /\ base' = PageBase(repair.page) /\ win' = Merged(repair) /\ last' = Reach(repair)
        /\ more' = repair.page.more /\ repair' = NoRepair /\ UNCHANGED opened
        /\ skew' = [skew EXCEPT !.window = skew.stream]
        /\ UNCHANGED <<srv, wire, stream, older>>
    BY <1>10 DEF TakeRepair
  <2>2. /\ win' \in Seq(Nat) /\ win' # <<>> /\ base' \in Nat
        /\ WindowOf(log, skew.stream, base', win') /\ last' = base' + Len(win') - 1
    <3>1. skew.stream \in SUBSET Causes
      BY <1>2
    <3> QED
      BY <1>2, <1>3, <1>5, <1>8, <1>10, <2>1, <3>1, MergedIsWindow
  <2>3. more' \in BOOLEAN
    BY <1>3, <2>1 DEF Pages
  <2>4. /\ skew' \in [stream : SUBSET Causes, window : SUBSET Causes, older : SUBSET Causes]
        /\ skew'.stream = skew.stream /\ skew'.window = skew.stream /\ skew'.older = skew.older
    BY <1>2, <2>1
  <2>5. Shape'
    BY <1>1, <2>1, <2>2, <2>3, <2>4 DEF Inv, Shape, host, stream
  <2>6. Conversation' /\ Server'
    BY <1>1, <2>1, <2>4, HostStays DEF host
  <2>7. Wire'
    BY <1>1, <1>3, <2>1, <2>4 DEF Inv, Wire, host, stream
  <2>8. Window' /\ Alarm'
    <3>1. last' \in Nat \ {0} /\ ("prompt" \notin skew.stream => last' <= Len(log))
      BY <1>5, <2>1
    <3>2. phase' = "live" /\ why' = "none" /\ log' = log /\ opened' /\ phase' # "error"
      BY <1>1, <1>3, <2>1 DEF Inv, Window, Alarm, host, stream
    <3> QED
      BY <2>2, <2>4, <3>1, <3>2 DEF Window, Alarm
  <2>9. Reading'
    BY <1>1, <2>1, <2>2, <2>4 DEF Inv, Reading, Loading, host
  <2>10. Early'
    <3>1. FirstTurn' = FirstTurn
      BY <1>1 DEF FirstTurn, Turns, host
    <3> QED
      BY <2>1, <3>1 DEF Inv, Early, EarlyRepair
  <2> QED
    BY <2>5, <2>6, <2>7, <2>8, <2>9, <2>10 DEF Inv
<1>11. CASE ~Complete(repair) /\ repair.round # 2
  <2>1. /\ repair' = [repair EXCEPT !.state = "asked", !.round = 2, !.through = Reach(repair)]
        /\ UNCHANGED <<window, skew>> /\ UNCHANGED <<srv, wire, stream, older>>
    BY <1>11 DEF TakeRepair
  <2>3. repair' \in Repairs
    BY <1>2, <1>5, <2>1 DEF Repairs
  <2>4. repair'.through = Reach(repair) /\ repair'.queued = repair.queued /\ repair'.state = "asked"
    BY <1>2, <2>1 DEF Repairs
  <2>5. Shape'
    BY <1>1, <2>1, <2>3 DEF Inv, Shape, host, stream, window
  <2>6. Conversation' /\ Server'
    BY <1>1, <2>1, HostStays DEF host
  <2>7. Wire' /\ Window' /\ Alarm'
    BY <1>1, <2>1 DEF Inv, Wire, Window, Alarm, host, stream, window
  <2>8. Mending'
    <3>1. Reach(repair) > last
      BY <1>2, <1>3, <1>5
    <3> QED
      BY <1>1, <1>2, <1>3, <1>5, <2>1, <2>4, <3>1 DEF Mending, host, stream, window
  <2>9. Reading'
    BY <1>1, <2>1, <2>8 DEF Inv, Reading, Loading, host, window
  <2>10. Early'
    <3>1. FirstTurn' = FirstTurn
      BY <1>1 DEF FirstTurn, Turns, host
    <3>2. srv.turn <= 1 => \A i \in 1 .. Len(repair.queued) : repair.queued[i].seq <= FirstTurn
      BY <1>2 DEF Inv, Early, EarlyRepair
    <3> QED
      BY <1>5, <2>1, <2>4, <3>1, <3>2 DEF Inv, Early, EarlyRepair
  <2> QED
    BY <2>5, <2>6, <2>7, <2>9, <2>10 DEF Inv
<1> QED
  BY <1>9, <1>10, <1>11

LEMMA TakeOlderKeeps == ASSUME Inv, TakeOlder PROVE Inv'
<1>1. /\ older.state = "answered" /\ older' = NoPage
      /\ UNCHANGED <<host, network, stream, opened, last, repair, faults>>
  BY DEF TakeOlder
<1>2. /\ older # NoPage /\ older \in Reads /\ Loading
      /\ log \in Seq(Nat) /\ Len(log) \in Nat /\ win \in Seq(Nat) /\ Len(win) \in Nat /\ base \in Nat
      /\ skew \in [stream : SUBSET Causes, window : SUBSET Causes, older : SUBSET Causes]
  BY <1>1, Kinds DEF Inv, Shape, Reading
<1> DEFINE p == older.page
           n == Earlier(p)
<1>3. p \in Pages /\ PageOf(log, skew.older, p) /\ opened /\ win # <<>>
  BY <1>1, <1>2 DEF Loading, Reads
<1>4. WindowOf(log, skew.window, base, win) /\ last = base + Len(win) - 1
  BY <1>3 DEF Inv, Window
<1>5. /\ PageBase(p) \in Nat /\ p.recs \in Seq(Nat) /\ Len(p.recs) \in Nat
      /\ WindowOf(log, skew.older, PageBase(p), p.recs)
      /\ p.recs # <<>> => PageBase(p) >= 1
  BY <1>2, <1>3, PageIsWindow
<1>6. n \in Nat /\ n <= Len(p.recs)
  BY <1>2, <1>5 DEF Earlier, Least, Most
<1>7. p.more \in BOOLEAN
  BY <1>3 DEF Pages
<1>8. CASE n > 0 /\ PageBase(p) + n # base
  <2>1. more' = FALSE /\ UNCHANGED <<base, win, skew>>
    BY <1>3, <1>8 DEF TakeOlder
  <2>2. Shape'
    BY <1>1, <2>1 DEF Inv, Shape, host, network, stream
  <2>3. Window' /\ Alarm' /\ Reading'
    BY <1>1, <2>1 DEF Inv, Window, Alarm, Reading, Mending, host, stream
  <2>4. Conversation' /\ Server' /\ Wire' /\ Early'
    BY <1>1, <2>1 DEF Inv, Conversation, Server, Wire, Early, FirstTurn, Turns, Size, TurnEnd, host, network, stream
  <2> QED
    BY <2>2, <2>3, <2>4 DEF Inv
<1>9. CASE ~(n > 0 /\ PageBase(p) + n # base)
  <2>1. /\ base' = (IF n = 0 THEN base ELSE PageBase(p))
        /\ win' = SubSeq(p.recs, 1, n) \o win /\ more' = p.more
        /\ skew' = [skew EXCEPT !.window = skew.window \cup skew.older]
    BY <1>9 DEF TakeOlder
  <2> HIDE DEF p, n
  <2>10. /\ skew' \in [stream : SUBSET Causes, window : SUBSET Causes, older : SUBSET Causes]
         /\ skew'.stream = skew.stream /\ skew'.window = skew.window \cup skew.older /\ skew'.older = skew.older
    BY <1>2, <2>1
  <2>2. /\ SubSeq(p.recs, 1, n) \in Seq(Nat) /\ Len(SubSeq(p.recs, 1, n)) = n
        /\ \A i \in 1 .. n : SubSeq(p.recs, 1, n)[i] = p.recs[i]
    <3>1. /\ SubSeq(p.recs, 1, n) \in Seq(Nat)
          /\ Len(SubSeq(p.recs, 1, n)) = (IF 1 <= n THEN n - 1 + 1 ELSE 0)
          /\ \A i \in 1 .. n - 1 + 1 : SubSeq(p.recs, 1, n)[i] = p.recs[1 + i - 1]
      <4>1. p.recs \in Seq(Nat) /\ n \in Int /\ n <= Len(p.recs) /\ 1 \in Int /\ 1 >= 1
        BY <1>5, <1>6
      <4> HIDE <1>5
      <4> QED
        BY <4>1, Parts
    <3>2. n - 1 + 1 = n /\ \A i \in 1 .. n : 1 + i - 1 = i
      BY <1>6
    <3> QED
      BY <1>6, <3>1, <3>2
  <2>3. /\ win' \in Seq(Nat) /\ Len(win') = n + Len(win)
        /\ \A i \in 1 .. n : win'[i] = p.recs[i]
        /\ \A i \in 1 .. Len(win) : win'[n + i] = win[i]
    BY <1>2, <2>1, <2>2, Joined
  <2>4. win' # <<>> /\ base' \in Nat
    <3>1. Len(win') # 0
      BY <1>2, <1>3, <1>6, <2>3
    <3> QED
      BY <1>2, <1>5, <2>1, <3>1
  <2>5. base' + n = base
    BY <1>2, <1>5, <1>6, <1>9, <2>1
  <2>11. base' # 0
    <3>1. CASE n = 0
      BY <1>3, <1>4, <2>1, <3>1 DEF WindowOf
    <3>2. CASE n # 0
      <4>1. p.recs # <<>>
        BY <1>5, <1>6, <3>2
      <4> QED
        BY <1>5, <2>1, <3>2, <4>1
    <3> QED
      BY <3>1, <3>2
  <2>6. ASSUME skew'.window = {}, NEW i \in 1 .. Len(win')
        PROVE  base' + i - 1 \in 1 .. Len(log) /\ win'[i] = log[base' + i - 1]
    <3>3. skew.window = {} /\ skew.older = {}
      BY <2>6, <2>10
    <3>1. CASE i <= n
      <4>1. base' = PageBase(p) /\ i \in 1 .. n /\ i \in 1 .. Len(p.recs)
        BY <1>5, <1>6, <2>1, <3>1
      <4> QED
        BY <1>5, <2>3, <3>3, <4>1 DEF WindowOf
    <3>2. CASE i > n
      <4> DEFINE k == i - n
      <4>1. k \in 1 .. Len(win) /\ i = n + k
        BY <1>2, <1>6, <2>3, <3>2
      <4>2. base' + i - 1 = base + k - 1
        <5>1. \A a, b, c \in Nat : a + (b + c) - 1 = (a + b) + c - 1
          OBVIOUS
        <5>2. k \in Nat
          BY <4>1
        <5> HIDE DEF k
        <5> QED
          BY <1>6, <2>4, <2>5, <4>1, <5>1, <5>2
      <4> HIDE DEF k
      <4> QED
        BY <1>4, <2>3, <3>3, <4>1, <4>2 DEF WindowOf
    <3> QED
      BY <1>6, <3>1, <3>2
  <2>7. WindowOf(log, skew'.window, base', win') /\ last = base' + Len(win') - 1
    <3>1. WindowOf(log, skew'.window, base', win')
      BY <2>4, <2>6, <2>11 DEF WindowOf
    <3>2. last = base' + Len(win') - 1
      <4>1. \A a, b, c \in Nat : a + (b + c) - 1 = (a + b) + c - 1
        OBVIOUS
      <4>2. base' + (n + Len(win)) - 1 = base + Len(win) - 1
        <5>1. base' \in Nat /\ n \in Nat /\ Len(win) \in Nat
          BY <1>2, <1>6, <2>4
        <5>2. base' + (n + Len(win)) - 1 = (base' + n) + Len(win) - 1
          BY <4>1, <5>1
        <5> QED
          BY <2>5, <5>2
      <4> QED
        BY <1>4, <2>3, <4>2
    <3> QED
      BY <3>1, <3>2
  <2>8. Shape'
    BY <1>1, <1>7, <2>1, <2>3, <2>4, <2>10 DEF Inv, Shape, host, network, stream
  <2>9. Window' /\ Alarm' /\ Reading'
    <3>1. /\ "prompt" \notin skew'.window => "prompt" \notin skew.window
          /\ "prompt" \in skew.window => "prompt" \in skew'.window
      BY <2>10
    <3>2. Window'
      BY <1>1, <1>3, <2>4, <2>7, <3>1 DEF Inv, Window, host, stream
    <3>3. Alarm'
      BY <1>1, <2>10, <3>1 DEF Inv, Alarm, stream
    <3>4. Reading'
      BY <1>1, <2>10 DEF Inv, Reading, Mending, host, stream
    <3> QED
      BY <3>2, <3>3, <3>4
  <2>12. Conversation' /\ Server' /\ Early'
    BY <1>1, <2>10 DEF Inv, Conversation, Server, Early, FirstTurn, Turns, Size, TurnEnd, host, network, stream
  <2>13. Wire'
    <3>1. "prompt" \notin skew'.window => "prompt" \notin skew.window
      BY <2>10
    <3> QED
      BY <1>1, <2>10, <3>1 DEF Inv, Wire, host, network, stream
  <2> QED
    BY <2>8, <2>9, <2>12, <2>13 DEF Inv
<1> QED
  BY <1>8, <1>9

-----------------------------------------------------------------------------
\* Every step keeps the invariant.
LEMMA NextKeeps == ASSUME Inv, Next PROVE Inv'
<1>1. CASE Prompt
  BY <1>1, PromptKeeps
<1>2. CASE Record \/ Finish \/ Rename
  BY <1>2, RecordKeeps, FinishKeeps, RenameKeeps
<1>3. CASE ServeFollow \/ SendRecord
  BY <1>3, ServeFollowKeeps, SendRecordKeeps
<1>4. CASE EndTurn \/ CutTurn \/ Locate \/ FollowNext
  BY <1>4, BetweenTurns
<1>5. CASE ServeRepair \/ ServeOlder
  BY <1>5, ServeRepairKeeps, ServeOlderKeeps
<1>6. CASE Open \/ TakeOpened \/ TakeEntry \/ TakeQueued
  BY <1>6, OpenKeeps, TakeOpenedKeeps, TakeEntryKeeps, TakeQueuedKeeps
<1>7. CASE TakeRepair \/ RepairFails
  BY <1>7, TakeRepairKeeps, RepairFailsKeeps
<1>8. CASE LoadOlder \/ TakeOlder \/ OlderFails
  BY <1>8, LoadOlderKeeps, TakeOlderKeeps, OlderFailsKeeps
<1>9. CASE \E restart \in BOOLEAN : Lose(restart)
  BY <1>9, LoseKeeps
<1>10. CASE ConnectFails \/ Reconnect \/ Ready \/ Rebaseline
  BY <1>10, ConnectFailsKeeps, CarrierKeeps, RebaselineKeeps
<1> QED
  BY <1>1, <1>2, <1>3, <1>4, <1>5, <1>6, <1>7, <1>8, <1>9, <1>10 DEF Next

LEMMA StutterKeeps == ASSUME Inv, UNCHANGED vars PROVE Inv'
<1> USE DEF vars, host, network, stream, window, pages
<1>1. Shape' /\ Conversation' /\ Server'
  BY DEF Inv, Shape, Conversation, Server, Turns, Size, TurnEnd
<1>2. Wire' /\ Early'
  BY DEF Inv, Wire, Early, FirstTurn, Turns
<1>3. Window' /\ Alarm' /\ Reading'
  BY DEF Inv, Window, Alarm, Reading, Mending, Loading
<1> QED
  BY <1>1, <1>2, <1>3 DEF Inv

\* What the host serves and what the browser makes of it is part of the log at every step,
\* and numbered as the log is unless `skew` says why not (dshwire/session.go,
\* dshstream/follow.go and gateway/client.js).
THEOREM Invariance == Spec => []Inv
<1>1. Init => Inv
  BY Initially
<1>2. Inv /\ [Next]_vars => Inv'
  BY NextKeeps, StutterKeeps
<1> QED
  BY <1>1, <1>2, PTL DEF Spec

-----------------------------------------------------------------------------
\* What follows from it.
LEMMA InvImpliesType == ASSUME Inv PROVE TypeOK
<1> USE DEF Inv
<1>1. /\ log \in Seq(Nat) /\ starts \in Seq(Nat) /\ Len(ends) = Len(starts)
      /\ \A t \in DOMAIN ends : ends[t] \in Nat \cup {Running, Orphaned}
  <2>1. ends \in Seq(Nat \cup {Running, Orphaned}) /\ DOMAIN ends = 1 .. Len(ends)
    BY LenProperties DEF Shape
  <2> QED
    BY <2>1, ElementOfSeq DEF Shape
<1>2. srv.phase \in {"off", "pump", "await", "locate"}
  BY Kinds DEF Shape, Places
<1>3. last \in Nat \cup {Empty, None}
  BY <1>1 DEF Window
<1>4. repair.state \in {"none", "asked", "answered"} /\ older.state \in {"none", "asked", "answered"}
  BY Kinds DEF Shape, Repairs, Reads
<1>5. repair # NoRepair => phase = "live" /\ repair.round \in {1, 2} /\ Len(repair.queued) > 0
  BY DEF Shape, Reading, Mending, Repairs
<1>6. {online, ready, opened, more} \subseteq BOOLEAN
  BY DEF Shape
<1>7. \A holder \in {"stream", "window", "older"} : skew[holder] \subseteq {"title", "prompt"}
  BY DEF Shape, Causes
<1>8. /\ closed \subseteq DOMAIN starts /\ base \in Nat /\ win \in Seq(Nat) /\ faults \in 0 .. MaxFaults
      /\ phase \in {"cold", "opening", "live", "waiting", "error"} /\ attempt \in 0 .. 2
      /\ why \in {"none", "carrier", "page", "violation", "gaps"}
  BY DEF Shape
<1> QED
  BY <1>1, <1>2, <1>3, <1>4, <1>5, <1>6, <1>7, <1>8 DEF TypeOK

LEMMA InvImpliesWindow == ASSUME Inv PROVE WindowIsLog
<1>1. DOMAIN win = 1 .. Len(win) /\ DOMAIN log = 1 .. Len(log)
  BY LenProperties DEF Inv, Shape
<1> QED
  BY <1>1 DEF Inv, Window, WindowOf, WindowIsLog

\* Every variable holds what the code may store in it.
THEOREM TypeCorrect == Spec => []TypeOK
<1>1. Inv => TypeOK
  BY InvImpliesType
<1> QED
  BY <1>1, Invariance, PTL

\* The console's window ends at the applied cursor and is a run of the session's log, unless
\* a title went in front of what it had numbered or a turn was followed at the offset of
\* another, for any number of turns, gaps, repairs, older pages, cut turns, reconnections
\* and restarts (gateway/client.js acceptEntry, replaceThrough and prepend).
THEOREM WindowIsSound == Spec => []WindowIsLog
<1>1. Inv => WindowIsLog
  BY InvImpliesWindow
<1> QED
  BY <1>1, Invariance, PTL

\* Every page reaches the cursor it was asked for and no opening frame is behind what was
\* applied, unless a prompt fell between the two reads of a follower: without one,
\* assertPageThrough and opening never refuse the host's stream.
THEOREM PagesAlwaysReach == Spec => []PagesReach
<1>1. Inv => PagesReach
  BY DEF Inv, Alarm, PagesReach
<1> QED
  BY <1>1, Invariance, PTL

-----------------------------------------------------------------------------
\* Refinement.  What is shown, and what ends it.
LEMMA WindowIsPart ==
  ASSUME NEW l \in Seq(Nat), NEW b \in Nat, NEW w \in Seq(Nat), WindowOf(l, {}, b, w)
  PROVE  /\ b \in 0 .. Len(l) /\ b + Len(w) - 1 \in -1 .. Len(l)
         /\ IF b = 0 THEN b + Len(w) - 1 = -1 ELSE b <= b + Len(w) - 1
         /\ w = SubSeq(l, b, b + Len(w) - 1)
<1>1. Len(l) \in Nat /\ Len(w) \in Nat
  OBVIOUS
<1>2. CASE w = <<>>
  <2>1. b = 0 /\ Len(w) = 0 /\ b + Len(w) - 1 = -1
    BY <1>2 DEF WindowOf
  <2>2. SubSeq(l, 0, -1) = <<>>
    BY SubSeqEmpty
  <2> QED
    BY <1>1, <1>2, <2>1, <2>2
<1>3. CASE w # <<>>
  <2>1. Len(w) > 0
    BY <1>1, <1>3, EmptySeq
  <2>2. b + 1 - 1 \in 1 .. Len(l) /\ b + Len(w) - 1 \in 1 .. Len(l)
    BY <1>1, <2>1 DEF WindowOf
  <2>3. b >= 1 /\ b <= Len(l) /\ b <= b + Len(w) - 1 /\ b + Len(w) - 1 - b + 1 = Len(w)
    BY <1>1, <2>1, <2>2
  <2> DEFINE e == b + Len(w) - 1
  <2>4. e \in Int /\ e <= Len(l) /\ b <= e /\ e - b + 1 = Len(w)
    BY <1>1, <2>2, <2>3
  <2>5. e >= 0 /\ e \in -1 .. Len(l)
    BY <1>1, <2>2
  <2> HIDE DEF e
  <2>6. /\ SubSeq(l, b, e) \in Seq(Nat) /\ Len(SubSeq(l, b, e)) = Len(w)
        /\ \A i \in 1 .. Len(w) : SubSeq(l, b, e)[i] = l[b + i - 1]
    BY <2>3, <2>4, Parts
  <2>7. w = SubSeq(l, b, e)
    BY <2>6, SeqEqual DEF WindowOf
  <2> QED
    BY <1>1, <2>3, <2>4, <2>5, <2>7 DEF e
<1> QED
  BY <1>2, <1>3

\* Only a new record or a title changes the log, and while the console shows a window the
\* applied cursor does not go back.
LEMMA CursorAdvances ==
  ASSUME Inv, Next, ~Record, ~Rename
  PROVE  log' = log /\ (opened /\ opened' => last' >= last)
<1> USE DEF host, network, stream, window, pages
<1>0. last \in Int
  BY DEF Inv, Shape, Window, None, Empty
<1>1. CASE Prompt \/ Finish
  BY <1>0, <1>1 DEF Prompt, Finish
<1>2. CASE ServeFollow \/ SendRecord \/ EndTurn \/ CutTurn \/ Locate \/ FollowNext \/ ServeRepair \/ ServeOlder
  <2>1. ServeFollow \/ SendRecord => UNCHANGED <<log, last>>
    BY DEF ServeFollow, SendRecord
  <2>2. EndTurn \/ CutTurn \/ Locate \/ FollowNext => UNCHANGED <<log, last>>
    BY DEF EndTurn, CutTurn, Locate, FollowNext
  <2>3. ServeRepair \/ ServeOlder => UNCHANGED <<log, last>>
    BY DEF ServeRepair, ServeOlder
  <2> QED
    BY <1>0, <1>2, <2>1, <2>2, <2>3
<1>3. CASE Open
  BY <1>3 DEF Open, Inv, Window
<1>4. CASE TakeOpened
  <2>1. wire # <<>> /\ wire \in Seq(Openings \cup Entries) /\ phase = "opening" /\ log' = log
    BY <1>4 DEF TakeOpened, Inv, Shape
  <2>2. Head(wire).cursor \in Int
    <3>1. Head(wire) = wire[1] /\ wire[1] \in Openings
      BY <2>1, Rest DEF Inv, Wire
    <3> QED
      BY <3>1 DEF Openings, Empty
  <2>3. opened' => last' = Head(wire).cursor /\ ~(Head(wire).cursor < last)
    BY <1>4 DEF TakeOpened, Fail
  <2> QED
    BY <1>0, <2>1, <2>2, <2>3
<1>5. CASE TakeEntry
  <2>1. last' = last \/ last' = last + 1
    BY <1>5 DEF TakeEntry
  <2> QED
    BY <1>0, <1>5, <2>1 DEF TakeEntry
<1>6. CASE TakeQueued \/ RepairFails \/ LoadOlder \/ TakeOlder \/ OlderFails
  BY <1>0, <1>6 DEF TakeQueued, RepairFails, LoadOlder, TakeOlder, OlderFails, Fail
<1>7. CASE TakeRepair
  <2>1. repair # NoRepair /\ Mending /\ Len(log) \in Nat /\ repair.through \in Nat
    BY <1>7, Kinds, RepairIs DEF TakeRepair, Inv, Shape, Reading
  <2>2. Reach(repair) \in 1 .. Len(log) + Len(log) /\ Reach(repair) >= repair.through
    BY <2>1, ReachIs
  <2>3. Reach(repair) >= last
    BY <1>0, <2>1, <2>2 DEF Mending
  <2>4. opened' => last' = Reach(repair) \/ last' = last
    BY <1>7 DEF TakeRepair, Fail
  <2> QED
    BY <1>0, <1>7, <2>3, <2>4 DEF TakeRepair
<1>8. CASE (\E restart \in BOOLEAN : Lose(restart)) \/ ConnectFails \/ Reconnect \/ Ready \/ Rebaseline
  BY <1>0, <1>8 DEF Lose, ConnectFails, Reconnect, Ready, Rebaseline, Retry, Fail
<1> QED
  BY <1>1, <1>2, <1>3, <1>4, <1>5, <1>6, <1>7, <1>8 DEF Next

\* What the view is.
shown == IF opened /\ skew.window = {} THEN [open |-> TRUE, first |-> base, recs |-> win]
         ELSE [open |-> FALSE, first |-> 0, recs |-> <<>>]

LEMMA ShownEnds ==
  ASSUME Inv
  PROVE  /\ opened /\ skew.window = {} => View!End(shown) = last /\ last <= Len(log)
         /\ ~(opened /\ skew.window = {}) => shown = View!Closed /\ View!End(shown) = -1
<1>1. ASSUME opened, skew.window = {} PROVE View!End(shown) = last /\ last <= Len(log)
  <2>1. shown.first = base /\ shown.recs = win
    BY <1>1 DEF shown
  <2>2. "prompt" \notin skew.window
    BY <1>1
  <2> QED
    BY <1>1, <2>1, <2>2 DEF Inv, Window, View!End
<1>2. ASSUME ~(opened /\ skew.window = {}) PROVE shown = View!Closed /\ View!End(shown) = -1
  <2>1. shown.first = 0 /\ shown.recs = <<>> /\ shown = View!Closed
    BY <1>2 DEF shown, View!Closed
  <2>2. Len(<<>>) = 0
    OBVIOUS
  <2> QED
    BY <2>1, <2>2 DEF View!End
<1> QED
  BY <1>1, <1>2

\* A record or a title is written, which closes the view if it goes in front of what is shown.
LEMMA WriteMaps ==
  ASSUME Inv, Inv', Record \/ Rename
  PROVE  View!Write
<1>1. /\ log \in Seq(Nat) /\ Len(log) \in Nat /\ MaxRecords \in Nat /\ MaxTurns \in Nat
      /\ starts \in Seq(Nat) /\ Len(starts) \in Nat /\ Turns \in Nat /\ Turns > 0 /\ Turns <= MaxTurns
      /\ Turns = Len(starts)
  <2>1. Turns > 0
    BY DEF Record, Rename
  <2> QED
    BY <2>1, Bounds DEF Inv, Shape, Conversation, Turns
<1>2. NewRecord \in 1 .. MaxRecords + MaxTurns
  <2>1. starts[Turns] \in Nat
    <3>1. Turns \in 1 .. Len(starts)
      BY <1>1
    <3> QED
      BY <1>1, <3>1, ElementOfSeq
  <2>2. Len(log) < MaxRecords \/ starts[Turns] = Len(log)
    <3>1. CASE Record
      <4>1. Len(log) < MaxRecords \/ Len(log) - starts[Turns] = 0
        BY <3>1 DEF Record, Size, TurnEnd
      <4> QED
        BY <1>1, <2>1, <4>1
    <3> QED
      BY <3>1 DEF Rename
  <2>3. Len(log) < MaxRecords + Turns
    BY <1>1, <2>2 DEF Inv, Conversation
  <2> QED
    BY <1>1, <2>3 DEF NewRecord
<1> DEFINE Puts(place) == /\ log' = SubSeq(log, 1, place) \o <<NewRecord>> \o SubSeq(log, place + 1, Len(log))
                          /\ shown' = IF View!End(shown) <= place THEN shown ELSE View!Closed
<1>3. CASE Record
  <2>1. log' = Append(log, NewRecord) /\ UNCHANGED <<window, skew>> /\ NewRecord \in Nat
    BY <1>1, <1>3 DEF Record, NewRecord
  <2>2. Len(log') = Len(log) + 1
    BY <1>1, <2>1
  <2>3. SubSeq(log, 1, Len(log)) = log /\ SubSeq(log, Len(log) + 1, Len(log)) = <<>>
    BY <1>1, SubSeqFull, SubSeqEmpty
  <2>4. log \o <<NewRecord>> \o <<>> = Append(log, NewRecord)
    <3>1. log \o <<NewRecord>> = Append(log, NewRecord) /\ Append(log, NewRecord) \in Seq(Nat)
      BY <1>1, <2>1, AppendIsConcat
    <3> QED
      BY <3>1, ConcatEmptySeq
  <2>5. shown' = shown
    BY <2>1 DEF shown, window
  <2>6. View!End(shown) <= Len(log)
    BY <1>1, ShownEnds
  <2>7. Puts(Len(log)) /\ Len(log) \in 0 .. Len(log)
    BY <1>1, <2>1, <2>3, <2>4, <2>5, <2>6
  <2> QED
    BY <1>2, <2>2, <2>7 DEF View!Write, shown
<1>4. CASE Rename
  <2>1. Len(log') = Len(log) + 1 /\ TurnEnd(1) \in 0 .. Len(log)
    BY <1>4, RenameIs
  <2>2. log' = SubSeq(log, 1, TurnEnd(1)) \o <<NewRecord>> \o SubSeq(log, TurnEnd(1) + 1, Len(log))
    BY <1>4 DEF Rename
  <2>3. /\ UNCHANGED <<opened, base, win, last>>
        /\ skew'.window = IF last > TurnEnd(1) THEN skew.window \cup {"title"} ELSE skew.window
    BY <1>4 DEF Rename, window
  <2>4. shown' = IF View!End(shown) <= TurnEnd(1) THEN shown ELSE View!Closed
    <3>1. CASE opened /\ skew.window = {}
      <4>1. View!End(shown) = last /\ last \in Int /\ TurnEnd(1) \in Int
        BY <2>1, <3>1, ShownEnds DEF Inv, Window, None, Empty
      <4>2. CASE last > TurnEnd(1)
        <5>1. skew'.window # {} /\ ~(View!End(shown) <= TurnEnd(1))
          BY <2>3, <4>1, <4>2
        <5> QED
          BY <5>1 DEF shown, View!Closed
      <4>3. CASE ~(last > TurnEnd(1))
        <5>1. skew'.window = skew.window /\ View!End(shown) <= TurnEnd(1)
          BY <2>3, <4>1, <4>3
        <5> QED
          BY <2>3, <5>1 DEF shown
      <4> QED
        BY <4>2, <4>3
    <3>2. CASE ~(opened /\ skew.window = {})
      <4>1. shown = View!Closed /\ View!End(shown) <= TurnEnd(1)
        BY <2>1, <3>2, ShownEnds
      <4>2. ~(opened' /\ skew'.window = {})
        BY <2>3, <3>2
      <4>3. shown' = View!Closed
        BY <4>2 DEF shown, View!Closed
      <4> QED
        BY <4>1, <4>3
    <3> QED
      BY <3>1, <3>2
  <2>5. Puts(TurnEnd(1))
    BY <2>2, <2>4
  <2> QED
    BY <1>2, <2>1, <2>5 DEF View!Write, shown
<1> QED
  BY <1>3, <1>4

LEMMA ShowMaps ==
  ASSUME Inv, Inv', log' = log, opened', skew'.window = {}, opened /\ skew.window = {} => last' >= last
  PROVE  View!Show
<1>1. /\ log \in Seq(Nat) /\ base' \in Nat /\ win' \in Seq(Nat) /\ WindowOf(log, {}, base', win')
      /\ last' = base' + Len(win') - 1
  BY DEF Inv, Shape, Window
<1>2. /\ base' \in 0 .. Len(log) /\ base' + Len(win') - 1 \in -1 .. Len(log)
      /\ IF base' = 0 THEN base' + Len(win') - 1 = -1 ELSE base' <= base' + Len(win') - 1
      /\ win' = SubSeq(log, base', base' + Len(win') - 1)
  BY <1>1, WindowIsPart
<1>3. opened /\ skew.window = {} => last = base + Len(win) - 1
  BY DEF Inv, Window
<1>4. opened /\ skew.window = {} => base' + Len(win') - 1 >= base + Len(win) - 1
  BY <1>1, <1>3
<1> DEFINE end == base' + Len(win') - 1
<1>5. shown' = [open |-> TRUE, first |-> base', recs |-> win'] /\ shown'.first = base' /\ shown'.recs = win'
  BY DEF shown
<1>6. View!End(shown') = end
  BY <1>5 DEF View!End
<1>7. shown.open => View!End(shown') >= View!End(shown)
  <2>1. ASSUME shown.open PROVE opened /\ skew.window = {} /\ shown.first = base /\ shown.recs = win
    BY <2>1 DEF shown
  <2> QED
    BY <1>4, <1>6, <2>1 DEF View!End
<1>8. LET first == shown'.first
          e == View!End(shown')
      IN  /\ first \in 0 .. Len(log) /\ e \in -1 .. Len(log)
          /\ IF first = 0 THEN e = -1 ELSE first <= e
          /\ shown' = [open |-> TRUE, first |-> first, recs |-> SubSeq(log, first, e)]
  BY <1>2, <1>5, <1>6
<1> QED
  BY <1>7, <1>8 DEF View!Show, shown

\* The stream, its pages and its reconnections together implement a view of a conversation
\* to which records are added: what the console shows while it is open and its numbers are
\* not askew is a run of the log that never ends earlier than what it showed before
\* (gateway/client.js RemoteJournalStream over dshstream/follow.go), for any number of
\* turns, records, titles and faults.
THEOREM Implements == Spec => ShowsTheConversation
<1>1. Init => View!Init
  BY DEF Init, View!Init, View!Closed
<1>2. ASSUME Inv, Inv', [Next]_vars PROVE [View!Next]_(View!vars)
  <2>1. CASE UNCHANGED vars
    BY <2>1 DEF vars, host, window, View!vars
  <2>2. CASE Next /\ (Record \/ Rename)
    BY <1>2, <2>2, WriteMaps DEF View!Next
  <2>3. CASE Next /\ ~Record /\ ~Rename /\ opened' /\ skew'.window = {}
    BY <1>2, <2>3, CursorAdvances, ShowMaps DEF View!Next
  <2>4. CASE Next /\ ~Record /\ ~Rename /\ ~(opened' /\ skew'.window = {})
    BY <1>2, <2>4, CursorAdvances DEF View!Next, View!Close, View!Closed
  <2> QED
    BY <1>2, <2>1, <2>2, <2>3, <2>4
<1> QED
  BY <1>1, <1>2, Invariance, PTL DEF Spec, ShowsTheConversation, View!Spec

-----------------------------------------------------------------------------
(***************************************************************************)
(* A second read is enough for a repair.  The entries of one turn, those   *)
(* that wait for a page and those on the wire, are numbered without a gap, *)
(* at whatever offset, and turns follow each other upwards.  A first read  *)
(* that is not enough has met an entry of a later turn, and a second reads *)
(* up to the newest of what waits: what is still missing behind it belongs *)
(* to a third turn.                                                        *)
(***************************************************************************)
Frames == Openings \cup Entries

\* What is in flight: the entries that wait for the page, and then those on the wire.
Flight(r, w) == (IF r = NoRepair THEN <<>> ELSE r.queued) \o w
Chain(f) ==
  \A i, j \in 1 .. Len(f) : i < j /\ f[i] \in Entries /\ f[j] \in Entries =>
     /\ f[i].turn <= f[j].turn
     /\ f[i].turn = f[j].turn => f[j].seq = f[i].seq + (j - i)

\* The goroutine s goes on where they end.
Sending(s, f) ==
  \A i \in 1 .. Len(f) : f[i] \in Entries =>
     /\ f[i].turn > 0 /\ f[i].turn <= s.turn
     /\ s.phase = "locate" => f[i].turn < s.turn
     /\ s.phase = "pump" /\ f[i].turn = s.turn => s.offset + s.sent = f[i].seq + (Len(f) - i)

\* What a repair has read up to.
Asked(r) ==
  /\ r.round = 1 => r.through = r.queued[1].seq
  /\ r.round = 2 => \E i \in 1 .. Len(r.queued) :
                      r.queued[i].turn >= 2 /\ \A j \in 1 .. i : r.queued[j].seq <= r.through

GapInv ==
  /\ Chain(Flight(repair, wire)) /\ Sending(srv, Flight(repair, wire))
  /\ repair # NoRepair => Asked(repair)
  /\ why = "gaps" => Turns > 2

LEMMA Numbered == \A e \in Entries : e.turn \in Nat /\ e.seq \in Nat
BY DEF Entries

LEMMA Flights ==
  ASSUME NEW r \in {NoRepair} \cup Repairs, NEW w \in Seq(Frames)
  PROVE  /\ Flight(r, w) \in Seq(Frames)
         /\ r = NoRepair => Flight(r, w) = w
         /\ r # NoRepair =>
              /\ Len(Flight(r, w)) = Len(r.queued) + Len(w) /\ r.queued \in Seq(Entries)
              /\ \A i \in 1 .. Len(r.queued) : Flight(r, w)[i] = r.queued[i]
              /\ \A i \in 1 .. Len(w) : Flight(r, w)[Len(r.queued) + i] = w[i]
<1>1. CASE r = NoRepair
  <2>1. <<>> \o w = w
    BY ConcatEmptySeq
  <2> QED
    BY <1>1, <2>1 DEF Flight
<1>2. CASE r # NoRepair
  <2>1. r.queued \in Seq(Entries)
    BY <1>2 DEF Repairs
  <2>2. r.queued \in Seq(Frames)
    <3>1. Entries \subseteq Frames
      BY DEF Frames
    <3>2. \A i \in 1 .. Len(r.queued) : r.queued[i] \in Frames
      BY <2>1, <3>1, ElementOfSeq
    <3> QED
      BY <2>1, <3>1
  <2>3. Flight(r, w) = r.queued \o w
    BY <1>2 DEF Flight
  <2> QED
    BY <1>2, <2>1, <2>2, <2>3, Joined
<1> QED
  BY <1>1, <1>2

LEMMA InFlight ==
  ASSUME Inv
  PROVE  /\ wire \in Seq(Frames) /\ repair \in {NoRepair} \cup Repairs
         /\ Flight(repair, wire) \in Seq(Frames) /\ Len(Flight(repair, wire)) \in Nat
         /\ srv.turn \in Nat
<1>1. wire \in Seq(Frames) /\ repair \in {NoRepair} \cup Repairs
  BY DEF Inv, Shape, Frames
<1>2. Flight(repair, wire) \in Seq(Frames)
  BY <1>1, Flights
<1> QED
  BY <1>1, <1>2, Skews

\* What is left of it after the first d are taken.
Ends(f, g, d) == Len(g) + d = Len(f) /\ \A i \in 1 .. Len(g) : g[i] = f[i + d]

LEMMA EndStays ==
  ASSUME NEW s, NEW f \in Seq(Frames), NEW g \in Seq(Frames), NEW d \in Nat, Ends(f, g, d),
         Chain(f), Sending(s, f)
  PROVE  Chain(g) /\ Sending(s, g)
<1>1. Len(f) \in Nat /\ Len(g) \in Nat /\ Len(g) + d = Len(f)
  BY DEF Ends
<1>2. \A i \in 1 .. Len(g) : i + d \in 1 .. Len(f) /\ g[i] = f[i + d]
  BY <1>1 DEF Ends
<1>3. ASSUME NEW i \in 1 .. Len(g), NEW j \in 1 .. Len(g), i < j, g[i] \in Entries, g[j] \in Entries
      PROVE  g[i].turn <= g[j].turn /\ (g[i].turn = g[j].turn => g[j].seq = g[i].seq + (j - i))
  <2>1. i + d \in 1 .. Len(f) /\ j + d \in 1 .. Len(f) /\ i + d < j + d /\ (j + d) - (i + d) = j - i
    BY <1>2, <1>3
  <2>2. /\ f[i + d].turn <= f[j + d].turn
        /\ f[i + d].turn = f[j + d].turn => f[j + d].seq = f[i + d].seq + ((j + d) - (i + d))
    BY <1>2, <1>3, <2>1 DEF Chain
  <2> QED
    BY <1>2, <2>1, <2>2
<1>4. ASSUME NEW i \in 1 .. Len(g), g[i] \in Entries
      PROVE  /\ g[i].turn > 0 /\ g[i].turn <= s.turn
             /\ s.phase = "locate" => g[i].turn < s.turn
             /\ s.phase = "pump" /\ g[i].turn = s.turn => s.offset + s.sent = g[i].seq + (Len(g) - i)
  <2>1. i + d \in 1 .. Len(f) /\ Len(f) - (i + d) = Len(g) - i
    BY <1>1, <1>2
  <2> QED
    BY <1>2, <1>4, <2>1 DEF Sending
<1> QED
  BY <1>3, <1>4 DEF Chain, Sending

LEMMA TailEnds ==
  ASSUME NEW w \in Seq(Frames), w # <<>> PROVE Tail(w) \in Seq(Frames) /\ Ends(w, Tail(w), 1)
<1>1. /\ Tail(w) \in Seq(Frames) /\ Len(w) \in Nat /\ Len(Tail(w)) = Len(w) - 1
      /\ \A i \in 1 .. Len(w) - 1 : Tail(w)[i] = w[i + 1]
  BY Rest
<1> QED
  BY <1>1 DEF Ends

LEMMA NothingInFlight == ASSUME NEW s PROVE Chain(<<>>) /\ Sending(s, <<>>)
<1>1. Len(<<>>) = 0 /\ 1 .. 0 = {}
  OBVIOUS
<1> QED
  BY <1>1 DEF Chain, Sending

\* Steps that leave the goroutine alone and take nothing, or the first d, out of flight.
LEMMA QuietGaps ==
  ASSUME Inv, GapInv, UNCHANGED srv, Flight(repair', wire') \in Seq(Frames), NEW d \in Nat,
         Ends(Flight(repair, wire), Flight(repair', wire'), d),
         repair' # NoRepair => Asked(repair'), why' = "gaps" => Turns' > 2
  PROVE  GapInv'
<1> DEFINE f == Flight(repair, wire)
           g == Flight(repair', wire')
<1>1. f \in Seq(Frames) /\ g \in Seq(Frames) /\ Ends(f, g, d) /\ Chain(f) /\ Sending(srv, f)
  BY InFlight DEF GapInv
<1> HIDE DEF f, g
<1>2. Chain(g) /\ Sending(srv, g)
  BY <1>1, EndStays
<1> QED
  BY <1>2 DEF GapInv, g

\* Steps that are not about the stream.
LEMMA StillGaps ==
  ASSUME Inv, GapInv, UNCHANGED <<srv, wire>>,
         repair' = repair \/ (/\ repair # NoRepair /\ repair' # NoRepair /\ repair'.queued = repair.queued
                              /\ repair'.round = repair.round /\ repair'.through = repair.through),
         why' = "gaps" => Turns' > 2
  PROVE  GapInv'
<1>1. Flight(repair', wire') = Flight(repair, wire)
  BY DEF Flight
<1>2. repair' # NoRepair => Asked(repair')
  BY DEF GapInv, Asked
<1> QED
  BY <1>1, <1>2 DEF GapInv

\* Steps that end the generation of the stream.
LEMMA LostGaps ==
  ASSUME wire' = <<>>, repair' = NoRepair, why' = "gaps" => Turns' > 2 PROVE GapInv'
<1>1. Flight(repair', wire') = <<>>
  <2>1. <<>> \o <<>> = <<>>
    OBVIOUS
  <2> QED
    BY <2>1 DEF Flight
<1> QED
  BY <1>1, NothingInFlight DEF GapInv

LEMMA HostGaps == ASSUME Inv, GapInv, Prompt \/ Record \/ Finish \/ Rename PROVE GapInv'
<1>1. starts \in Seq(Nat) /\ Len(starts) \in Nat /\ Len(log) \in Nat
  BY DEF Inv, Shape
<1>2. UNCHANGED <<srv, wire, repair, why>>
  BY DEF Prompt, Record, Finish, Rename, network, stream, pages
<1>3. Turns' >= Turns
  <2>1. Prompt => Len(starts') = Len(starts) + 1
    BY <1>1 DEF Prompt
  <2>2. Record \/ Finish => Len(starts') = Len(starts)
    BY DEF Record, Finish
  <2>3. Rename => Len(starts') = Len(starts)
    BY RenameIs
  <2> QED
    BY <1>1, <2>1, <2>2, <2>3 DEF Turns
<1>4. why' = "gaps" => Turns' > 2
  BY <1>1, <1>2, <1>3 DEF GapInv, Turns
<1> QED
  BY <1>2, <1>4, StillGaps

\* The goroutine moves on to another turn, of which nothing is in flight yet.
LEMMA BetweenGaps == ASSUME Inv, GapInv, EndTurn \/ CutTurn \/ Locate \/ FollowNext PROVE GapInv'
<1>1. UNCHANGED <<wire, repair, why, starts>>
  BY DEF EndTurn, CutTurn, Locate, FollowNext, host, stream, pages
<1>2. srv \in Places
  <2>1. srv.phase # "off"
    BY DEF EndTurn, CutTurn, Locate, FollowNext
  <2> QED
    BY <2>1, Kinds DEF Inv, Shape
<1>3. /\ srv.turn \in Nat /\ srv'.turn \in Nat /\ srv'.turn >= srv.turn
      /\ srv'.phase = "locate" => srv'.turn > srv.turn
      /\ srv'.phase = "pump" => srv.phase = "locate" /\ srv'.turn = srv.turn
  <2>1. EndTurn \/ CutTurn => srv' = [srv EXCEPT !.phase = "await"]
    BY DEF EndTurn, CutTurn
  <2>2. Locate => srv' = [srv EXCEPT !.phase = "locate", !.turn = Turns] /\ Turns > srv.turn
    BY DEF Locate
  <2>3. FollowNext => srv.phase = "locate" /\ srv' = Pump(srv.turn, starts[Turns], 0, TRUE)
    BY DEF FollowNext
  <2>4. Turns \in Nat /\ srv.turn \in Nat
    BY Skews DEF Inv, Shape, Turns
  <2>5. CASE EndTurn \/ CutTurn
    BY <1>2, <2>1, <2>4, <2>5 DEF Places
  <2>6. CASE Locate
    <3>1. srv'.phase = "locate" /\ srv'.turn = Turns
      BY <1>2, <2>2, <2>6 DEF Places
    <3> QED
      BY <2>2, <2>4, <2>6, <3>1
  <2>7. CASE FollowNext
    BY <2>3, <2>4, <2>7 DEF Pump
  <2> QED
    BY <2>5, <2>6, <2>7
<1> DEFINE f == Flight(repair, wire)
<1>4. f \in Seq(Frames) /\ Chain(f) /\ Sending(srv, f)
  BY InFlight DEF GapInv
<1> HIDE DEF f
<1>5. ASSUME NEW i \in 1 .. Len(f), f[i] \in Entries
      PROVE  /\ f[i].turn > 0 /\ f[i].turn <= srv'.turn
             /\ srv'.phase = "locate" => f[i].turn < srv'.turn
             /\ ~(srv'.phase = "pump" /\ f[i].turn = srv'.turn)
  <2>1. /\ f[i].turn > 0 /\ f[i].turn <= srv.turn /\ (srv.phase = "locate" => f[i].turn < srv.turn)
        /\ f[i].turn \in Nat
    BY <1>4, <1>5, Numbered DEF Sending
  <2> DEFINE t == f[i].turn
  <2> HIDE DEF t
  <2> QED
    BY <1>3, <2>1 DEF t
<1>6. Sending(srv', f)
  BY <1>5 DEF Sending
<1> QED
  BY <1>1, <1>4, <1>6 DEF GapInv, f, Turns

LEMMA ServeFollowGaps == ASSUME Inv, GapInv, ServeFollow PROVE GapInv'
<1>1. /\ UNCHANGED <<repair, why, starts>> /\ phase = "opening"
      /\ wire' = <<[type |-> "opened", cursor |-> Cursor, page |-> Page(Len(log))]>>
  BY DEF ServeFollow, host, stream, pages
<1>2. repair = NoRepair
  BY <1>1 DEF Inv, Reading, Mending
<1> DEFINE frame == [type |-> "opened", cursor |-> Cursor, page |-> Page(Len(log))]
<1>3. frame \notin Entries
  <2>1. frame.type = "opened"
    OBVIOUS
  <2>2. \A e \in Entries : e.type = "entry"
    BY DEF Entries
  <2> QED
    BY <2>1, <2>2
<1> HIDE DEF frame
<1>4. wire' = <<frame>> /\ Len(<<frame>>) = 1 /\ \A i \in 1 .. 1 : <<frame>>[i] = frame
  BY <1>1 DEF frame
<1>5. Flight(repair', wire') = wire'
  <2>1. <<>> \o <<frame>> = <<frame>>
    OBVIOUS
  <2> QED
    BY <1>1, <1>2, <1>4, <2>1 DEF Flight
<1>6. Chain(wire') /\ Sending(srv', wire')
  BY <1>3, <1>4 DEF Chain, Sending
<1> QED
  BY <1>1, <1>2, <1>5, <1>6 DEF GapInv, Turns

LEMMA FlightGrows ==
  ASSUME NEW r \in {NoRepair} \cup Repairs, NEW w \in Seq(Frames), NEW x \in Frames
  PROVE  Flight(r, Append(w, x)) = Append(Flight(r, w), x)
<1> DEFINE q == IF r = NoRepair THEN <<>> ELSE r.queued
<1>1. q \in Seq(Frames)
  <2>1. r # NoRepair => r.queued \in Seq(Entries)
    BY DEF Repairs
  <2>2. Entries \subseteq Frames
    BY DEF Frames
  <2> QED
    BY <2>1, <2>2
<1>2. Flight(r, Append(w, x)) = q \o Append(w, x) /\ Flight(r, w) = q \o w
  BY DEF Flight
<1> HIDE DEF q
<1>3. q \o w \in Seq(Frames) /\ <<x>> \in Seq(Frames)
  BY <1>1, ConcatProperties
<1>4. Append(w, x) = w \o <<x>> /\ Append(q \o w, x) = (q \o w) \o <<x>>
  BY <1>3, AppendIsConcat
<1>5. q \o (w \o <<x>>) = (q \o w) \o <<x>>
  BY <1>1, <1>3, ConcatAssociative
<1> QED
  BY <1>2, <1>4, <1>5

\* The entry that is sent is the next of its turn.
LEMMA SendRecordGaps == ASSUME Inv, GapInv, SendRecord PROVE GapInv'
<1>1. UNCHANGED <<repair, why, starts>>
  BY DEF SendRecord, host, stream, pages
<1>2. /\ srv \in Places /\ srv.phase = "pump" /\ srv.turn \in Nat /\ srv.turn > 0
      /\ srv.offset \in Nat /\ srv.sent \in Nat /\ srv'.phase = "pump" /\ srv'.turn = srv.turn
      /\ srv'.offset = srv.offset /\ srv'.sent = srv.sent + 1
  BY SendIs, Skews
<1>3. PICK frame \in Entries :
        /\ wire' = Append(wire, frame)
        /\ frame.seq = srv.offset + srv.sent + 1 /\ frame.turn = srv.turn
  BY SendIs
<1> DEFINE f == Flight(repair, wire)
           g == Append(f, frame)
           n == Len(f)
<1>4. f \in Seq(Frames) /\ n \in Nat /\ Chain(f) /\ Sending(srv, f)
  BY InFlight DEF GapInv
<1>5. Flight(repair', wire') = g
  <2>1. frame \in Frames
    BY DEF Frames
  <2> QED
    BY <1>1, <1>3, <2>1, InFlight, FlightGrows
<1>6. Len(g) = n + 1 /\ g[n + 1] = frame /\ \A i \in 1 .. n : g[i] = f[i]
  <2>1. frame \in Frames
    BY DEF Frames
  <2> HIDE DEF f
  <2> QED
    BY <1>4, <2>1, Appended
<1> HIDE DEF f, g, n
<1>7. ASSUME NEW i \in 1 .. n, f[i] \in Entries
      PROVE  /\ f[i].turn \in Nat /\ f[i].seq \in Nat /\ f[i].turn > 0 /\ f[i].turn <= srv.turn
             /\ f[i].turn = srv.turn => srv.offset + srv.sent = f[i].seq + (n - i)
  BY <1>2, <1>4, <1>7, Numbered DEF Sending, n
<1>8. Chain(g)
  <2> SUFFICES ASSUME NEW i \in 1 .. Len(g), NEW j \in 1 .. Len(g), i < j, g[i] \in Entries, g[j] \in Entries
               PROVE  g[i].turn <= g[j].turn /\ (g[i].turn = g[j].turn => g[j].seq = g[i].seq + (j - i))
    BY DEF Chain
  <2>1. i \in 1 .. n /\ g[i] = f[i]
    BY <1>4, <1>6
  <2>2. CASE j = n + 1
    <3>1. g[j] = frame
      BY <1>6, <2>2
    <3>2. /\ f[i].turn \in Nat /\ f[i].seq \in Nat /\ f[i].turn <= srv.turn
          /\ f[i].turn = srv.turn => srv.offset + srv.sent = f[i].seq + (n - i)
      BY <1>7, <2>1
    <3> DEFINE a == f[i].seq
    <3>3. ASSUME f[i].turn = srv.turn PROVE frame.seq = a + (j - i)
      <4>1. srv.offset + srv.sent = a + (n - i) /\ a \in Nat
        BY <3>2, <3>3
      <4> HIDE DEF a
      <4> QED
        BY <1>2, <1>3, <1>4, <2>2, <4>1
    <3> QED
      BY <1>3, <2>1, <3>1, <3>2, <3>3
  <2>3. CASE j # n + 1
    <3>1. j \in 1 .. n /\ g[j] = f[j]
      BY <1>4, <1>6, <2>3
    <3> QED
      BY <1>4, <2>1, <3>1 DEF Chain, n
  <2> QED
    BY <2>2, <2>3
<1>9. Sending(srv', g)
  <2> SUFFICES ASSUME NEW i \in 1 .. Len(g), g[i] \in Entries
               PROVE  /\ g[i].turn > 0 /\ g[i].turn <= srv.turn
                      /\ g[i].turn = srv.turn => srv.offset + (srv.sent + 1) = g[i].seq + (Len(g) - i)
    BY <1>2 DEF Sending
  <2>1. CASE i = n + 1
    <3>1. g[i] = frame /\ Len(g) - i = 0
      BY <1>4, <1>6, <2>1
    <3> QED
      BY <1>2, <1>3, <3>1
  <2>2. CASE i # n + 1
    <3>1. i \in 1 .. n /\ g[i] = f[i]
      BY <1>4, <1>6, <2>2
    <3>2. /\ f[i].turn \in Nat /\ f[i].seq \in Nat /\ f[i].turn > 0 /\ f[i].turn <= srv.turn
          /\ f[i].turn = srv.turn => srv.offset + srv.sent = f[i].seq + (n - i)
      BY <1>7, <2>2, <3>1
    <3> DEFINE a == f[i].seq
    <3>3. ASSUME f[i].turn = srv.turn PROVE srv.offset + (srv.sent + 1) = a + (Len(g) - i)
      <4>1. srv.offset + srv.sent = a + (n - i) /\ a \in Nat
        BY <3>2, <3>3
      <4> HIDE DEF a
      <4> QED
        BY <1>2, <1>4, <1>6, <4>1
    <3> QED
      BY <3>1, <3>2, <3>3
  <2> QED
    BY <2>1, <2>2
<1>10. (repair # NoRepair => Asked(repair)) /\ (why = "gaps" => Turns > 2)
  BY DEF GapInv
<1> QED
  BY <1>1, <1>5, <1>8, <1>9, <1>10 DEF GapInv, Turns

LEMMA ServeRepairGaps == ASSUME Inv, Inv', GapInv, ServeRepair PROVE GapInv'
<1>1. /\ UNCHANGED <<srv, wire, why, starts>> /\ repair.state = "asked"
      /\ repair' = [repair EXCEPT !.state = "answered", !.page = Through(repair.through, Len(log) + 1)]
  BY DEF ServeRepair, host, network, stream
<1>2. repair # NoRepair /\ repair \in Repairs
  BY <1>1, Kinds, RepairIs
<1>3. /\ repair'.queued = repair.queued /\ repair'.round = repair.round /\ repair'.through = repair.through
      /\ repair'.state = "answered"
  BY <1>1, <1>2 DEF Repairs
<1>4. repair' # NoRepair
  BY <1>3, Kinds
<1>5. why' = "gaps" => Turns' > 2
  BY <1>1 DEF GapInv, Turns
<1> QED
  BY <1>1, <1>2, <1>3, <1>4, <1>5, StillGaps

-----------------------------------------------------------------------------
\* The browser takes what is in flight.
LEMMA TakeOpenedGaps == ASSUME Inv, GapInv, TakeOpened PROVE GapInv'
<1>1. phase = "opening" /\ wire # <<>> /\ starts' = starts
  BY DEF TakeOpened, host
<1>2. repair = NoRepair /\ why = "none"
  BY <1>1 DEF Inv, Reading, Mending, Alarm
<1>3. CASE Fail("violation")
  BY <1>3, LostGaps DEF Fail, NoFrames
<1>4. CASE wire' = Tail(wire) /\ UNCHANGED <<srv, why, pages>>
  <2>1. wire \in Seq(Frames) /\ Tail(wire) \in Seq(Frames) /\ Ends(wire, Tail(wire), 1)
    BY <1>1, InFlight, TailEnds
  <2>2. repair' = NoRepair /\ Flight(repair, wire) = wire /\ Flight(repair', wire') = Tail(wire)
    BY <1>2, <1>4, <2>1, Flights DEF pages
  <2> QED
    BY <1>2, <1>4, <2>1, <2>2, QuietGaps
<1> QED
  BY <1>3, <1>4 DEF TakeOpened

LEMMA TakeEntryGaps == ASSUME Inv, Inv', GapInv, TakeEntry PROVE GapInv'
<1>1. /\ wire # <<>> /\ repair = NoRepair /\ wire' = Tail(wire) /\ UNCHANGED <<srv, why, starts>>
  BY DEF TakeEntry, host, stream
<1>2. wire \in Seq(Frames) /\ Tail(wire) \in Seq(Frames) /\ Ends(wire, Tail(wire), 1)
  BY <1>1, InFlight, TailEnds
<1>3. Flight(repair, wire) = wire
  BY <1>1, <1>2, Flights
<1>4. why' = "gaps" => Turns' > 2
  BY <1>1 DEF GapInv, Turns
<1>5. CASE repair' = NoRepair
  <2>1. Flight(repair', wire') = Tail(wire)
    BY <1>1, <1>2, <1>5, Flights
  <2> QED
    BY <1>1, <1>2, <1>3, <1>4, <1>5, <2>1, QuietGaps
<1>6. CASE repair' = [state |-> "asked", round |-> 1, through |-> Head(wire).seq,
                      queued |-> <<Head(wire)>>, page |-> Page(0)]
  <2>1. /\ repair'.queued = <<Head(wire)>> /\ repair'.round = 1 /\ repair'.through = Head(wire).seq
        /\ repair'.state = "asked" /\ repair' # NoRepair
    BY <1>6, Kinds
  <2>2. Flight(repair', wire') = wire
    <3>1. <<Head(wire)>> \o Tail(wire) = wire
      BY <1>1, <1>2, HeadTailProperties, ConcatProperties
    <3> QED
      BY <1>1, <2>1, <3>1 DEF Flight
  <2>3. Asked(repair')
    <3>1. <<Head(wire)>>[1] = Head(wire)
      OBVIOUS
    <3> QED
      BY <2>1, <3>1 DEF Asked
  <2> QED
    BY <1>1, <1>2, <1>3, <1>4, <2>2, <2>3 DEF GapInv
<1> QED
  BY <1>1, <1>5, <1>6 DEF TakeEntry

\* An entry that waits has not changed its place behind the others.
LEMMA TakeQueuedGaps == ASSUME Inv, Inv', GapInv, TakeQueued PROVE GapInv'
<1>1. /\ UNCHANGED <<srv, why, starts>> /\ wire # <<>> /\ wire' = Tail(wire)
  BY DEF TakeQueued, host, stream
<1>2. /\ repair # NoRepair /\ repair' \in Repairs /\ repair'.through = repair.through
      /\ repair'.round = repair.round /\ Head(wire) \in Entries
      /\ repair'.queued = Append(repair.queued, Head(wire))
      /\ Len(repair'.queued) = Len(repair.queued) + 1
      /\ \A i \in 1 .. Len(repair.queued) : repair'.queued[i] = repair.queued[i]
  BY QueuedIs
<1>3. repair' # NoRepair /\ wire \in Seq(Frames) /\ repair.queued \in Seq(Entries)
  BY <1>2, Kinds, InFlight, RepairIs
<1> DEFINE q == repair.queued
           x == Head(wire)
           t == Tail(wire)
<1>4. q \in Seq(Frames)
  <2>1. Entries \subseteq Frames
    BY DEF Frames
  <2> QED
    BY <1>3, <2>1
<1>5. /\ Flight(repair, wire) = q \o wire /\ Flight(repair', wire') = Append(q, x) \o t
  BY <1>1, <1>2, <1>3 DEF Flight
<1>6. wire = <<x>> \o t /\ t \in Seq(Frames) /\ x \in Frames
  <2>1. <<Head(wire)>> \o Tail(wire) = wire
    BY <1>1, <1>3, HeadTailProperties, ConcatProperties
  <2>2. Tail(wire) \in Seq(Frames)
    BY <1>1, <1>3, Rest
  <2> QED
    BY <1>2, <2>1, <2>2 DEF Frames
<1> HIDE DEF q, x, t
<1>7. Append(q, x) = q \o <<x>> /\ <<x>> \in Seq(Frames)
  BY <1>4, <1>6, AppendIsConcat
<1>8. (q \o <<x>>) \o t = q \o (<<x>> \o t)
  BY <1>4, <1>6, <1>7, ConcatAssociative
<1>9. Flight(repair', wire') = Flight(repair, wire)
  BY <1>5, <1>6, <1>7, <1>8
<1>10. Asked(repair')
  <2>1. Asked(repair) /\ Len(repair.queued) \in Nat /\ Len(repair.queued) > 0
    BY <1>2, RepairIs DEF GapInv, Inv, Reading, Mending
  <2>2. repair'.round = 1 => repair'.through = repair'.queued[1].seq
    <3>1. 1 \in 1 .. Len(repair.queued)
      BY <2>1
    <3> QED
      BY <1>2, <2>1, <3>1 DEF Asked
  <2>3. ASSUME repair'.round = 2
        PROVE  \E i \in 1 .. Len(repair'.queued) :
                 repair'.queued[i].turn >= 2 /\ \A j \in 1 .. i : repair'.queued[j].seq <= repair'.through
    <3>1. PICK i \in 1 .. Len(repair.queued) :
            repair.queued[i].turn >= 2 /\ \A j \in 1 .. i : repair.queued[j].seq <= repair.through
      BY <1>2, <2>1, <2>3 DEF Asked
    <3>2. i \in 1 .. Len(repair'.queued) /\ \A j \in 1 .. i : j \in 1 .. Len(repair.queued)
      BY <1>2, <2>1
    <3> QED
      BY <1>2, <3>1, <3>2
  <2> QED
    BY <2>2, <2>3 DEF Asked
<1> QED
  BY <1>1, <1>9, <1>10 DEF GapInv, Turns

\* From an entry that the page has on, nothing is missing among those of one turn.
LEMMA Completes ==
  ASSUME NEW r \in Repairs, r.page.tail = r.through, Reach(r) \in Nat, Reach(r) >= r.through,
         Reach(r) # r.through => \E i \in 1 .. Len(r.queued) : Reach(r) = r.queued[i].seq,
         NEW n \in 1 .. Len(r.queued), \A j \in 1 .. n : r.queued[j].seq <= r.through,
         \A i, j \in 1 .. Len(r.queued) : i < j /\ i >= n =>
           r.queued[j].seq = r.queued[i].seq + (j - i)
  PROVE  Complete(r)
<1> DEFINE q == r.queued
           a == r.through
           z == Reach(r)
<1>1. /\ q \in Seq(Entries) /\ Len(q) \in Nat /\ DOMAIN q = 1 .. Len(q) /\ a \in Nat /\ z \in Nat
  BY LenProperties DEF Repairs
<1>2. \A i \in 1 .. Len(q) : q[i].seq \in Nat
  <2>1. \A i \in 1 .. Len(q) : q[i] \in Entries
    BY <1>1, ElementOfSeq
  <2> HIDE DEF q
  <2> QED
    BY <2>1, Numbered
<1> SUFFICES ASSUME NEW seq \in a + 1 .. z PROVE QueuedAt(r, seq) # {}
  BY DEF Complete
<1>3. seq \in Nat /\ seq > a /\ seq <= z /\ z # a
  BY <1>1
<1>4. PICK m \in 1 .. Len(q) : q[m].seq = z
  BY <1>3
<1>5. /\ \A j \in 1 .. n : q[j].seq <= a
      /\ \A i, j \in 1 .. Len(q) : i < j /\ i >= n => q[j].seq = q[i].seq + (j - i)
      /\ n \in 1 .. Len(q)
  OBVIOUS
<1> HIDE DEF q, a, z
<1>6. n < m
  <2> SUFFICES ASSUME m <= n PROVE FALSE
    BY <1>1, <1>5
  <2>1. m \in 1 .. n
    BY <1>1, <1>5
  <2>2. z <= a
    BY <1>4, <1>5, <2>1
  <2> QED
    BY <1>1, <1>3, <2>2
<1> DEFINE b == q[n].seq
           i == n + (seq - b)
<1>7. b \in Nat /\ b <= a /\ z = b + (m - n)
  <2>1. n \in 1 .. n /\ n >= n
    BY <1>1, <1>5
  <2> QED
    BY <1>2, <1>4, <1>5, <1>6, <2>1
<1> HIDE DEF b
<1>8. i \in 1 .. Len(q) /\ n < i /\ i - n = seq - b
  BY <1>1, <1>3, <1>5, <1>6, <1>7
<1> HIDE DEF i
<1>9. q[i].seq = b + (i - n)
  <2>1. n >= n /\ n \in 1 .. Len(q)
    BY <1>1, <1>5
  <2> QED
    BY <1>5, <1>8, <2>1 DEF b
<1>10. q[i].seq = seq
  <2>1. b + (seq - b) = seq
    BY <1>3, <1>7
  <2> QED
    BY <1>8, <1>9, <2>1
<1>11. i \in QueuedAt(r, seq)
  BY <1>1, <1>8, <1>10 DEF QueuedAt, q
<1> QED
  BY <1>11

\* The second page is read up to an entry of a later turn than the first, and what is missing
\* behind that one belongs to a third.
LEMMA TakeRepairGaps == ASSUME Inv, GapInv, TakeRepair PROVE GapInv'
<1>1. UNCHANGED starts /\ repair.state = "answered"
  BY DEF TakeRepair, host
<1>2. /\ repair # NoRepair /\ repair \in Repairs /\ wire \in Seq(Frames) /\ Mending
      /\ repair.through \in Nat /\ repair.through > 0 /\ repair.page.tail \in Nat
      /\ repair.queued \in Seq(Entries) /\ Len(repair.queued) \in Nat /\ Len(repair.queued) > 0
      /\ \A i \in 1 .. Len(repair.queued) :
           repair.queued[i] \in Entries /\ repair.queued[i].seq \in Nat /\ repair.queued[i].turn \in Nat
  BY <1>1, Kinds, RepairIs, InFlight DEF Inv, Reading, Mending
<1>3. /\ Reach(repair) \in Nat /\ Reach(repair) >= repair.through
      /\ Reach(repair) # repair.through => \E i \in 1 .. Len(repair.queued) : Reach(repair) = repair.queued[i].seq
      /\ \A i \in 1 .. Len(repair.queued) : repair.queued[i].seq <= Reach(repair)
  BY <1>2, ReachIs
<1>4. why = "none" /\ Asked(repair) /\ Turns \in Nat /\ srv.turn \in Nat /\ (srv.turn > 2 => Turns > 2)
  <2>1. why = "none" /\ srv # NoStream
    BY <1>2 DEF Mending, Inv, Alarm, Wire
  <2>2. Turns \in Nat
    BY DEF Inv, Shape, Turns
  <2>3. srv.turn \in Nat /\ (srv.turn > Turns => srv.turn = 1)
    BY <2>1, Skews DEF Inv, Server
  <2> QED
    BY <1>2, <2>1, <2>2, <2>3 DEF GapInv
<1> DEFINE q == repair.queued
           f == Flight(repair, wire)
<1>5. /\ Len(f) = Len(q) + Len(wire) /\ \A i \in 1 .. Len(q) : f[i] = q[i]
      /\ \A i \in 1 .. Len(wire) : f[Len(q) + i] = wire[i]
      /\ Chain(f) /\ Sending(srv, f) /\ Len(wire) \in Nat /\ Len(q) \in Nat
  BY <1>2, Flights DEF GapInv
<1> HIDE DEF f
<1>6. \A i \in 1 .. Len(q) : i \in 1 .. Len(f)
  BY <1>5
<1>7. ASSUME NEW i \in 1 .. Len(q) PROVE q[i].turn > 0 /\ q[i].turn <= srv.turn
  BY <1>2, <1>5, <1>6 DEF Sending
<1>8. ASSUME NEW i \in 1 .. Len(q), NEW j \in 1 .. Len(q), i < j
      PROVE  q[i].turn <= q[j].turn /\ (q[i].turn = q[j].turn => q[j].seq = q[i].seq + (j - i))
  <2>1. f[i] = q[i] /\ f[j] = q[j] /\ q[i] \in Entries /\ q[j] \in Entries
    BY <1>2, <1>5
  <2> QED
    BY <1>5, <1>6, <1>8, <2>1 DEF Chain
<1>9. CASE Fail("violation")
  BY <1>9, LostGaps DEF Fail, NoFrames
<1>10. CASE PageTail(repair.page) = repair.through /\ ~Complete(repair) /\ repair.round = 2 /\ Fail("gaps")
  <2>1. Turns > 2
    <3> SUFFICES ASSUME ~(Turns > 2) PROVE Complete(repair)
      BY <1>10
    <3>1. PICK n \in 1 .. Len(q) : q[n].turn >= 2 /\ \A j \in 1 .. n : q[j].seq <= repair.through
      BY <1>4, <1>10 DEF Asked
    <3>2. \A i \in 1 .. Len(q) : i >= n => q[i].turn = 2
      <4> SUFFICES ASSUME NEW i \in 1 .. Len(q), i >= n PROVE q[i].turn = 2
        OBVIOUS
      <4>1. q[n].turn <= q[i].turn
        <5>1. CASE i = n
          BY <1>2, <5>1
        <5>2. CASE i # n
          <6>1. n < i
            BY <1>2, <5>2
          <6> QED
            BY <1>8, <6>1
        <5> QED
          BY <5>1, <5>2
      <4>2. q[i].turn <= srv.turn /\ q[i].turn \in Nat /\ q[n].turn \in Nat
        BY <1>2, <1>7
      <4> HIDE DEF q
      <4> QED
        BY <1>4, <3>1, <4>1, <4>2
    <3>3. \A i, j \in 1 .. Len(q) : i < j /\ i >= n => q[j].seq = q[i].seq + (j - i)
      <4> SUFFICES ASSUME NEW i \in 1 .. Len(q), NEW j \in 1 .. Len(q), i < j, i >= n
                   PROVE  q[j].seq = q[i].seq + (j - i)
        OBVIOUS
      <4>1. j >= n
        BY <1>2
      <4> QED
        BY <1>8, <3>2, <4>1
    <3>4. repair.page.tail = repair.through
      BY <1>2, <1>10 DEF PageTail, Empty
    <3> QED
      BY <1>2, <1>3, <3>1, <3>3, <3>4, Completes
  <2> QED
    BY <1>1, <1>10, <2>1, LostGaps DEF Fail, NoFrames, Turns
<1>11. CASE repair' = NoRepair /\ UNCHANGED <<srv, wire, stream, older>>
  <2>1. Flight(repair', wire') = wire
    BY <1>2, <1>11, Flights
  <2>2. Ends(f, wire, Len(q))
    <3>1. \A i \in 1 .. Len(wire) : wire[i] = f[i + Len(q)]
      <4>1. \A i \in 1 .. Len(wire) : i + Len(q) = Len(q) + i
        BY <1>5
      <4> QED
        BY <1>5, <4>1
    <3>2. Len(wire) + Len(q) = Len(f)
      BY <1>5
    <3> QED
      BY <3>1, <3>2 DEF Ends
  <2>3. why' # "gaps"
    BY <1>4, <1>11 DEF stream
  <2> QED
    BY <1>2, <1>5, <1>11, <2>1, <2>2, <2>3, QuietGaps DEF f
<1>12. CASE /\ PageTail(repair.page) = repair.through /\ ~Complete(repair) /\ repair.round # 2
            /\ repair' = [repair EXCEPT !.state = "asked", !.round = 2, !.through = Reach(repair)]
            /\ UNCHANGED <<srv, wire, stream, older>>
  <2>1. repair'.queued = repair.queued /\ repair'.round = 2 /\ repair'.through = Reach(repair)
        /\ repair'.state = "asked" /\ repair.round = 1
    BY <1>2, <1>12 DEF Repairs
  <2>2. repair' # NoRepair
    BY <2>1, Kinds
  <2>3. Flight(repair', wire') = Flight(repair, wire)
    BY <1>2, <1>12, <2>1, <2>2 DEF Flight
  <2>4. \E i \in 1 .. Len(q) : q[i].turn >= 2
    <3> SUFFICES ASSUME \A i \in 1 .. Len(q) : ~(q[i].turn >= 2) PROVE Complete(repair)
      BY <1>12
    <3>1. \A i \in 1 .. Len(q) : q[i].turn = 1
      BY <1>2, <1>7
    <3>2. \A i, j \in 1 .. Len(q) : i < j /\ i >= 1 => q[j].seq = q[i].seq + (j - i)
      BY <1>8, <3>1
    <3>3. 1 \in 1 .. Len(q) /\ \A j \in 1 .. 1 : q[j].seq <= repair.through
      <4>1. q[1].seq = repair.through
        BY <1>4, <2>1 DEF Asked
      <4> QED
        BY <1>2, <4>1
    <3>4. repair.page.tail = repair.through
      BY <1>2, <1>12 DEF PageTail, Empty
    <3> QED
      BY <1>2, <1>3, <3>2, <3>3, <3>4, Completes
  <2>5. Asked(repair')
    <3>1. \A i \in 1 .. Len(q) : \A j \in 1 .. i : j \in 1 .. Len(q)
      BY <1>2
    <3> QED
      BY <1>3, <2>1, <2>4, <3>1 DEF Asked
  <2> QED
    BY <1>4, <1>12, <2>2, <2>3, <2>5 DEF GapInv, stream
<1> QED
  BY <1>9, <1>10, <1>11, <1>12 DEF TakeRepair

LEMMA RetryGaps == ASSUME GapInv, NEW seen, Retry(seen), UNCHANGED starts PROVE GapInv'
<1>1. wire' = <<>> /\ repair' = NoRepair /\ (why' = why \/ why' = "carrier")
  BY DEF Retry, Fail, NoFrames
<1> QED
  BY <1>1, LostGaps DEF GapInv, Turns

LEMMA FaultGaps ==
  ASSUME Inv, GapInv, RepairFails \/ ConnectFails \/ Rebaseline \/ \E restart \in BOOLEAN : Lose(restart)
  PROVE  GapInv'
<1>1. CASE RepairFails
  BY <1>1, LostGaps DEF RepairFails, Fail, NoFrames
<1>2. CASE ConnectFails
  BY <1>2, RetryGaps DEF ConnectFails, host
<1>3. CASE Rebaseline
  <2>1. UNCHANGED starts
    BY <1>3 DEF Rebaseline, host
  <2>2. (NoFrames /\ repair' = NoRepair /\ why' = why) \/ Retry(ready)
    BY <1>3 DEF Rebaseline
  <2> QED
    BY <2>1, <2>2, LostGaps, RetryGaps DEF NoFrames, GapInv, Turns
<1>4. CASE \E restart \in BOOLEAN : Lose(restart)
  <2>1. UNCHANGED starts
    BY <1>4 DEF Lose
  <2>2. CASE phase \in {"opening", "live"}
    <3>1. PICK seen \in {ready, FALSE} : Retry(seen)
      BY <1>4, <2>2 DEF Lose
    <3> QED
      BY <2>1, <3>1, RetryGaps
  <2>3. CASE phase \notin {"opening", "live"}
    <3>1. NoFrames /\ why' = why /\ repair' = repair
      BY <1>4, <2>3 DEF Lose, stream, pages
    <3>2. repair = NoRepair
      BY <2>3 DEF Inv, Reading, Mending
    <3> QED
      BY <2>1, <3>1, <3>2, LostGaps DEF NoFrames, GapInv, Turns
  <2> QED
    BY <2>2, <2>3
<1> QED
  BY <1>1, <1>2, <1>3, <1>4

LEMMA NextGaps == ASSUME Inv, Inv', GapInv, Next PROVE GapInv'
<1>1. CASE Prompt \/ Record \/ Finish \/ Rename
  BY <1>1, HostGaps
<1>2. CASE ServeFollow \/ SendRecord \/ ServeRepair
  BY <1>2, ServeFollowGaps, SendRecordGaps, ServeRepairGaps
<1>3. CASE EndTurn \/ CutTurn \/ Locate \/ FollowNext
  BY <1>3, BetweenGaps
<1>4. CASE ServeOlder \/ LoadOlder \/ TakeOlder \/ OlderFails
  <2>1. UNCHANGED <<srv, wire, repair, why, starts>>
    BY <1>4 DEF ServeOlder, LoadOlder, TakeOlder, OlderFails, host, network, stream
  <2> QED
    BY <2>1, StillGaps DEF GapInv, Turns
<1>5. CASE Open \/ Reconnect \/ Ready
  <2>1. UNCHANGED <<srv, wire, repair, starts>> /\ (why' = why \/ why' = "none")
    BY <1>5 DEF Open, Reconnect, Ready, host, network, stream, pages
  <2> QED
    BY <2>1, StillGaps DEF GapInv, Turns
<1>6. CASE TakeOpened \/ TakeEntry \/ TakeQueued \/ TakeRepair
  BY <1>6, TakeOpenedGaps, TakeEntryGaps, TakeQueuedGaps, TakeRepairGaps
<1>7. CASE RepairFails \/ ConnectFails \/ Rebaseline \/ \E restart \in BOOLEAN : Lose(restart)
  BY <1>7, FaultGaps
<1> QED
  BY <1>1, <1>2, <1>3, <1>4, <1>5, <1>6, <1>7 DEF Next

LEMMA NoGapsAtFirst == ASSUME Init PROVE GapInv
<1>1. Flight(repair, wire) = <<>>
  <2>1. <<>> \o <<>> = <<>>
    OBVIOUS
  <2> QED
    BY <2>1 DEF Init, Flight
<1>2. why = "none" /\ repair = NoRepair
  BY DEF Init
<1> QED
  BY <1>1, <1>2, NothingInFlight DEF GapInv

LEMMA GapsStay == ASSUME GapInv, UNCHANGED vars PROVE GapInv'
<1>1. UNCHANGED <<srv, wire, repair, why, starts>>
  BY DEF vars, host, network, stream, pages
<1>2. Flight(repair', wire') = Flight(repair, wire)
  BY <1>1
<1> QED
  BY <1>1, <1>2 DEF GapInv, Turns

\* The console takes the host's stream for a protocol violation only after a prompt fell
\* between the two reads of a follower, and a second read is enough for a repair in a
\* conversation of up to two turns, for any number of records, titles, cut turns, losses
\* and restarts (gateway/client.js opening, assertPageThrough and replaceThrough,
\* follow.go's awaitSessionTurn and Session).
THEOREM NoFalseAlarms == Spec => []NoFalseAlarm
<1>1. Init => Inv /\ GapInv
  BY Initially, NoGapsAtFirst
<1>2. Inv /\ GapInv /\ [Next]_vars => (Inv /\ GapInv)'
  BY NextKeeps, StutterKeeps, NextGaps, GapsStay
<1>3. Inv /\ GapInv => NoFalseAlarm
  BY DEF Inv, Alarm, GapInv, NoFalseAlarm, PagesReach, RepairsSuffice
<1> QED
  BY <1>1, <1>2, <1>3, PTL DEF Spec
=============================================================================
