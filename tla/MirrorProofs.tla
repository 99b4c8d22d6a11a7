---------------------------- MODULE MirrorProofs -----------------------------
(***************************************************************************)
(* What a topic is told, for any transcript, page size and pollers: the    *)
(* cursor leaves nothing out and brings nothing back, and it implements    *)
(* the mirror, as long as no two pollers race to seed it.  Then the two    *)
(* services it leans on, for any callers: the circuit breaker counts every *)
(* call once, and the watch on a pull request says each verdict once.      *)
(***************************************************************************)
EXTENDS MCMirror, Sequences, FiniteSetTheorems, TLAPS

LEMMA TranscriptSteps == SideBySide => Spec
<1>1. Start => Init
  BY DEF Start
<1>2. [Step]_<<world, vars, clientVars, ciVars>> => [Next]_vars
  BY DEF Step
<1> QED BY <1>1, <1>2, PTL DEF SideBySide, Spec

-----------------------------------------------------------------------------
(* Positions and indexes: the cursor at message m has passed m messages.   *)
LEMMA PassedIsPrefix ==
    ASSUME NEW m \in 0..Last
    PROVE  Passed(IndexOf(m)) = 1..m /\ Cardinality(Passed(IndexOf(m))) = m
<1>1. Passed(IndexOf(m)) = 1..m
  <2>1. CASE m = NoId
    BY <2>1, IndexAssumption DEF Passed, IndexOf, NoId
  <2>2. CASE m # NoId
    <3>1. m \in Messages /\ IndexOf(m) = Index[m]
      BY <2>2, SizeAssumption DEF Messages, IndexOf, NoId
    <3>2. ASSUME NEW n \in Messages PROVE Index[n] <= Index[m] <=> n <= m
      <4>1. n \in Int /\ m \in Int /\ Index[n] \in Nat /\ Index[m] \in Nat
        BY <3>1, IndexAssumption DEF Messages
      <4>2. (n < m => Index[n] < Index[m]) /\ (m < n => Index[m] < Index[n])
        BY <3>1, IndexAssumption
      <4> QED BY <4>1, <4>2
    <3>3. 1..m = {n \in Messages : n <= m}
      BY <3>1, SizeAssumption DEF Messages
    <3> QED BY <3>1, <3>2, <3>3 DEF Passed
  <2> QED BY <2>1, <2>2
<1>2. Cardinality(1..m) = m
  BY FS_Interval
<1> QED BY <1>1, <1>2

LEMMA IndexesAscend ==
    ASSUME NEW k \in 0..Last, NEW n \in Messages
    PROVE  Index[n] > IndexOf(k) <=> n > k
<1>1. n \in Passed(IndexOf(k)) <=> Index[n] <= IndexOf(k)
  BY DEF Passed
<1>2. n \in Passed(IndexOf(k)) <=> n <= k
  BY PassedIsPrefix DEF Messages
<1>3. Index[n] \in Int /\ IndexOf(k) \in Int /\ n \in Int /\ k \in Int
  BY IndexAssumption, SizeAssumption DEF IndexOf, Messages, NoId
<1> QED BY <1>1, <1>2, <1>3

LEMMA IndexOfTyped == \A m \in 0..Last : IndexOf(m) \in {-1} \union Nat
BY IndexAssumption DEF IndexOf, Messages, NoId

LEMMA RowAtTyped ==
    ASSUME NEW m \in 0..Last, NEW seeded \in BOOLEAN, NEW bound \in BOOLEAN
    PROVE  RowAt(m, seeded, bound) \in Row
<1>1. m \in Messages \union {NoId}
  BY SizeAssumption DEF Messages, NoId
<1> QED BY <1>1, IndexOfTyped DEF RowAt, Row

LEMMA LargestOf ==
    ASSUME NEW a \in Int, NEW b \in Int, a <= b
    PROVE  Max(a..b) = b
<1>1. b \in a..b /\ \A y \in a..b : b >= y
  OBVIOUS
<1>2. Max(a..b) \in a..b /\ \A y \in a..b : Max(a..b) >= y
  BY <1>1, Zenon DEF Max
<1> QED BY <1>1, <1>2

LEMMA LesserOf ==
    ASSUME NEW a \in Int, NEW b \in Int
    PROVE  Min({a, b}) \in {a, b} /\ Min({a, b}) <= b
<1>1. \E x \in {a, b} : \A y \in {a, b} : x <= y
  OBVIOUS
<1>2. Min({a, b}) \in {a, b} /\ \A y \in {a, b} : Min({a, b}) <= y
  BY <1>1, Zenon DEF Min
<1> QED BY <1>2

-----------------------------------------------------------------------------
(* The invariant.  Before mirroring begins nobody drains, and who looks    *)
(* for the end of a session that is already bound is alone, in a           *)
(* transcript still empty.                                                 *)
Seeking == {"seek", "probe", "seed"}
Draining == {"drain", "fetch", "page"}

Beginning ==
    /\ \A p \in Pollers : at[p] \in Seeking =>
          ~prompted /\ \A q \in Pollers \ {p} : at[q] = "idle"
    /\ \A p \in Pollers : at[p] = "seed" => poll[p].end = 0
    /\ ~prompted => length = 0 /\ base = 0 /\ found = 0
    /\ ~row.seeded => /\ row.id = NoId /\ recorded = {}
                      /\ row.bound => ~prompted
                      /\ \A p \in Pollers : at[p] \notin Draining
                      /\ opener \in {"opening", "seeding"}
    /\ opener = "opening" => ~row.bound
    /\ opener = "seeding" /\ prompted => ~row.seeded /\ ~row.bound

(* What is recorded is exactly what lies between the base and the cursor,  *)
(* and each of it is queued or set aside.                                  *)
RowInStep ==
    /\ row.index = IndexOf(row.id)
    /\ {row.id, base, found} \subseteq 0..length
    /\ row.seeded => base <= row.id
    /\ recorded = (base + 1)..row.id
    /\ recorded = queued \union aside /\ queued \intersect aside = {}

(* A draining poller's own cursor stands at a place mirroring has reached, *)
(* and its page begins no further on.                                      *)
StandsAt(p, k) ==
    /\ poll[p].index = IndexOf(k)
    /\ poll[p].id \in {k, NoId}
    /\ poll[p].id = NoId => poll[p].offset <= k
    /\ at[p] = "page" =>
         /\ poll[p].page.from <= k /\ poll[p].page.to <= length
         /\ poll[p].id = NoId => poll[p].page.from = poll[p].offset

PollsInStep ==
    \A p \in Pollers :
        /\ at[p] = "fetch" => poll[p].pages < MaxPages
        /\ at[p] \in {"fetch", "page"} => \E k \in base..row.id : StandsAt(p, k)

Mirrored == TypeOK /\ Beginning /\ RowInStep /\ PollsInStep

LEMMA MirroredInit == Init => Mirrored
<1> SUFFICES ASSUME Init PROVE Mirrored
  OBVIOUS
<1>1. /\ forgotten = {} /\ recorded = {} /\ queued = {} /\ aside = {} /\ base = length
      /\ at = [p \in Pollers |-> "idle"] /\ poll = [p \in Pollers |-> Blank]
      /\ found = 0 /\ fails = 0
  BY DEF Init
<1>2. /\ length \in 0..Last
      /\ \/ row = RowAt(NoId, FALSE, FALSE) /\ opener = "opening" /\ prompted
         \/ /\ row = RowAt(NoId, FALSE, TRUE) /\ opener = "seeding" /\ ~prompted
            /\ length = 0
         \/ row = RowAt(length, TRUE, TRUE) /\ opener = "done" /\ prompted
      /\ prompted \in BOOLEAN
  <2>1. History \subseteq 0..Last /\ 0 \in 0..Last
    BY SizeAssumption
  <2>2. CASE Begin("opened", History, RowAt(NoId, FALSE, FALSE), "opening", TRUE)
    BY <2>1, <2>2 DEF Begin
  <2>3. CASE Begin("created", {0}, RowAt(NoId, FALSE, TRUE), "seeding", FALSE)
    BY <2>1, <2>3 DEF Begin
  <2>4. CASE Begin("mirrored", History, RowAt(length, TRUE, TRUE), "done", TRUE)
    BY <2>1, <2>4 DEF Begin
  <2> QED BY <2>2, <2>3, <2>4 DEF Init
<1>3. row \in Row
  <2>1. NoId \in 0..Last
    BY SizeAssumption DEF NoId
  <2> QED BY <1>2, <2>1, RowAtTyped
<1>4. poll \in [Pollers -> Local]
  BY <1>1, SizeAssumption DEF Blank, Local, NoPage, Page, NoId
<1>6. TypeOK
  <2>1. forgotten \subseteq Messages /\ {recorded, queued, aside} \subseteq SUBSET Messages
    BY <1>1
  <2>2. base \in 0..Last /\ found \in 0..Last /\ fails \in 0..MaxFails
    BY <1>1, <1>2, SizeAssumption
  <2>3. at \in [Pollers -> {"idle", "seek", "probe", "seed", "drain", "fetch", "page"}]
    BY <1>1
  <2>4. opener \in {"opening", "seeding", "binding", "done"}
    BY <1>2
  <2> QED BY <1>2, <1>3, <1>4, <2>1, <2>2, <2>3, <2>4 DEF TypeOK
<1>7. Beginning
  BY <1>1, <1>2 DEF Beginning, Seeking, Draining, RowAt, NoId
<1>8. RowInStep
  BY <1>1, <1>2, SizeAssumption DEF RowInStep, RowAt, NoId
<1>9. PollsInStep
  BY <1>1 DEF PollsInStep
<1> QED BY <1>6, <1>7, <1>8, <1>9 DEF Mirrored

-----------------------------------------------------------------------------
(* A step of one poller that leaves the row and the ledger alone: it keeps *)
(* the invariant when the place it comes to is one it may be at.           *)
Places == {"idle", "seek", "probe", "seed", "drain", "fetch", "page"}

Moves(p, where) ==
    /\ Goto(p, where)
    /\ poll' \in [Pollers -> Local]
    /\ \A q \in Pollers \ {p} : poll'[q] = poll[q]
    /\ UNCHANGED <<serverVars, row, ledgerVars, base, opener, found>>
    /\ fails' \in 0..MaxFails
    /\ prompted' \in BOOLEAN

Allowed(p, where) ==
    /\ \/ prompted' = prompted
       \/ prompted' /\ opener = "done" /\ at[p] = "drain" /\ where \notin Seeking
    /\ at[p] = "idle" => \A q \in Pollers : at[q] \notin Seeking
    /\ where \in Seeking => \/ at[p] \in Seeking
                            \/ ~prompted /\ \A q \in Pollers \ {p} : at[q] = "idle"
    /\ where = "seed" => poll'[p].end = 0
    /\ where \in Draining => row.seeded
    /\ where = "fetch" => poll'[p].pages < MaxPages
    /\ where \in {"fetch", "page"} => \E k \in base..row.id : StandsAt(p, k)'

LEMMA OnePoller ==
    ASSUME Mirrored, NEW p \in Pollers, NEW where \in Places,
           Moves(p, where), Allowed(p, where)
    PROVE  Mirrored'
<1> USE DEF Mirrored, serverVars, ledgerVars, Moves, Allowed, Places
<1>1. at' \in [Pollers -> {"idle", "seek", "probe", "seed", "drain", "fetch", "page"}]
      /\ at'[p] = where /\ \A q \in Pollers \ {p} : at'[q] = at[q]
  BY DEF Goto, TypeOK
<1>2. TypeOK'
  BY <1>1 DEF TypeOK
<1>3. Beginning'
  <2>1. ASSUME NEW q \in Pollers, at'[q] \in Seeking
        PROVE  ~prompted' /\ \A r \in Pollers \ {q} : at'[r] = "idle"
    <3>1. CASE q = p
      BY <1>1, <2>1, <3>1 DEF Beginning, Seeking, Draining
    <3>2. CASE q # p
      <4>1. at[q] \in Seeking /\ at[p] = "idle"
        BY <1>1, <2>1, <3>2 DEF Beginning
      <4> QED BY <4>1
    <3> QED BY <3>1, <3>2
  <2> QED BY <1>1, <2>1 DEF Beginning, Draining
<1>4. RowInStep'
  BY DEF RowInStep
<1>5. PollsInStep'
  BY <1>1 DEF PollsInStep, StandsAt
<1> QED BY <1>2, <1>3, <1>4, <1>5

LEMMA Blanked ==
    Blank \in Local /\ Blank.end = 0
BY SizeAssumption DEF Blank, Local, NoPage, Page, NoId

LEMMA PageTyped ==
    ASSUME TypeOK, NEW m \in 0..length
    PROVE  PageAfter(m) \in Page /\ PageAfter(m).from = m /\ PageAfter(m).to <= length
<1>1. PageLimit \in Nat /\ Last \in Nat /\ length \in 0..Last
  BY SizeAssumption DEF TypeOK
<1> DEFINE end == Min({m + PageLimit, length})
<1>2. end \in 0..Last /\ end <= length
  <2>1. end \in {m + PageLimit, length} /\ end <= length
    BY <1>1, LesserOf
  <2> HIDE DEF end
  <2> QED BY <1>1, <2>1
<1>3. PageAfter(m) = [from |-> m, to |-> end, more |-> end < length]
  BY DEF PageAfter
<1> HIDE DEF end
<1> QED BY <1>1, <1>2, <1>3 DEF Page

LEMMA TickStartKeeps ==
    ASSUME Mirrored, ~MayRace, NEW p \in Pollers, TickStart(p) PROVE Mirrored'
<1> DEFINE where == IF row.seeded THEN "drain" ELSE "seek"
<1>1. /\ where \in {"drain", "seek"}
      /\ where = "drain" => row.seeded
      /\ where = "seek" => ~prompted /\ \A q \in Pollers \ {p} : at[q] = "idle"
  BY DEF Mirrored, Beginning, TypeOK, TickStart, Seeking, Draining
<1>2. Goto(p, where)
  BY DEF TickStart
<1>5. \A q \in Pollers : at[q] \notin Seeking
  BY DEF TickStart, Seeking
<1> HIDE DEF where
<1>3. Moves(p, where)
  BY <1>2 DEF Mirrored, TypeOK, TickStart, Moves, handlerVars
<1>4. Allowed(p, where)
  BY <1>1, <1>5 DEF TickStart, Allowed, Seeking, Draining, handlerVars
<1> QED BY <1>1, <1>3, <1>4, OnePoller DEF Places

LEMMA SeekCheckKeeps ==
    ASSUME Mirrored, NEW p \in Pollers, SeekCheck(p) PROVE Mirrored'
<1> DEFINE where == IF row.seeded THEN "drain" ELSE "probe"
<1>1. where \in {"drain", "probe"} /\ (where = "drain" => row.seeded)
  OBVIOUS
<1>2. Goto(p, where)
  BY DEF SeekCheck
<1> HIDE DEF where
<1>3. Moves(p, where)
  BY <1>2 DEF Mirrored, TypeOK, SeekCheck, Moves, handlerVars
<1>4. Allowed(p, where)
  BY <1>1 DEF SeekCheck, Allowed, Seeking, Draining, handlerVars
<1> QED BY <1>1, <1>3, <1>4, OnePoller DEF Places

LEMMA ProbeKeeps ==
    ASSUME Mirrored, NEW p \in Pollers, Probe(p) PROVE Mirrored'
<1>1. length = 0 /\ at[p] \in Seeking
  BY DEF Mirrored, Beginning, Probe, Seeking
<1>2. poll' \in [Pollers -> Local] /\ poll'[p].end = 0
      /\ \A q \in Pollers \ {p} : poll'[q] = poll[q]
  BY <1>1, SizeAssumption DEF Mirrored, TypeOK, Probe, Local
<1>3. Moves(p, "seed")
  BY <1>2 DEF Mirrored, TypeOK, Probe, Moves, handlerVars
<1>4. Allowed(p, "seed")
  BY <1>1, <1>2 DEF Probe, Allowed, Seeking, Draining, handlerVars
<1> QED BY <1>3, <1>4, OnePoller DEF Places

(* The row a draining poller read a cursor from. *)
LEMMA RowStands ==
    ASSUME Mirrored
    PROVE  /\ row.id \in 0..Last /\ base \in 0..Last /\ length \in 0..Last
           /\ row.index = IndexOf(row.id) /\ row.id <= length
           /\ Cardinality(Passed(row.index)) = row.id
           /\ Passed(row.index) = 1..row.id
           /\ row.seeded => row.id \in base..row.id
<1>1. row.id \in 0..Last /\ base \in 0..Last /\ row.index = IndexOf(row.id)
  BY SizeAssumption DEF Mirrored, TypeOK, RowInStep
<1> QED BY <1>1, PassedIsPrefix, SizeAssumption DEF Mirrored, TypeOK, RowInStep

LEMMA DrainStartKeeps ==
    ASSUME Mirrored, NEW p \in Pollers, DrainStart(p) PROVE Mirrored'
<1> DEFINE start == [Blank EXCEPT !.deliver = row.bound,
                                  !.id = row.id, !.index = row.index,
                                  !.offset = Cardinality(Passed(row.index))]
<1>1. row.seeded /\ at[p] = "drain" /\ row \in Row
  BY DEF Mirrored, TypeOK, Beginning, DrainStart, Draining
<1>2. /\ start \in Local /\ start.pages = 0 /\ start.offset = row.id
      /\ start.id = row.id /\ start.index = row.index
  BY <1>1, RowStands, Blanked DEF Blank, Local, Row
<1>3. poll' = [poll EXCEPT ![p] = start]
  BY DEF DrainStart
<1> HIDE DEF start
<1>4. /\ poll' \in [Pollers -> Local] /\ poll'[p] = start
      /\ \A q \in Pollers \ {p} : poll'[q] = poll[q]
  BY <1>2, <1>3 DEF Mirrored, TypeOK
<1>5. at'[p] = "fetch"
  BY DEF DrainStart, Goto, Mirrored, TypeOK
<1>6. StandsAt(p, row.id)'
  BY <1>2, <1>4, <1>5, RowStands DEF StandsAt, IndexOf, DrainStart
<1>7. /\ (prompted' = prompted) \/ (prompted' /\ opener = "done")
      /\ prompted' \in BOOLEAN
  <2>1. prompted' = (prompted \/ opener = "done") /\ prompted \in BOOLEAN
    BY Zenon DEF DrainStart, Mirrored, TypeOK
  <2> QED BY <2>1, Zenon
<1>8. \E k \in base..row.id : StandsAt(p, k)'
  <2>1. row' = row /\ row.id \in base..row.id
    BY <1>1, RowStands DEF DrainStart
  <2> QED BY <2>1, <1>6
<1>9. Moves(p, "fetch")
  BY <1>4, <1>7 DEF Mirrored, TypeOK, DrainStart, Moves
<1>10. Allowed(p, "fetch")
  BY <1>1, <1>2, <1>4, <1>7, <1>8, SizeAssumption DEF Allowed, Seeking, Draining
<1> QED BY <1>9, <1>10, OnePoller DEF Places

(* Where a page was asked from, or resumed, and what it may hold. *)
LEMMA StandsFirm ==
    ASSUME Mirrored, NEW p \in Pollers, at[p] \in {"fetch", "page"}
    PROVE  /\ poll[p] \in Local /\ row.seeded
           /\ \E k \in base..row.id : StandsAt(p, k) /\ k \in 0..length
BY RowStands DEF Mirrored, TypeOK, PollsInStep, Beginning, Draining

(* A page that begins no further than the cursor is one to stand at. *)
LEMMA ReceiveKeeps ==
    ASSUME Mirrored, NEW p \in Pollers, at[p] = "fetch", NEW k \in base..row.id,
           StandsAt(p, k), NEW m \in 0..k,
           poll[p].id = NoId => m = poll[p].offset,
           Receive(p, PageAfter(m)), prompted' = prompted, fails' = fails
    PROVE  Mirrored'
<1>1. m \in 0..length /\ k \in Int /\ m <= k
  BY RowStands
<1>2. /\ PageAfter(m) \in Page /\ PageAfter(m).from = m
      /\ PageAfter(m).to <= length
  BY <1>1, PageTyped DEF Mirrored
<1>3. poll[p] \in Local /\ row.seeded /\ poll[p].pages < MaxPages
  BY StandsFirm DEF Mirrored, PollsInStep
<1> DEFINE page == PageAfter(m)
           mine == [poll[p] EXCEPT !.page = page, !.pages = poll[p].pages + 1]
<1>4. poll' = [poll EXCEPT ![p] = mine]
  BY DEF Receive, Mirrored, TypeOK
<1>5. /\ mine \in Local /\ mine.page = page /\ mine.id = poll[p].id
      /\ mine.index = poll[p].index /\ mine.offset = poll[p].offset
  <2>1. page \in Page /\ poll[p].pages + 1 \in 0..MaxPages
    BY <1>2, <1>3, SizeAssumption DEF Local
  <2> HIDE DEF page
  <2> QED BY <1>3, <2>1 DEF Local
<1> HIDE DEF mine
<1>6. /\ poll' \in [Pollers -> Local] /\ poll'[p] = mine
      /\ \A q \in Pollers \ {p} : poll'[q] = poll[q]
  BY <1>4, <1>5 DEF Mirrored, TypeOK
<1> HIDE DEF page
<1>7. StandsAt(p, k)'
  BY <1>1, <1>2, <1>5, <1>6 DEF StandsAt, IndexOf, Receive, page, serverVars
<1>8. Moves(p, "page")
  BY <1>6 DEF Mirrored, TypeOK, Receive, Moves, handlerVars
<1>9. Allowed(p, "page")
  BY <1>3, <1>7 DEF Allowed, Receive, Seeking, Draining
<1> QED BY <1>8, <1>9, OnePoller DEF Places

LEMMA FetchKeeps ==
    ASSUME Mirrored, NEW p \in Pollers,
           FetchAfter(p) \/ FetchReplayed(p) \/ FetchByOffset(p)
    PROVE  Mirrored'
<1>1. at[p] = "fetch"
  BY DEF FetchAfter, FetchReplayed, FetchByOffset
<1>2. PICK k \in base..row.id : StandsAt(p, k) /\ k \in 0..length
  BY <1>1, StandsFirm
<1>3. poll[p] \in Local
  BY <1>1, StandsFirm
<1>4. CASE FetchAfter(p)
  <2>1. poll[p].id = k /\ poll[p].id # NoId /\ k \in 0..k
    BY <1>2, <1>4 DEF FetchAfter, StandsAt
  <2>2. Receive(p, PageAfter(k)) /\ prompted' = prompted /\ fails' = fails
    BY <1>4, <2>1, Zenon DEF FetchAfter, Receive, handlerVars
  <2> QED BY <1>1, <1>2, <2>1, <2>2, ReceiveKeeps
<1>5. CASE FetchReplayed(p)
  <2>1. poll[p].id # NoId /\ 0 \in 0..k
    BY <1>2, <1>5 DEF FetchReplayed
  <2>2. Receive(p, PageAfter(0)) /\ prompted' = prompted /\ fails' = fails
    BY <1>5, Zenon DEF FetchReplayed, Receive, handlerVars
  <2> QED BY <1>1, <1>2, <2>1, <2>2, ReceiveKeeps
<1>6. CASE FetchByOffset(p)
  <2>1. poll[p].id = NoId /\ poll[p].offset \in 0..k
    BY <1>2, <1>3, <1>6, SizeAssumption DEF FetchByOffset, StandsAt, Local
  <2>2. Receive(p, PageAfter(poll[p].offset)) /\ prompted' = prompted /\ fails' = fails
    BY <1>6, Zenon DEF FetchByOffset, Receive, handlerVars
  <2> QED BY <1>1, <1>2, <2>1, <2>2, ReceiveKeeps
<1> QED BY <1>4, <1>5, <1>6

LEMMA RepairKeeps ==
    ASSUME Mirrored, NEW p \in Pollers, Repair(p) PROVE Mirrored'
<1>1. at[p] = "fetch" /\ at' = at
  BY DEF Repair
<1>2. PICK k \in base..row.id : StandsAt(p, k) /\ k \in 0..length
  BY <1>1, StandsFirm
<1>3. poll[p] \in Local /\ row.seeded /\ poll[p].pages < MaxPages
  BY <1>1, StandsFirm DEF Mirrored, PollsInStep
<1>4. k \in 0..Last /\ Cardinality(Passed(poll[p].index)) = k
  <2>1. k \in 0..Last
    BY <1>2, RowStands, SizeAssumption
  <2>2. poll[p].index = IndexOf(k)
    BY <1>2 DEF StandsAt
  <2> QED BY <2>1, <2>2, PassedIsPrefix
<1> DEFINE place == Cardinality(Passed(poll[p].index))
           mine == [poll[p] EXCEPT !.id = NoId, !.repaired = TRUE, !.offset = place]
<1>5. poll' = [poll EXCEPT ![p] = mine]
  BY <1>3 DEF Repair, Mirrored, TypeOK, Local
<1>6. /\ mine \in Local /\ mine.id = NoId /\ mine.offset = k
      /\ mine.index = poll[p].index /\ mine.pages = poll[p].pages
  <2>1. place \in 0..Last /\ place = k
    BY <1>4
  <2> HIDE DEF place
  <2> QED BY <1>3, <2>1 DEF Local
<1> HIDE DEF mine
<1>7. /\ poll' \in [Pollers -> Local] /\ poll'[p] = mine
      /\ \A q \in Pollers \ {p} : poll'[q] = poll[q]
  BY <1>5, <1>6 DEF Mirrored, TypeOK
<1>8. StandsAt(p, k)'
  BY <1>1, <1>2, <1>6, <1>7 DEF StandsAt, IndexOf
<1>9. Goto(p, "fetch")
  BY <1>1 DEF Goto, Mirrored, TypeOK
<1>10. Moves(p, "fetch")
  BY <1>7, <1>9 DEF Mirrored, TypeOK, Repair, Moves, handlerVars
<1>11. Allowed(p, "fetch")
  <2>1. prompted' = prompted
    BY DEF Repair, handlerVars
  <2> QED BY <1>1, <1>2, <1>3, <1>6, <1>7, <1>8, <2>1 DEF Allowed, Seeking, Draining
<1> QED BY <1>10, <1>11, OnePoller DEF Places

LEMMA StopKeeps ==
    ASSUME Mirrored, NEW p \in Pollers, at[p] # "idle", Stop(p),
           UNCHANGED <<serverVars, row, ledgerVars, base, handlerVars>>,
           fails' \in 0..MaxFails
    PROVE  Mirrored'
<1>1. poll' \in [Pollers -> Local] /\ \A q \in Pollers \ {p} : poll'[q] = poll[q]
  BY Blanked DEF Stop, Mirrored, TypeOK
<1>2. Moves(p, "idle")
  BY <1>1 DEF Stop, Moves, Mirrored, TypeOK, handlerVars
<1>3. Allowed(p, "idle")
  BY DEF Allowed, Seeking, Draining, handlerVars
<1> QED BY <1>2, <1>3, OnePoller DEF Places

LEMMA FailKeeps ==
    ASSUME Mirrored, NEW p \in Pollers, Fail(p) PROVE Mirrored'
<1>1. fails' \in 0..MaxFails
  BY SizeAssumption DEF Fail, Mirrored, TypeOK
<1> QED BY <1>1, StopKeeps DEF Fail

(* A page past the cursor's place k holds, of what the cursor has not      *)
(* passed, the messages from k + 1 to its end.                             *)
LEMMA FreshIsSuffix ==
    ASSUME Mirrored, NEW p \in Pollers, at[p] = "page",
           NEW k \in base..row.id, StandsAt(p, k), k \in 0..length
    PROVE  /\ Fresh(p) = (k + 1)..poll[p].page.to
           /\ poll[p].page.to \in 0..length /\ poll[p].page.from \in 0..k
           /\ poll[p] \in Local
<1>1. /\ poll[p] \in Local /\ poll[p].page \in Page
      /\ poll[p].page.from <= k /\ poll[p].page.to <= length
      /\ poll[p].index = IndexOf(k)
  BY StandsFirm DEF StandsAt, Local
<1>2. /\ k \in 0..Last /\ poll[p].page.to \in 0..length /\ length \in 0..Last
      /\ poll[p].page.from \in 0..k /\ Last \in Nat
  BY <1>1, RowStands, SizeAssumption DEF Page
<1>3. ASSUME NEW m \in (poll[p].page.from + 1)..poll[p].page.to
      PROVE  Index[m] > poll[p].index <=> m > k
  <2>1. m \in Messages
    BY <1>2 DEF Messages
  <2> QED BY <1>1, <1>2, <2>1, IndexesAscend
<1>4. (k + 1)..poll[p].page.to
        = {m \in (poll[p].page.from + 1)..poll[p].page.to : m > k}
  BY <1>2
<1> QED BY <1>1, <1>2, <1>3, <1>4 DEF Fresh

(* The page is done with; the next one is asked for from where this tick   *)
(* has come to.                                                            *)
LEMMA TurnedTo ==
    ASSUME Mirrored, NEW p \in Pollers, at[p] = "page", NEW locals \in Local,
           locals.pages = poll[p].pages, Turn(p, locals)
    PROVE  /\ poll' \in [Pollers -> Local]
           /\ at' \in [Pollers -> Places]
           /\ \A q \in Pollers \ {p} : poll'[q] = poll[q] /\ at'[q] = at[q]
           /\ \/ at'[p] = "idle" /\ Goto(p, "idle")
              \/ /\ at'[p] = "fetch" /\ Goto(p, "fetch")
                 /\ poll'[p].id = locals.id /\ poll'[p].index = locals.index
                 /\ poll'[p].offset = locals.offset /\ poll'[p].pages < MaxPages
<1>1. at \in [Pollers -> Places] /\ poll \in [Pollers -> Local]
  BY DEF Mirrored, TypeOK, Places
<1>2. [locals EXCEPT !.page = NoPage] \in Local
  <2>1. NoPage \in Page
    BY SizeAssumption DEF Page, NoPage
  <2> QED BY <2>1 DEF Local
<1>3. CASE poll[p].page.more /\ poll[p].pages < MaxPages
  <2>1. Goto(p, "fetch") /\ poll' = [poll EXCEPT ![p] = [locals EXCEPT !.page = NoPage]]
    BY <1>3 DEF Turn
  <2>2. [locals EXCEPT !.page = NoPage].pages = poll[p].pages
    BY DEF Local
  <2> QED BY <1>1, <1>2, <1>3, <2>1, <2>2 DEF Goto, Places, Local
<1>4. CASE ~(poll[p].page.more /\ poll[p].pages < MaxPages)
  <2>1. Goto(p, "idle") /\ poll' = [poll EXCEPT ![p] = Blank]
    BY <1>4 DEF Turn
  <2> QED BY <1>1, <2>1, Blanked DEF Goto, Places
<1> QED BY <1>3, <1>4

LEMMA NothingNewKeeps ==
    ASSUME Mirrored, NEW p \in Pollers, NothingNew(p) PROVE Mirrored'
<1> DEFINE page == poll[p].page
           moved == IF poll[p].id = NoId THEN page.to - page.from ELSE 0
           locals == [poll[p] EXCEPT !.offset = poll[p].offset + moved]
<1>1. at[p] = "page" /\ Fresh(p) = {}
  BY DEF NothingNew
<1>2. PICK k \in base..row.id : StandsAt(p, k) /\ k \in 0..length
  BY <1>1, StandsFirm
<1>3. UNCHANGED <<serverVars, row, ledgerVars, base, handlerVars, fails>>
  BY DEF NothingNew
<1>4. fails' \in 0..MaxFails
  BY <1>3 DEF Mirrored, TypeOK
<1>5. CASE moved = 0
  <2>1. Stop(p)
    BY <1>5 DEF NothingNew
  <2> QED BY <1>1, <1>3, <1>4, <2>1, StopKeeps
<1>6. CASE moved # 0
  <2>1. poll[p].id = NoId /\ page.from = poll[p].offset /\ moved = page.to - page.from
    BY <1>1, <1>2, <1>6 DEF StandsAt
  <2>2. /\ page.to \in 0..length /\ page.from \in 0..k /\ poll[p] \in Local
        /\ (k + 1)..page.to = {}
    BY <1>1, <1>2, FreshIsSuffix
  <2>3. page.to <= k /\ poll[p].offset + moved = page.to
    BY <1>2, <2>1, <2>2
  <2>4. /\ locals \in Local /\ locals.pages = poll[p].pages /\ locals.id = NoId
        /\ locals.index = poll[p].index /\ locals.offset = page.to
    <3>1. page.to \in 0..Last
      <4> HIDE DEF page
      <4> QED BY <2>2, RowStands, SizeAssumption
    <3>2. poll[p].offset + moved \in 0..Last
      BY <2>3, <3>1
    <3> HIDE DEF moved
    <3> QED BY <2>1, <2>2, <2>3, <3>2 DEF Local
  <2>5. Turn(p, locals)
    BY <1>6 DEF NothingNew
  <2> HIDE DEF locals
  <2>6. /\ poll' \in [Pollers -> Local]
        /\ \A q \in Pollers \ {p} : poll'[q] = poll[q]
    BY <1>1, <2>4, <2>5, TurnedTo
  <2>7. CASE at'[p] = "idle" /\ Goto(p, "idle")
    <3>1. Moves(p, "idle")
      BY <1>3, <1>4, <2>6, <2>7 DEF Moves, Mirrored, TypeOK, handlerVars
    <3>2. Allowed(p, "idle")
      BY <1>1, <1>3 DEF Allowed, Seeking, Draining, handlerVars
    <3> QED BY <3>1, <3>2, OnePoller DEF Places
  <2>8. CASE /\ at'[p] = "fetch" /\ Goto(p, "fetch")
             /\ poll'[p].id = locals.id /\ poll'[p].index = locals.index
             /\ poll'[p].offset = locals.offset /\ poll'[p].pages < MaxPages
    <3>1. StandsAt(p, k)'
      BY <1>2, <2>3, <2>4, <2>8 DEF StandsAt, IndexOf
    <3>2. Moves(p, "fetch")
      BY <1>3, <1>4, <2>6, <2>8 DEF Moves, Mirrored, TypeOK, handlerVars
    <3>3. row.seeded /\ prompted' = prompted
      BY <1>1, <1>3, StandsFirm DEF handlerVars
    <3>4. Allowed(p, "fetch")
      BY <1>1, <1>2, <2>8, <3>1, <3>3 DEF Allowed, Seeking, Draining
    <3> QED BY <3>2, <3>4, OnePoller DEF Places
  <2> QED BY <1>1, <2>4, <2>5, <2>7, <2>8, TurnedTo
<1> QED BY <1>5, <1>6

(* What one page does to the row and the ledger, wherever other pollers    *)
(* have meanwhile brought the cursor.                                      *)
LEMMA AdvanceMoves ==
    ASSUME Mirrored, NEW p \in Pollers, AdvanceCursor(p)
    PROVE  /\ row.seeded /\ row' \in Row /\ row'.id \in row.id..length
           /\ row'.id \in Messages /\ row'.index = IndexOf(row'.id)
           /\ row' = [row EXCEPT !.id = row'.id, !.index = row'.index]
           /\ recorded' = (base + 1)..row'.id
           /\ \E new \in SUBSET recorded', sends \in SUBSET recorded' :
                /\ recorded' = recorded \union new /\ sends \subseteq new
                /\ queued' = queued \union sends
                /\ aside' = (aside \union new) \ queued'
<1>1. at[p] = "page" /\ Fresh(p) # {}
  BY DEF AdvanceCursor
<1>2. PICK k \in base..row.id : StandsAt(p, k) /\ k \in 0..length
  BY <1>1, StandsFirm
<1> DEFINE to == poll[p].page.to
           new == Fresh(p)
<1>3. new = (k + 1)..to /\ to \in 0..length /\ row.seeded
  BY <1>1, <1>2, FreshIsSuffix, StandsFirm
<1> HIDE DEF to, new
<1>4. /\ k \in Int /\ to \in 0..Last /\ k + 1 <= to /\ to \in Messages
      /\ length \in 0..Last /\ base \in 0..Last /\ Last \in Nat
  BY <1>1, <1>2, <1>3, RowStands, SizeAssumption DEF Messages, new
<1>5. Max(new) = to
  BY <1>3, <1>4, LargestOf
<1>6. row' = IF Index[to] > row.index THEN MoveTo(to) ELSE row
  BY <1>5 DEF AdvanceCursor, Advanced, new
<1>7. Index[to] > row.index <=> to > row.id
  BY <1>4, RowStands, IndexesAscend
<1>8. row \in Row /\ row.id \in 0..Last
  BY RowStands DEF Mirrored, TypeOK
<1>9. /\ row' \in Row /\ row'.id = (IF to > row.id THEN to ELSE row.id)
      /\ row'.index = IndexOf(row'.id)
      /\ row' = [row EXCEPT !.id = row'.id, !.index = row'.index]
  <2>1. IndexOf(to) \in {-1} \union Nat
    BY <1>4, IndexOfTyped
  <2>2. CASE to > row.id
    <3>1. row' = [row EXCEPT !.id = to, !.index = IndexOf(to), !.seeded = TRUE]
      BY <1>6, <1>7, <2>2 DEF MoveTo
    <3> QED BY <1>3, <1>4, <1>8, <2>1, <2>2, <3>1 DEF Row
  <2>3. CASE ~(to > row.id)
    <3>1. row' = row
      BY <1>6, <1>7, <2>3
    <3> QED BY <1>8, <2>3, <3>1, RowStands DEF Row
  <2> QED BY <2>2, <2>3
<1>10. row'.id \in row.id..length /\ row'.id \in Messages /\ row'.id >= to
  BY <1>3, <1>4, <1>8, <1>9, RowStands DEF Messages
<1>11. recorded' = recorded \union new /\ recorded' = (base + 1)..row'.id
  <2>1. recorded' = recorded \union new /\ recorded = (base + 1)..row.id
    BY DEF AdvanceCursor, new, Mirrored, RowInStep
  <2>2. (base + 1)..row.id \union (k + 1)..to = (base + 1)..row'.id
    BY <1>2, <1>4, <1>8, <1>9 DEF Messages
  <2> QED BY <1>3, <2>1, <2>2
<1>12. \E sends \in SUBSET new :
          queued' = queued \union sends /\ aside' = (aside \union new) \ queued'
  <2>1. PICK shed \in IF MayShed THEN BOOLEAN ELSE {FALSE} :
           LET sends == IF ~poll[p].deliver THEN {}
                        ELSE IF shed THEN new \cap Errors ELSE new
           IN  /\ queued' = queued \union sends
               /\ aside' = (aside \union new) \ queued'
    BY Zenon DEF AdvanceCursor, new
  <2>2. CASE ~poll[p].deliver
    <3>1. queued' = queued \union {} /\ aside' = (aside \union new) \ queued'
      BY <2>1, <2>2, Zenon
    <3>2. {} \in SUBSET new
      OBVIOUS
    <3> QED BY <3>1, <3>2, Zenon
  <2>3. CASE poll[p].deliver /\ shed
    <3>1. /\ queued' = queued \union (new \cap Errors)
          /\ aside' = (aside \union new) \ queued'
      BY <2>1, <2>3, Zenon
    <3> DEFINE errors == new \cap Errors
    <3>2. errors \in SUBSET new
      OBVIOUS
    <3>3. queued' = queued \union errors /\ aside' = (aside \union new) \ queued'
      BY <3>1
    <3> HIDE DEF errors
    <3> QED BY <3>2, <3>3
  <2>4. CASE poll[p].deliver /\ ~shed
    <3>1. queued' = queued \union new /\ aside' = (aside \union new) \ queued'
      BY <2>1, <2>4, Zenon
    <3>2. new \in SUBSET new
      OBVIOUS
    <3> QED BY <3>1, <3>2, Zenon
  <2> QED BY <2>2, <2>3, <2>4
<1> QED BY <1>3, <1>9, <1>10, <1>11, <1>12

LEMMA AdvanceKeeps ==
    ASSUME Mirrored, NEW p \in Pollers, AdvanceCursor(p) PROVE Mirrored'
<1>1. /\ row.seeded /\ row' \in Row /\ row'.id \in row.id..length
      /\ row'.id \in 0..Last /\ row'.index = IndexOf(row'.id) /\ row'.id # NoId
      /\ row' = [row EXCEPT !.id = row'.id, !.index = row'.index]
      /\ recorded' = (base + 1)..row'.id
  BY AdvanceMoves, SizeAssumption DEF Messages, NoId
<1>2. row'.seeded = row.seeded /\ row'.bound = row.bound
  BY <1>1 DEF Mirrored, TypeOK, Row
<1>3. at[p] = "page" /\ UNCHANGED <<serverVars, base, handlerVars, fails>>
  BY DEF AdvanceCursor
<1>4. poll[p] \in Local /\ row.id \in 0..Last /\ base \in 0..Last /\ length \in 0..Last
  BY <1>3, RowStands, StandsFirm
<1> DEFINE locals == [poll[p] EXCEPT !.id = row'.id, !.index = row'.index]
<1>5. /\ locals \in Local /\ locals.pages = poll[p].pages
      /\ locals.id = row'.id /\ locals.index = row'.index
      /\ locals.offset = poll[p].offset
  BY <1>1, <1>4 DEF Local, Row
<1>6. Turn(p, locals)
  BY DEF AdvanceCursor
<1> HIDE DEF locals
<1>7. /\ poll' \in [Pollers -> Local] /\ at' \in [Pollers -> Places]
      /\ \A q \in Pollers \ {p} : poll'[q] = poll[q] /\ at'[q] = at[q]
      /\ \/ at'[p] = "idle"
         \/ /\ at'[p] = "fetch"
            /\ poll'[p].id = locals.id /\ poll'[p].index = locals.index
            /\ poll'[p].offset = locals.offset /\ poll'[p].pages < MaxPages
  BY <1>3, <1>5, <1>6, TurnedTo
<1>8. /\ recorded' = queued' \union aside' /\ queued' \intersect aside' = {}
      /\ recorded' \subseteq Messages
  <2>1. PICK new \in SUBSET recorded', sends \in SUBSET recorded' :
                /\ recorded' = recorded \union new /\ sends \subseteq new
                /\ queued' = queued \union sends
                /\ aside' = (aside \union new) \ queued'
    BY AdvanceMoves
  <2>2. recorded = queued \union aside /\ queued \intersect aside = {}
    BY DEF Mirrored, RowInStep
  <2>3. recorded' \subseteq Messages
    BY <1>1, <1>4, SizeAssumption DEF Messages
  <2> QED BY <2>1, <2>2, <2>3
<1>9. TypeOK'
  <2>1. {recorded, queued, aside}' \subseteq SUBSET Messages
    BY <1>8
  <2>2. /\ length' = length /\ forgotten' = forgotten /\ base' = base /\ opener' = opener
        /\ found' = found /\ prompted' = prompted /\ fails' = fails
    BY <1>3 DEF serverVars, handlerVars
  <2> QED BY <1>1, <1>7, <2>1, <2>2 DEF Mirrored, TypeOK, Places
<1>10. Beginning'
  <2>1. row'.seeded /\ row'.bound = row.bound
    BY <1>1, <1>2
  <2>2. \A q \in Pollers : at[q] \notin Seeking
    BY <1>3 DEF Mirrored, Beginning, Seeking
  <2>3. \A q \in Pollers : at'[q] \notin Seeking
    BY <1>7, <2>2 DEF Seeking
  <2>4. /\ opener' = "opening" => ~row'.bound
        /\ ~(opener' = "seeding" /\ prompted')
    <3>1. opener = "opening" => ~row.bound
      BY DEF Mirrored, Beginning
    <3>2. ~(opener = "seeding" /\ prompted)
      BY <1>1 DEF Mirrored, Beginning
    <3>3. opener' = opener /\ prompted' = prompted
      BY <1>3 DEF handlerVars
    <3> QED BY <2>1, <3>1, <3>2, <3>3, Zenon
  <2>5. ~prompted' => length' = 0 /\ base' = 0 /\ found' = 0
    <3>1. ~prompted => length = 0 /\ base = 0 /\ found = 0
      BY DEF Mirrored, Beginning
    <3> QED BY <1>3, <3>1, Zenon DEF handlerVars, serverVars
  <2> QED BY <2>1, <2>3, <2>4, <2>5 DEF Beginning, Seeking
<1>11. RowInStep'
  <2>1. {row'.id, base, found} \subseteq 0..length /\ base <= row'.id
    BY <1>1, <1>4 DEF Mirrored, RowInStep
  <2> QED BY <1>1, <1>3, <1>8, <2>1 DEF RowInStep, IndexOf, serverVars, handlerVars
<1>12. PollsInStep'
  <2>1. base' = base /\ length' = length
    BY <1>3 DEF serverVars
  <2>2. ASSUME NEW q \in Pollers, at'[q] \in {"fetch", "page"}
        PROVE  \E k \in base..row'.id : StandsAt(q, k)'
    <3>1. CASE q = p
      <4>1. PICK k \in base..row'.id : k = row'.id
        BY <1>1, <1>4 DEF Mirrored, RowInStep
      <4>2. StandsAt(p, k)'
        <5>1. poll'[p].id = k /\ poll'[p].index = IndexOf(k) /\ at'[p] = "fetch"
          BY <1>1, <1>5, <1>7, <2>2, <3>1, <4>1
        <5>2. k # NoId
          BY <1>1, <4>1
        <5> QED BY <5>1, <5>2 DEF StandsAt, IndexOf
      <4> QED BY <3>1, <4>1, <4>2
    <3>2. CASE q # p
      <4>1. at[q] = at'[q] /\ poll'[q] = poll[q]
        BY <1>7, <3>2
      <4>2. PICK k \in base..row.id : StandsAt(q, k)
        BY <2>2, <4>1 DEF Mirrored, PollsInStep
      <4>3. StandsAt(q, k)'
        BY <2>1, <4>1, <4>2 DEF StandsAt, IndexOf
      <4>4. k \in base..row'.id
        BY <1>1, <1>4, <4>2
      <4> QED BY <4>3, <4>4
    <3> QED BY <3>1, <3>2
  <2>3. \A q \in Pollers : at'[q] = "fetch" => poll'[q].pages < MaxPages
    BY <1>7 DEF Mirrored, PollsInStep
  <2> QED BY <2>1, <2>2, <2>3 DEF PollsInStep
<1> QED BY <1>9, <1>10, <1>11, <1>12 DEF Mirrored

(* Seeding, by the poller or by the handler.  Either the cursor is seeded  *)
(* at the end of the transcript as it was found, and nothing was recorded  *)
(* before, or it was seeded at the start of a transcript still empty.      *)
Seeds(m) ==
    /\ SeekTo(m)
    /\ m \in 0..length
    /\ row.seeded => m = 0 /\ row.id = 0 /\ base = 0

LEMMA SeedTyped ==
    ASSUME Mirrored, NEW m \in 0..Last, Seeds(m)
    PROVE  /\ row' \in Row /\ row'.id = m /\ row'.index = IndexOf(m) /\ row'.seeded
           /\ row'.bound = row.bound /\ row'.dead = row.dead /\ base' = m
           /\ recorded = {} /\ row.id = 0
           /\ row.seeded => row.index = IndexOf(m)
<1>1. row' = [row EXCEPT !.id = m, !.index = IndexOf(m), !.seeded = TRUE]
  BY DEF Seeds, SeekTo, MoveTo
<1>2. IndexOf(m) \in {-1} \union Nat /\ m \in Messages \union {NoId}
  BY IndexOfTyped, SizeAssumption DEF Messages, NoId
<1>3. row \in Row
  BY DEF Mirrored, TypeOK
<1>4. row' \in Row /\ row'.id = m /\ row'.index = IndexOf(m) /\ row'.seeded
      /\ row'.bound = row.bound /\ row'.dead = row.dead
  BY <1>1, <1>2, <1>3 DEF Row
<1>5. base' = m
  BY DEF Seeds, SeekTo
<1>6. recorded = {} /\ row.id = 0
  BY DEF Mirrored, Beginning, RowInStep, Seeds, NoId
<1>7. row.seeded => row.index = IndexOf(m)
  BY DEF Mirrored, RowInStep, Seeds
<1> QED BY <1>4, <1>5, <1>6, <1>7

LEMMA SeedSeeds ==
    ASSUME Mirrored, NEW p \in Pollers, Seed(p)
    PROVE  Seeds(poll[p].end) /\ poll[p].end \in 0..Last /\ ~prompted /\ length = 0
           /\ \A q \in Pollers \ {p} : at[q] = "idle"
<1>1. at[p] = "seed" /\ SeekTo(poll[p].end)
  BY DEF Seed
<1>2. poll[p].end = 0 /\ ~prompted /\ \A q \in Pollers \ {p} : at[q] = "idle"
  BY <1>1 DEF Mirrored, Beginning, Seeking
<1>3. length = 0 /\ base = 0
  BY <1>2 DEF Mirrored, Beginning
<1>4. row.id = 0
  BY <1>3 DEF Mirrored, RowInStep
<1> QED BY <1>1, <1>2, <1>3, <1>4, SizeAssumption DEF Seeds

LEMMA SeedKeeps ==
    ASSUME Mirrored, NEW p \in Pollers, Seed(p) PROVE Mirrored'
<1> DEFINE m == poll[p].end
<1>1. Seeds(m) /\ m \in 0..Last /\ ~prompted /\ length = 0
      /\ \A q \in Pollers \ {p} : at[q] = "idle"
  BY SeedSeeds
<1>2. m = 0
  BY <1>1 DEF Seeds
<1> HIDE DEF m
<1>3. /\ row' \in Row /\ row'.id = 0 /\ row'.index = IndexOf(0) /\ row'.seeded
      /\ row'.bound = row.bound /\ base' = 0 /\ recorded = {}
  BY <1>1, <1>2, SeedTyped
<1>4. /\ length' = length /\ forgotten' = forgotten /\ recorded' = recorded
      /\ queued' = queued /\ aside' = aside /\ poll' = poll /\ opener' = opener
      /\ found' = found /\ prompted' = prompted /\ fails' = fails
  BY DEF Seed, serverVars, ledgerVars, handlerVars
<1>5. /\ at' \in [Pollers -> {"idle", "seek", "probe", "seed", "drain", "fetch", "page"}]
      /\ \A q \in Pollers : at'[q] \in {"idle", "drain"}
  BY <1>1 DEF Seed, Goto, Mirrored, TypeOK
<1>6. TypeOK'
  BY <1>3, <1>4, <1>5, SizeAssumption DEF Mirrored, TypeOK
<1>7. Beginning'
  <2>1. ~prompted' => length' = 0 /\ base' = 0 /\ found' = 0
    BY <1>1, <1>3, <1>4 DEF Mirrored, Beginning
  <2>2. opener' = "opening" => ~row'.bound
    <3>1. opener = "opening" => ~row.bound
      BY DEF Mirrored, Beginning
    <3> QED BY <1>3, <1>4, <3>1, Zenon
  <2>3. ~prompted'
    BY <1>1, <1>4, Zenon
  <2> QED BY <1>3, <1>5, <2>1, <2>2, <2>3 DEF Beginning, Seeking
<1>8. RowInStep'
  <2>1. recorded' = 1..0 /\ {0, found'} \subseteq 0..length'
    BY <1>1, <1>3, <1>4 DEF Mirrored, RowInStep
  <2> QED BY <1>3, <1>4, <2>1 DEF Mirrored, RowInStep, IndexOf
<1>9. PollsInStep'
  BY <1>5 DEF PollsInStep
<1> QED BY <1>6, <1>7, <1>8, <1>9 DEF Mirrored

LEMMA OpenSeedSeeds ==
    ASSUME Mirrored, OpenSeed
    PROVE  Seeds(found) /\ found \in 0..Last /\ (~prompted => length = 0 /\ found = 0)
           /\ (prompted => ~row.seeded /\ ~row.bound)
<1>1. opener = "seeding" /\ SeekTo(found) /\ found \in 0..length /\ found \in 0..Last
  BY DEF OpenSeed, Mirrored, RowInStep, TypeOK
<1>2. /\ ~prompted => length = 0 /\ base = 0 /\ found = 0
      /\ prompted => ~row.seeded /\ ~row.bound
  BY <1>1 DEF Mirrored, Beginning
<1>3. row.seeded => found = 0 /\ base = 0 /\ row.id = 0
  BY <1>2 DEF Mirrored, RowInStep
<1> QED BY <1>1, <1>2, <1>3 DEF Seeds

LEMMA OpenSeedKeeps == Mirrored /\ OpenSeed => Mirrored'
<1> SUFFICES ASSUME Mirrored, OpenSeed PROVE Mirrored'
  OBVIOUS
<1>1. Seeds(found) /\ found \in 0..Last /\ (~prompted => length = 0 /\ found = 0)
           /\ (prompted => ~row.seeded /\ ~row.bound)
  BY OpenSeedSeeds
<1>2. /\ row' \in Row /\ row'.id = found /\ row'.index = IndexOf(found) /\ row'.seeded
      /\ row'.bound = row.bound /\ base' = found /\ recorded = {} /\ row.id = 0
      /\ row.seeded => found = 0 /\ base = 0
  BY <1>1, SeedTyped DEF Seeds
<1>3. /\ length' = length /\ forgotten' = forgotten /\ recorded' = recorded
      /\ queued' = queued /\ aside' = aside /\ poll' = poll /\ at' = at
      /\ opener' = "binding"
      /\ found' = found /\ prompted' = prompted /\ fails' = fails
  BY DEF OpenSeed, serverVars, ledgerVars
<1>4. TypeOK'
  BY <1>1, <1>2, <1>3 DEF Mirrored, TypeOK
<1>5. Beginning'
  <2>1. ~prompted' => length' = 0 /\ base' = 0 /\ found' = 0
    BY <1>1, <1>2, <1>3
  <2> QED BY <1>2, <1>3, <2>1 DEF Mirrored, Beginning, Seeking
<1>6. RowInStep'
  <2>1. recorded' = (found + 1)..found /\ found \in 0..length'
    BY <1>1, <1>2, <1>3 DEF Seeds
  <2> QED BY <1>2, <1>3, <2>1 DEF Mirrored, RowInStep, IndexOf
<1>7. PollsInStep'
  <2>1. ASSUME NEW q \in Pollers, at[q] \in {"fetch", "page"}
        PROVE  row.seeded /\ base = 0 /\ row.id = 0 /\ found = 0
    BY <1>2, <2>1 DEF Mirrored, Beginning, Draining
  <2> QED BY <1>2, <1>3, <2>1 DEF Mirrored, PollsInStep, StandsAt, IndexOf
<1> QED BY <1>4, <1>5, <1>6, <1>7 DEF Mirrored

(* A step that binds or unbinds the row, and lets a poller stop.           *)
Rebinds ==
    /\ UNCHANGED <<serverVars, ledgerVars, base, found, prompted, fails>>
    /\ row' \in Row
    /\ row'.id = row.id /\ row'.index = row.index /\ row'.seeded = row.seeded
    /\ at' \in [Pollers -> Places]
    /\ poll' \in [Pollers -> Local]
    /\ \A q \in Pollers : at'[q] = "idle" \/ (at'[q] = at[q] /\ poll'[q] = poll[q])
    /\ opener' \in {"opening", "seeding", "binding", "done"}
    /\ row'.bound => row.bound \/ row.seeded
    /\ ~row.seeded => opener' \in {"opening", "seeding"}
    /\ opener' = "opening" => ~row'.bound
    /\ opener' = "seeding" => opener = "seeding" /\ (row'.bound => row.bound)

LEMMA BindingKeeps ==
    ASSUME Mirrored, Rebinds PROVE Mirrored'
<1>1. /\ length' = length /\ forgotten' = forgotten /\ recorded' = recorded
      /\ queued' = queued /\ aside' = aside /\ base' = base
      /\ found' = found /\ prompted' = prompted /\ fails' = fails
      /\ row' \in Row
      /\ row'.id = row.id /\ row'.index = row.index /\ row'.seeded = row.seeded
      /\ at' \in [Pollers -> Places] /\ poll' \in [Pollers -> Local]
      /\ opener' \in {"opening", "seeding", "binding", "done"}
  BY DEF Rebinds, serverVars, ledgerVars
<1>2. /\ row'.bound => row.bound \/ row.seeded
      /\ ~row.seeded => opener' \in {"opening", "seeding"}
      /\ opener' = "opening" => ~row'.bound
      /\ opener' = "seeding" => opener = "seeding" /\ (row'.bound => row.bound)
  BY Zenon DEF Rebinds
<1>3. \A q \in Pollers : at'[q] = "idle" \/ (at'[q] = at[q] /\ poll'[q] = poll[q])
  BY DEF Rebinds
<1>4. TypeOK'
  BY <1>1 DEF Mirrored, TypeOK, Places
<1>5. Beginning'
  <2>1. ASSUME NEW q \in Pollers, at'[q] \in Seeking
        PROVE  /\ ~prompted' /\ \A r \in Pollers \ {q} : at'[r] = "idle"
               /\ at'[q] = "seed" => poll'[q].end = 0
    <3>1. at[q] \in Seeking /\ at'[q] = at[q] /\ poll'[q] = poll[q]
      BY <1>3, <2>1 DEF Seeking
    <3>2. ~prompted /\ \A r \in Pollers \ {q} : at[r] = "idle"
      BY <3>1 DEF Mirrored, Beginning
    <3>3. at[q] = "seed" => poll[q].end = 0
      BY DEF Mirrored, Beginning
    <3>4. ~prompted'
      BY <1>1, <3>2, Zenon
    <3>5. \A r \in Pollers \ {q} : at'[r] = "idle"
      BY <1>3, <3>2
    <3> QED BY <3>1, <3>3, <3>4, <3>5
  <2>2. ~prompted' => length' = 0 /\ base' = 0 /\ found' = 0
    <3>1. ~prompted => length = 0 /\ base = 0 /\ found = 0
      BY DEF Mirrored, Beginning
    <3> QED BY <1>1, <3>1, Zenon
  <2>3. ~row'.seeded => /\ row'.id = NoId /\ recorded' = {}
                        /\ row'.bound => ~prompted'
                        /\ \A q \in Pollers : at'[q] \notin Draining
                        /\ opener' \in {"opening", "seeding"}
    <3>1. CASE ~row.seeded
      <4>1. /\ row.id = NoId /\ recorded = {}
            /\ row.bound => ~prompted
            /\ \A q \in Pollers : at[q] \notin Draining
        BY <3>1 DEF Mirrored, Beginning
      <4>2. row'.bound => ~prompted'
        BY <1>1, <1>2, <3>1, <4>1, Zenon
      <4>3. \A q \in Pollers : at'[q] \notin Draining
        BY <1>3, <4>1 DEF Draining
      <4>4. opener' \in {"opening", "seeding"}
        BY <1>2, <3>1
      <4> QED BY <1>1, <4>1, <4>2, <4>3, <4>4
    <3>2. CASE row.seeded
      BY <1>1, <3>2, Zenon
    <3> QED BY <3>1, <3>2
  <2>4. opener' = "seeding" /\ prompted' => ~row'.seeded /\ ~row'.bound
    <3>1. opener = "seeding" /\ prompted => ~row.seeded /\ ~row.bound
      BY DEF Mirrored, Beginning
    <3> QED BY <1>1, <1>2, <3>1, Zenon
  <2>5. \A q \in Pollers : at'[q] = "seed" => poll'[q].end = 0
    BY <2>1 DEF Seeking
  <2> QED BY <1>2, <2>1, <2>2, <2>3, <2>4, <2>5 DEF Beginning
<1>6. RowInStep'
  <2>1. row.seeded => base <= row.id
    BY DEF Mirrored, RowInStep
  <2>2. row'.seeded => base' <= row'.id
    BY <1>1, <2>1, Zenon
  <2> QED BY <1>1, <2>2 DEF Mirrored, RowInStep, IndexOf
<1>7. PollsInStep'
  <2>1. ASSUME NEW q \in Pollers, at'[q] \in {"fetch", "page"}
        PROVE  /\ at'[q] = "fetch" => poll'[q].pages < MaxPages
               /\ \E k \in base'..row'.id : StandsAt(q, k)'
    <3>1. at'[q] = at[q] /\ poll'[q] = poll[q]
      BY <1>3, <2>1
    <3>2. PICK k \in base..row.id : StandsAt(q, k)
      BY <2>1, <3>1 DEF Mirrored, PollsInStep
    <3>3. StandsAt(q, k)'
      BY <1>1, <3>1, <3>2 DEF StandsAt, IndexOf
    <3> QED BY <1>1, <2>1, <3>1, <3>2, <3>3 DEF Mirrored, PollsInStep
  <2> QED BY <2>1 DEF PollsInStep
<1> QED BY <1>4, <1>5, <1>6, <1>7 DEF Mirrored

LEMMA GiveUpKeeps ==
    ASSUME Mirrored, NEW p \in Pollers, GiveUp(p) PROVE Mirrored'
<1>1. /\ row' = [row EXCEPT !.bound = FALSE, !.dead = TRUE] /\ row \in Row
      /\ at' = [at EXCEPT ![p] = "idle"] /\ poll' = [poll EXCEPT ![p] = Blank]
      /\ at[p] = "fetch" /\ at \in [Pollers -> Places] /\ poll \in [Pollers -> Local]
      /\ opener' = opener /\ opener \in {"opening", "seeding", "binding", "done"}
      /\ UNCHANGED <<serverVars, ledgerVars, base, found, prompted, fails>>
  BY DEF GiveUp, Stop, Goto, Mirrored, TypeOK, Places, handlerVars
<1>2. row.seeded
  BY <1>1, StandsFirm
<1>3. /\ row' \in Row /\ row'.id = row.id /\ row'.index = row.index
      /\ row'.seeded = row.seeded /\ ~row'.bound
  BY <1>1 DEF Row
<1>4. /\ at' \in [Pollers -> Places] /\ poll' \in [Pollers -> Local]
      /\ \A q \in Pollers : at'[q] = "idle" \/ (at'[q] = at[q] /\ poll'[q] = poll[q])
  BY <1>1, Blanked DEF Places
<1> QED BY <1>1, <1>2, <1>3, <1>4, BindingKeeps DEF Rebinds

LEMMA ReopenKeeps == Mirrored /\ Reopen => Mirrored'
<1> SUFFICES ASSUME Mirrored, Reopen PROVE Mirrored'
  OBVIOUS
<1>1. /\ row' = [row EXCEPT !.bound = FALSE] /\ row \in Row
      /\ opener = "done" /\ opener' = "opening" /\ at' = at /\ poll' = poll
      /\ at \in [Pollers -> Places] /\ poll \in [Pollers -> Local]
      /\ UNCHANGED <<serverVars, ledgerVars, base, found, prompted, fails>>
  BY DEF Reopen, Mirrored, TypeOK, Places
<1>2. row' \in Row /\ row'.id = row.id /\ row'.index = row.index
      /\ row'.seeded = row.seeded /\ ~row'.bound
  BY <1>1 DEF Row
<1> QED BY <1>1, <1>2, BindingKeeps DEF Rebinds

LEMMA OpenBindKeeps == Mirrored /\ OpenBind => Mirrored'
<1> SUFFICES ASSUME Mirrored, OpenBind PROVE Mirrored'
  OBVIOUS
<1>1. /\ row' = [row EXCEPT !.bound = TRUE] /\ row \in Row
      /\ opener = "binding" /\ opener' = "done" /\ at' = at /\ poll' = poll
      /\ at \in [Pollers -> Places] /\ poll \in [Pollers -> Local]
      /\ UNCHANGED <<serverVars, ledgerVars, base, found, prompted, fails>>
  BY DEF OpenBind, Mirrored, TypeOK, Places
<1>2. row' \in Row /\ row'.id = row.id /\ row'.index = row.index
      /\ row'.seeded = row.seeded
  BY <1>1 DEF Row
<1>3. row.seeded
  BY <1>1 DEF Mirrored, Beginning
<1> QED BY <1>1, <1>2, <1>3, BindingKeeps DEF Rebinds

LEMMA OpenProbeKeeps == Mirrored /\ OpenProbe => Mirrored'
<1> SUFFICES ASSUME Mirrored, OpenProbe PROVE Mirrored'
  OBVIOUS
<1>1. /\ length' = length /\ forgotten' = forgotten /\ recorded' = recorded
      /\ queued' = queued /\ aside' = aside /\ base' = base /\ row' = row
      /\ found' = length /\ prompted' = prompted /\ fails' = fails
      /\ at' = at /\ poll' = poll /\ opener = "opening"
      /\ opener' = IF row.seeded THEN "binding" ELSE "seeding"
  BY DEF OpenProbe, serverVars, ledgerVars
<1>2. TypeOK'
  BY <1>1 DEF Mirrored, TypeOK
<1>3. Beginning'
  <2>1. opener' = "seeding" => ~row.seeded /\ ~row.bound
    BY <1>1 DEF Mirrored, Beginning
  <2>2. ~prompted' => length' = 0 /\ base' = 0 /\ found' = 0
    <3>1. ~prompted => length = 0 /\ base = 0
      BY DEF Mirrored, Beginning
    <3> QED BY <1>1, <3>1, Zenon
  <2> QED BY <1>1, <2>1, <2>2 DEF Mirrored, Beginning, Seeking
<1>4. RowInStep'
  BY <1>1 DEF Mirrored, RowInStep, IndexOf, TypeOK
<1>5. PollsInStep'
  BY <1>1 DEF Mirrored, PollsInStep, StandsAt, IndexOf
<1> QED BY <1>2, <1>3, <1>4, <1>5 DEF Mirrored

LEMMA ServerKeeps == Mirrored /\ (Say \/ Forget) => Mirrored'
<1> SUFFICES ASSUME Mirrored, Say \/ Forget PROVE Mirrored'
  OBVIOUS
<1>1. /\ recorded' = recorded
      /\ queued' = queued /\ aside' = aside /\ base' = base /\ row' = row
      /\ found' = found /\ prompted' = prompted /\ fails' = fails
      /\ at' = at /\ poll' = poll /\ opener' = opener
  BY DEF Say, Forget, ledgerVars, handlerVars
<1>2. /\ length' \in 0..Last /\ length \in 0..Last /\ length <= length'
      /\ forgotten' \subseteq Messages
      /\ ~prompted => length' = length
  <2>1. length \in 0..Last /\ forgotten \subseteq Messages /\ Last \in Nat
    BY SizeAssumption DEF Mirrored, TypeOK
  <2>2. CASE Say
    BY <2>1, <2>2 DEF Say
  <2>3. CASE Forget
    <3>1. PICK m \in 1..length : forgotten' = forgotten \union {m}
      BY <2>3 DEF Forget
    <3>2. length' = length
      BY <2>3 DEF Forget
    <3>3. m \in Messages
      BY <2>1, <3>1 DEF Messages
    <3>4. forgotten' \subseteq Messages
      BY <2>1, <3>1, <3>3
    <3> QED BY <2>1, <3>2, <3>4
  <2> QED BY <2>2, <2>3
<1>3. TypeOK'
  BY <1>1, <1>2 DEF Mirrored, TypeOK
<1>4. Beginning'
  <2>1. ~prompted' => length' = 0 /\ base' = 0 /\ found' = 0
    <3>1. ~prompted => length = 0 /\ base = 0 /\ found = 0
      BY DEF Mirrored, Beginning
    <3> QED BY <1>1, <1>2, <3>1, Zenon
  <2> QED BY <1>1, <2>1 DEF Mirrored, Beginning, Seeking
<1>5. RowInStep'
  BY <1>1, <1>2 DEF Mirrored, RowInStep, IndexOf, TypeOK
<1>6. PollsInStep'
  <2>1. ASSUME NEW p \in Pollers, NEW k \in base..row.id, StandsAt(p, k)
        PROVE  StandsAt(p, k)'
    <3>1. at[p] = "page" => poll[p].page.to \in Int
      BY SizeAssumption DEF Mirrored, TypeOK, Local, Page
    <3> QED BY <1>1, <1>2, <2>1, <3>1 DEF StandsAt, IndexOf
  <2> QED BY <1>1, <2>1 DEF Mirrored, PollsInStep
<1> QED BY <1>3, <1>4, <1>5, <1>6 DEF Mirrored

LEMMA IdleKeeps == Mirrored /\ UNCHANGED vars => Mirrored'
BY DEF Mirrored, TypeOK, Beginning, RowInStep, PollsInStep, StandsAt, IndexOf,
       vars, serverVars, ledgerVars, handlerVars

LEMMA MirroredStep ==
    ASSUME ~MayRace, Mirrored, [Next]_vars PROVE Mirrored'
<1>1. ASSUME NEW p \in Pollers, Poll(p) PROVE Mirrored'
  BY <1>1, TickStartKeeps, SeekCheckKeeps, ProbeKeeps, SeedKeeps, DrainStartKeeps,
     FetchKeeps, RepairKeeps, GiveUpKeeps, AdvanceKeeps, NothingNewKeeps DEF Poll
<1> QED BY <1>1, ServerKeeps, ReopenKeeps, OpenProbeKeeps, OpenSeedKeeps,
           OpenBindKeeps, FailKeeps, IdleKeeps DEF Next, Open

THEOREM AlwaysMirrored == ASSUME ~MayRace PROVE Spec => []Mirrored
BY MirroredInit, MirroredStep, PTL DEF Spec

(* However many pollers drain one session, fail, repair a cursor whose id  *)
(* is forgotten, or are handed the transcript over again, and whenever the *)
(* session is opened anew, a message is recorded when the cursor passes it *)
(* and one from before mirroring began never is.                           *)
THEOREM NothingIsLost == ASSUME ~MayRace PROVE SideBySide => []NothingLostNothingTwice
<1>1. Mirrored => NothingLostNothingTwice
  <2> SUFFICES ASSUME Mirrored PROVE NothingLostNothingTwice
    OBVIOUS
  <2>1. recorded = (base + 1)..row.id
    BY DEF Mirrored, RowInStep
  <2>2. base \in Int /\ row.id \in Int /\ Passed(row.index) = 1..row.id
    BY RowStands
  <2> QED BY <2>1, <2>2 DEF NothingLostNothingTwice, NothingSkipped, NothingReplayed
<1> QED BY <1>1, TranscriptSteps, AlwaysMirrored, PTL

-----------------------------------------------------------------------------
(* The cursor implements the mirror: what was reached is the row's place,  *)
(* a page keeps what lies past it, and may bring back some that were set   *)
(* aside.                                                                  *)
Place == Cardinality(Passed(row.index))

LEMMA ChatInit == Init => Chat!Init
<1> SUFFICES ASSUME Init PROVE Chat!Init
  OBVIOUS
<1>1. Mirrored
  BY MirroredInit
<1>2. Place = row.id /\ length \in 0..Last
  BY <1>1, RowStands DEF Place
<1>3. queued = {} /\ aside = {} /\ row.seeded \in BOOLEAN
  BY <1>1 DEF Init, Mirrored, TypeOK, Row
<1>4. row.id = IF row.seeded THEN length ELSE 0
  <2>1. CASE Begin("opened", History, RowAt(NoId, FALSE, FALSE), "opening", TRUE)
    BY <2>1 DEF Begin, RowAt, NoId
  <2>2. CASE Begin("created", {0}, RowAt(NoId, FALSE, TRUE), "seeding", FALSE)
    BY <2>2 DEF Begin, RowAt, NoId
  <2>3. CASE Begin("mirrored", History, RowAt(length, TRUE, TRUE), "done", TRUE)
    BY <2>3 DEF Begin, RowAt
  <2> QED BY <2>1, <2>2, <2>3 DEF Init
<1> QED BY <1>2, <1>3, <1>4 DEF Chat!Init, Place

LEMMA ChatSays == ASSUME Mirrored, Say PROVE Chat!Say
BY DEF Say, Chat!Say, ledgerVars

(* Seeding is where mirroring begins, or changes nothing. *)
LEMMA ChatBegins ==
    ASSUME Mirrored, NEW m \in 0..Last, Seeds(m),
           length' = length, queued' = queued, aside' = aside
    PROVE  Chat!Begin \/ UNCHANGED Chat!vars
<1>1. /\ row'.index = IndexOf(m) /\ row'.seeded
      /\ row.seeded => row.index = IndexOf(m)
  BY SeedTyped
<1>2. Cardinality(Passed(row'.index)) = m /\ m \in 0..length
  BY <1>1, PassedIsPrefix DEF Seeds
<1>3. CASE ~row.seeded
  <2>1. row'.seeded = TRUE
    <3>1. row' = MoveTo(m) /\ row \in Row
      BY DEF Seeds, SeekTo, Mirrored, TypeOK
    <3> QED BY <3>1 DEF MoveTo, Row
  <2> QED BY <1>2, <1>3, <2>1 DEF Chat!Begin, Passed
<1>4. CASE row.seeded
  <2>1. row'.index = row.index
    BY <1>1, <1>4
  <2>2. row'.seeded = row.seeded
    <3>1. row' = MoveTo(m) /\ row \in Row
      BY DEF Seeds, SeekTo, Mirrored, TypeOK
    <3> QED BY <1>4, <3>1 DEF MoveTo, Row
  <2> QED BY <2>1, <2>2 DEF Chat!vars, Passed
<1> QED BY <1>3, <1>4

LEMMA ChatKeeps ==
    ASSUME Mirrored, NEW p \in Pollers, AdvanceCursor(p)
    PROVE  Chat!Keep
<1>1. /\ row.seeded /\ row'.id \in row.id..length /\ row'.id \in 0..Last
      /\ row'.index = IndexOf(row'.id) /\ recorded' = (base + 1)..row'.id
      /\ row' = [row EXCEPT !.id = row'.id, !.index = row'.index]
  BY AdvanceMoves, SizeAssumption DEF Messages
<1>2. PICK upto \in row.id..length : upto = row'.id
  BY <1>1
<1>3. Cardinality(Passed(row'.index)) = upto /\ Place = row.id
  BY <1>1, <1>2, PassedIsPrefix, RowStands DEF Place
<1>4. row'.seeded = row.seeded /\ length' = length
  BY <1>1 DEF Mirrored, TypeOK, Row, AdvanceCursor, serverVars
<1>5. PICK new \in SUBSET recorded', sends \in SUBSET recorded' :
         /\ recorded' = recorded \union new /\ sends \subseteq new
         /\ queued' = queued \union sends
         /\ aside' = (aside \union new) \ queued'
  BY AdvanceMoves
<1> DEFINE ahead == (row.id + 1)..upto
           back == sends \intersect aside
           left == ahead \ sends
<1>6. /\ recorded = queued \union aside /\ queued \intersect aside = {}
      /\ recorded = (base + 1)..row.id
      /\ row.id \in base..upto /\ base \in Int /\ upto \in Int /\ row.id \in Int
  BY <1>1, <1>2, RowStands DEF Mirrored, RowInStep
<1>7. recorded' = recorded \union ahead /\ recorded \intersect ahead = {}
  <2>1. (base + 1)..upto = ((base + 1)..row.id) \union ((row.id + 1)..upto)
    BY <1>6
  <2>2. ((base + 1)..row.id) \intersect ((row.id + 1)..upto) = {}
    BY <1>6
  <2> QED BY <1>1, <1>2, <1>6, <2>1, <2>2
<1> HIDE DEF ahead
<1>8. back \in SUBSET aside /\ left \in SUBSET ahead
  OBVIOUS
<1>9. queued' = queued \union back \union (ahead \ left)
  BY <1>5, <1>6, <1>7
<1>10. aside' = (aside \ back) \union left
  BY <1>5, <1>6, <1>7
<1> HIDE DEF back, left
<1>11. \E away \in SUBSET ahead :
          /\ queued' = queued \union back \union (ahead \ away)
          /\ aside' = (aside \ back) \union away
  BY <1>8, <1>9, <1>10
<1>12. \E brought \in SUBSET aside : \E away \in SUBSET ((row.id + 1)..upto) :
          /\ queued' = queued \union brought \union (((row.id + 1)..upto) \ away)
          /\ aside' = (aside \ brought) \union away
  BY <1>8, <1>11 DEF ahead
<1>13. \E upto_1 \in Place..length, brought \in SUBSET aside :
        \E away \in SUBSET ((Place + 1)..upto_1) :
          /\ Cardinality(Passed(row'.index)) = upto_1
          /\ queued' = queued \union brought \union (((Place + 1)..upto_1) \ away)
          /\ aside' = (aside \ brought) \union away
  BY <1>2, <1>3, <1>12
<1> QED BY <1>1, <1>4, <1>13 DEF Chat!Keep, Place, Passed

LEMMA ChatStep ==
    ASSUME Mirrored, [Next]_vars PROVE [Chat!Next]_(Chat!vars)
<1> DEFINE still == /\ length' = length /\ queued' = queued /\ aside' = aside
                    /\ row'.seeded = row.seeded /\ row'.index = row.index
<1>1. still => UNCHANGED Chat!vars
  BY DEF Chat!vars, Passed
<1>2. row \in Row
  BY DEF Mirrored, TypeOK
<1>3. CASE Say
  BY <1>3, ChatSays DEF Chat!Next
<1>4. CASE Forget
  BY <1>1, <1>4 DEF Forget, ledgerVars
<1>5. CASE Reopen
  BY <1>1, <1>2, <1>5 DEF Reopen, ledgerVars, serverVars, Row
<1>6. CASE OpenProbe
  BY <1>1, <1>6 DEF OpenProbe, ledgerVars, serverVars
<1>7. CASE OpenSeed
  <2>1. Seeds(found) /\ found \in 0..Last
    BY <1>7, OpenSeedSeeds
  <2> QED BY <1>7, <2>1, ChatBegins DEF OpenSeed, ledgerVars, serverVars, Chat!Next
<1>8. CASE OpenBind
  BY <1>1, <1>2, <1>8 DEF OpenBind, ledgerVars, serverVars, Row
<1>9. ASSUME NEW p \in Pollers, Poll(p) \/ Fail(p) PROVE [Chat!Next]_(Chat!vars)
  <2>1. CASE AdvanceCursor(p)
    BY <2>1, ChatKeeps DEF Chat!Next
  <2>2. CASE Seed(p)
    <3>1. Seeds(poll[p].end) /\ poll[p].end \in 0..Last
      BY <2>2, SeedSeeds
    <3> QED BY <2>2, <3>1, ChatBegins DEF Seed, ledgerVars, serverVars, Chat!Next
  <2>3. CASE GiveUp(p)
    BY <1>1, <1>2, <2>3 DEF GiveUp, ledgerVars, serverVars, Row
  <2>4. CASE \/ TickStart(p) \/ SeekCheck(p) \/ Probe(p) \/ DrainStart(p)
             \/ Repair(p) \/ NothingNew(p) \/ Fail(p)
    BY <1>1, <2>4 DEF TickStart, SeekCheck, Probe, DrainStart, Repair, NothingNew,
       Fail, ledgerVars, serverVars
  <2>5. CASE FetchAfter(p) \/ FetchReplayed(p) \/ FetchByOffset(p)
    BY <1>1, <2>5 DEF FetchAfter, FetchReplayed, FetchByOffset, Receive,
       ledgerVars, serverVars
  <2> QED BY <1>9, <2>1, <2>2, <2>3, <2>4, <2>5 DEF Poll
<1>10. CASE UNCHANGED vars
  BY <1>1, <1>10 DEF vars, ledgerVars, serverVars
<1> QED BY <1>3, <1>4, <1>5, <1>6, <1>7, <1>8, <1>9, <1>10 DEF Next, Open

(* Whatever pollers overlap, fail or repair, the transcript goes to the    *)
(* chat in order and in full: every step of the cursor is one the mirror   *)
(* may take, or is none of its business.                                   *)
THEOREM TheCursorMirrors == ASSUME ~MayRace PROVE Spec => KeepsTheMirror
BY ChatInit, ChatStep, AlwaysMirrored, PTL DEF Spec, KeepsTheMirror, Chat!Spec

-----------------------------------------------------------------------------
(* The circuit breaker.                                                    *)
LEMMA ClientSteps == SideBySide => C!Spec
<1>1. Start => C!Init
  BY DEF Start
<1>2. [Step]_<<world, vars, clientVars, ciVars>> => [C!Next]_(C!vars)
  BY DEF Step, clientVars, C!vars, C!breaker, C!callVars
<1> QED BY <1>1, <1>2, PTL DEF SideBySide, C!Spec

LEMMA ClientGiven ==
    /\ NoCall \notin Pollers /\ Api \notin Resources
    /\ {Threshold, MaxAttempts, Permits} \subseteq Nat \ {0} /\ MaxHangs \in Nat
BY ConstantsFit DEF C!NameAssumption, C!LimitAssumption

(* The invariant.  A claim is held while the circuit is half open by a     *)
(* request in flight; a create is sent again only if it never landed; and  *)
(* while one resource is sick the circuit is closed and every failure that *)
(* counts is that resource's.                                              *)
Borrowed == \A c \in Pollers : probe = c => state = "half_open" /\ call[c] # "idle"

Unspent ==
    /\ ~blind
    /\ \A c \in Pollers : ~asks[c].idempotent => landed[c] = 0 /\ asks[c].write

Confined ==
    /\ sick = {} \/ Api \in sick \/ \E r \in Resources : sick = {r}
    /\ (Api \notin sick /\ sick # {}) =>
          state = "closed" /\ \A n \in 1..Len(streak) : streak[n] \in sick

Metered == C!TypeOK /\ Borrowed /\ Unspent /\ Confined

LEMMA NoRequestTyped == C!NoRequest \in C!Kinds /\ C!NoRequest.idempotent
BY DEF C!NoRequest, C!Kinds, C!Reads, C!Targets

LEMMA MeteredInit == C!Init => Metered
<1> SUFFICES ASSUME C!Init PROVE Metered
  OBVIOUS
<1>1. /\ state = "closed" /\ runs = FALSE /\ failures = 0 /\ streak = <<>>
      /\ isolated = [r \in Resources |-> "no"] /\ probe = NoCall
      /\ call = [c \in Pollers |-> "idle"] /\ asks = [c \in Pollers |-> C!NoRequest]
      /\ tries = [c \in Pollers |-> 0] /\ landed = [c \in Pollers |-> 0] /\ blind = FALSE
      /\ sick \in {{r} : r \in Resources} \union {C!Targets}
  BY DEF C!Init
<1>2. asks \in [Pollers -> C!Kinds]
  BY <1>1, NoRequestTyped
<1>3. sick \subseteq C!Targets
  BY <1>1 DEF C!Targets
<1>4. streak \in Seq(C!Targets) /\ Len(streak) = 0
  BY <1>1
<1>5. C!TypeOK
  <2>1. 0 \in 0..Threshold /\ 0 \in 0..MaxAttempts /\ Len(streak) <= Threshold
    BY <1>4, ClientGiven
  <2> QED BY <1>1, <1>2, <1>3, <1>4, <2>1 DEF C!TypeOK
<1>6. Borrowed
  BY <1>1, ClientGiven DEF Borrowed
<1>7. Unspent
  BY <1>1, NoRequestTyped DEF Unspent
<1>8. Confined
  BY <1>1, <1>4 DEF Confined, C!Targets
<1> QED BY <1>5, <1>6, <1>7, <1>8 DEF Metered

(* What the breaker records. *)
BreakerType ==
    /\ state \in {"closed", "open", "half_open"} /\ runs \in BOOLEAN
    /\ failures \in 0..Threshold /\ streak \in Seq(C!Targets) /\ Len(streak) <= Threshold
    /\ isolated \in [Resources -> {"no", "held", "due"}]

LEMMA OkTyped ==
    ASSUME BreakerType, NEW t \in C!Targets, C!RecordOk(t)
    PROVE  /\ BreakerType' /\ Len(streak') = 0
           /\ state = "closed" => state' = "closed"
<1>1. failures' = 0 /\ streak' = <<>> /\ runs' = runs
  BY DEF C!RecordOk
<1>2. state' \in {"closed", "open", "half_open"} /\ (state = "closed" => state' = "closed")
  BY DEF C!RecordOk, BreakerType
<1>3. isolated' \in [Resources -> {"no", "held", "due"}]
  BY DEF C!RecordOk, BreakerType, C!Targets
<1>4. streak' \in Seq(C!Targets) /\ Len(streak') = 0
  BY <1>1
<1> QED BY <1>1, <1>2, <1>3, <1>4, ClientGiven DEF BreakerType

LEMMA IsolateTyped ==
    ASSUME NEW t \in C!Targets, t # Api, C!Isolate(t),
           isolated \in [Resources -> {"no", "held", "due"}]
    PROVE  isolated' \in [Resources -> {"no", "held", "due"}]
BY DEF C!Isolate

(* The failures that count now: one more, and the oldest forgotten. *)
LEMMA LatestOnes ==
    ASSUME NEW s \in Seq(C!Targets), NEW t \in C!Targets, Len(s) <= Threshold
    PROVE  LET full == Append(s, t)
               latest == IF Len(full) > Threshold THEN Tail(full) ELSE full
           IN  /\ latest \in Seq(C!Targets) /\ Len(latest) \in 1..Threshold
               /\ \A n \in 1..Len(latest) :
                     latest[n] = t \/ \E k \in 1..Len(s) : latest[n] = s[k]
<1> DEFINE full == Append(s, t)
           latest == IF Len(full) > Threshold THEN Tail(full) ELSE full
<1>1. Threshold \in Nat \ {0} /\ Len(s) \in Nat
  BY ClientGiven
<1>2. /\ full \in Seq(C!Targets) /\ Len(full) = Len(s) + 1
      /\ \A n \in 1..Len(full) : full[n] = IF n = Len(s) + 1 THEN t ELSE s[n]
  OBVIOUS
<1>3. CASE Len(full) > Threshold
  <2>1. /\ Tail(full) \in Seq(C!Targets) /\ Len(Tail(full)) = Len(s)
        /\ \A n \in 1..Len(s) : Tail(full)[n] = full[n + 1]
    BY <1>1, <1>2
  <2>2. Len(s) = Threshold
    BY <1>1, <1>2, <1>3
  <2> HIDE DEF full
  <2> QED BY <1>1, <1>2, <1>3, <2>1, <2>2
<1>4. CASE ~(Len(full) > Threshold)
  <2> HIDE DEF full
  <2> QED BY <1>1, <1>2, <1>4
<1> QED BY <1>3, <1>4

LEMMA FailureTyped ==
    ASSUME BreakerType, NEW t \in C!Targets, C!RecordFailure(t)
    PROVE  /\ BreakerType'
           /\ (t # Api /\ state = "closed" /\ \A n \in 1..Len(streak) : streak[n] = t)
                => state' = "closed" /\ \A n \in 1..Len(streak') : streak'[n] = t
<1> DEFINE count == IF failures < Threshold THEN failures + 1 ELSE Threshold
           full == Append(streak, t)
           latest == IF Len(full) > Threshold THEN Tail(full) ELSE full
           lone == t # Api /\ state = "closed" /\ \A n \in 1..Len(streak) : streak[n] = t
<1>1. /\ latest \in Seq(C!Targets) /\ Len(latest) \in 1..Threshold
      /\ \A n \in 1..Len(latest) :
             latest[n] = t \/ \E k \in 1..Len(streak) : latest[n] = streak[k]
  BY LatestOnes DEF BreakerType
<1>2. count \in 0..Threshold /\ Threshold \in Nat /\ 0 \in 0..Threshold
  BY ClientGiven DEF BreakerType
<1>3. \/ /\ t # Api /\ C!Isolate(t)
         /\ UNCHANGED <<state, runs, failures, streak>>
      \/ /\ state = "half_open" \/ (count = Threshold /\ ~C!OneTarget(t, latest))
         /\ C!Trip /\ failures' = count /\ UNCHANGED isolated
      \/ /\ state # "half_open" /\ count < Threshold
         /\ failures' = count /\ streak' = latest /\ UNCHANGED <<state, runs, isolated>>
      \/ /\ state # "half_open" /\ count = Threshold /\ C!OneTarget(t, latest)
         /\ C!Isolate(t) /\ failures' = 0 /\ streak' = <<>> /\ UNCHANGED <<state, runs>>
  BY DEF C!RecordFailure
<1>4. lone => /\ \A n \in 1..Len(latest) : latest[n] = t
              /\ C!OneTarget(t, latest)
  <2> SUFFICES ASSUME lone PROVE /\ \A n \in 1..Len(latest) : latest[n] = t
                                 /\ C!OneTarget(t, latest)
    OBVIOUS
  <2>1. \A n \in 1..Len(latest) : latest[n] = t
    BY <1>1
  <2>2. DOMAIN latest = 1..Len(latest) /\ 1 \in DOMAIN latest
    <3> HIDE DEF latest
    <3> QED BY <1>1
  <2>3. C!ToSet(latest) = {t}
    <3> HIDE DEF latest
    <3> QED BY <2>1, <2>2 DEF C!ToSet
  <2> QED BY <2>1, <2>3 DEF C!OneTarget
<1> HIDE DEF count, full, latest
<1>5. <<>> \in Seq(C!Targets) /\ Len(<<>>) = 0
  OBVIOUS
<1>6. CASE t # Api /\ C!Isolate(t) /\ UNCHANGED <<state, runs, failures, streak>>
  <2>1. isolated' \in [Resources -> {"no", "held", "due"}]
    BY <1>6, IsolateTyped DEF BreakerType
  <2> QED BY <1>6, <2>1 DEF BreakerType
<1>7. CASE /\ state = "half_open" \/ (count = Threshold /\ ~C!OneTarget(t, latest))
           /\ C!Trip /\ failures' = count /\ UNCHANGED isolated
  <2>1. ~lone
    BY <1>4, <1>7
  <2>2. state' = "open" /\ runs' = TRUE /\ streak' = <<>>
    BY <1>7 DEF C!Trip
  <2> QED BY <1>2, <1>5, <1>7, <2>1, <2>2 DEF BreakerType
<1>8. CASE /\ state # "half_open" /\ count < Threshold
           /\ failures' = count /\ streak' = latest /\ UNCHANGED <<state, runs, isolated>>
  BY <1>1, <1>2, <1>4, <1>8 DEF BreakerType
<1>9. CASE /\ state # "half_open" /\ count = Threshold /\ C!OneTarget(t, latest)
           /\ C!Isolate(t) /\ failures' = 0 /\ streak' = <<>> /\ UNCHANGED <<state, runs>>
  <2>1. isolated' \in [Resources -> {"no", "held", "due"}]
    BY <1>9, IsolateTyped DEF BreakerType, C!OneTarget
  <2> QED BY <1>2, <1>5, <1>9, <2>1 DEF BreakerType
<1> QED BY <1>3, <1>6, <1>7, <1>8, <1>9

(* What the calls keep. *)
CallType ==
    /\ call \in [Pollers -> {"idle", "send", "hung"}] /\ asks \in [Pollers -> C!Kinds]
    /\ tries \in [Pollers -> 0..MaxAttempts] /\ landed \in [Pollers -> Nat]
    /\ blind \in BOOLEAN

LEMMA EndCalls ==
    ASSUME CallType, Unspent, NEW c \in Pollers, NEW how, NEW times \in 0..1,
           C!End(c, how, times), ~(how = "error" /\ ~asks[c].idempotent /\ times # 0)
    PROVE  CallType' /\ Unspent'
<1>1. /\ call' \in [Pollers -> {"idle", "send", "hung"}] /\ asks' \in [Pollers -> C!Kinds]
      /\ tries' \in [Pollers -> 0..MaxAttempts] /\ landed' \in [Pollers -> Nat]
  BY NoRequestTyped, ClientGiven DEF CallType, C!End
<1>2. ~(how = "error" /\ ~asks[c].idempotent /\ landed[c] + times > 0)
  BY DEF Unspent, CallType
<1>3. ~blind'
  BY <1>2, Zenon DEF C!End, Unspent
<1>5. blind' \in BOOLEAN
  <2>1. (blind \/ (how = "error" /\ ~asks[c].idempotent /\ landed[c] + times > 0)) \in BOOLEAN
    BY Zenon
  <2> QED BY <2>1, Zenon DEF C!End
<1>4. \A d \in Pollers : ~asks'[d].idempotent => landed'[d] = 0 /\ asks'[d].write
  BY NoRequestTyped DEF CallType, C!End, Unspent
<1> QED BY <1>1, <1>3, <1>4, <1>5 DEF CallType, Unspent

LEMMA AgainCalls ==
    ASSUME CallType, Unspent, NEW c \in Pollers, NEW times \in 0..1,
           C!Again(c, times), ~asks[c].idempotent => times = 0
    PROVE  CallType' /\ Unspent' /\ call' = call
<1>1. call' = call /\ asks' = asks /\ blind' = blind
  BY DEF C!Again
<1>2. tries' \in [Pollers -> 0..MaxAttempts]
  BY ClientGiven DEF CallType, C!Again
<1>3. /\ landed' \in [Pollers -> Nat]
      /\ \A d \in Pollers : ~asks[d].idempotent => landed'[d] = 0
  BY DEF CallType, C!Again, Unspent
<1> QED BY <1>1, <1>2, <1>3 DEF CallType, Unspent

(* A request that is answered: what the breaker records of it, the claim   *)
(* it may have held given back, and the call ended or made again.          *)
LEMMA AnswerKeeps ==
    ASSUME Metered, NEW c \in Pollers, BreakerType', CallType', Unspent', C!Recorded,
           (Api \notin sick /\ sick # {} /\ state = "closed"
              /\ \A n \in 1..Len(streak) : streak[n] \in sick) =>
                state' = "closed" /\ \A n \in 1..Len(streak') : streak'[n] \in sick
    PROVE  Metered'
<1>1. probe' = NoCall /\ sick' = sick
  BY DEF C!Recorded
<1>2. C!TypeOK'
  BY <1>1 DEF BreakerType, CallType, C!TypeOK, Metered
<1>3. Borrowed'
  BY <1>1, ClientGiven DEF Borrowed
<1>4. Confined'
  BY <1>1 DEF Confined, Metered
<1> QED BY <1>2, <1>3, <1>4 DEF Metered

LEMMA MeteredTypes ==
    ASSUME Metered
    PROVE  /\ BreakerType /\ CallType /\ Unspent
           /\ \A c \in Pollers : asks[c] \in C!Kinds /\ asks[c].target \in C!Targets
BY DEF Metered, C!TypeOK, BreakerType, CallType, C!Kinds, C!Reads, C!Writes, C!Creates, C!Targets

LEMMA OkKeeps ==
    ASSUME Metered, NEW c \in Pollers, C!RecordOk(asks[c].target), CallType', Unspent',
           C!Recorded
    PROVE  Metered'
<1>1. BreakerType' /\ Len(streak') = 0 /\ (state = "closed" => state' = "closed")
  BY MeteredTypes, OkTyped
<1> QED BY <1>1, AnswerKeeps

LEMMA SucceedKeeps ==
    ASSUME Metered, NEW c \in Pollers, C!Succeed(c) PROVE Metered'
<1>1. C!End(c, "ok", 1) /\ C!RecordOk(asks[c].target) /\ C!Recorded
  BY DEF C!Succeed
<1>2. CallType' /\ Unspent'
  BY <1>1, MeteredTypes, EndCalls
<1> QED BY <1>1, <1>2, OkKeeps

LEMMA RejectKeeps ==
    ASSUME Metered, NEW c \in Pollers, C!Reject(c) PROVE Metered'
<1>1. (C!End(c, "error", 0) \/ C!Again(c, 0)) /\ C!RecordOk(asks[c].target) /\ C!Recorded
  BY DEF C!Reject
<1>2. CallType' /\ Unspent'
  BY <1>1, MeteredTypes, EndCalls, AgainCalls
<1> QED BY <1>1, <1>2, OkKeeps

LEMMA GarbleKeeps ==
    ASSUME ~MayGarble, Metered, NEW c \in Pollers, C!Garble(c) PROVE Metered'
<1>1. (C!End(c, "error", 0) \/ C!Again(c, 0)) /\ C!RecordOk(asks[c].target) /\ C!Recorded
  BY DEF C!Garble
<1>2. CallType' /\ Unspent'
  BY <1>1, MeteredTypes, EndCalls, AgainCalls
<1> QED BY <1>1, <1>2, OkKeeps

LEMMA TripTyped ==
    ASSUME BreakerType, C!Trip, UNCHANGED <<failures, isolated>>
    PROVE  BreakerType'
<1>1. <<>> \in Seq(C!Targets) /\ Len(<<>>) = 0 /\ 0 <= Threshold
  BY ClientGiven
<1> QED BY <1>1 DEF BreakerType, C!Trip

LEMMA ThrottleKeeps ==
    ASSUME Metered, NEW c \in Pollers, C!Throttle(c) PROVE Metered'
<1>1. /\ C!End(c, "error", 0) \/ C!Again(c, 0)
      /\ C!Trip /\ UNCHANGED <<failures, isolated>> /\ C!Recorded /\ Api \in sick
  BY DEF C!Throttle
<1>2. CallType' /\ Unspent'
  BY <1>1, MeteredTypes, EndCalls, AgainCalls
<1>3. BreakerType'
  BY <1>1, MeteredTypes, TripTyped
<1> QED BY <1>1, <1>2, <1>3, AnswerKeeps

LEMMA FailureKeeps ==
    ASSUME Metered, NEW c \in Pollers, C!Unwell(c), C!RecordFailure(asks[c].target),
           CallType', Unspent', C!Recorded
    PROVE  Metered'
<1> DEFINE t == asks[c].target
<1>1. t \in C!Targets /\ t \in sick
  BY MeteredTypes DEF C!Unwell
<1>2. /\ BreakerType'
      /\ (t # Api /\ state = "closed" /\ \A n \in 1..Len(streak) : streak[n] = t)
           => state' = "closed" /\ \A n \in 1..Len(streak') : streak'[n] = t
  BY <1>1, MeteredTypes, FailureTyped
<1>3. (Api \notin sick) => sick = {t} /\ t # Api
  BY <1>1 DEF Metered, Confined
<1> HIDE DEF t
<1>4. (Api \notin sick /\ state = "closed" /\ \A n \in 1..Len(streak) : streak[n] \in sick) =>
          state' = "closed" /\ \A n \in 1..Len(streak') : streak'[n] \in sick
  BY <1>2, <1>3
<1> QED BY <1>2, <1>4, AnswerKeeps

LEMMA FailsKeeps ==
    ASSUME Metered, NEW c \in Pollers, C!Fail(c) PROVE Metered'
<1>1. C!Unwell(c) /\ C!RecordFailure(asks[c].target) /\ C!Recorded
  BY DEF C!Fail
<1>2. PICK times \in 0..1 :
          \/ asks[c].idempotent /\ C!Again(c, times)
          \/ C!End(c, IF asks[c].write THEN "ambiguous" ELSE "error", times)
  BY DEF C!Fail, C!SafeToReplay
<1>3. ~asks[c].idempotent => asks[c].write
  BY DEF Metered, Unspent
<1>4. CallType' /\ Unspent'
  <2>1. CASE asks[c].idempotent /\ C!Again(c, times)
    BY <2>1, MeteredTypes, AgainCalls
  <2>2. CASE C!End(c, IF asks[c].write THEN "ambiguous" ELSE "error", times)
    <3> DEFINE how == IF asks[c].write THEN "ambiguous" ELSE "error"
    <3>1. ~(how = "error" /\ ~asks[c].idempotent /\ times # 0)
      BY <1>3
    <3>2. C!End(c, how, times)
      BY <2>2
    <3> HIDE DEF how
    <3> QED BY <3>1, <3>2, MeteredTypes, EndCalls
  <2> QED BY <1>2, <2>1, <2>2
<1> QED BY <1>1, <1>4, FailureKeeps

LEMMA UnsentKeeps ==
    ASSUME Metered, NEW c \in Pollers, C!Unsent(c) PROVE Metered'
<1>1. /\ C!Unwell(c) /\ C!RecordFailure(asks[c].target) /\ C!Recorded
      /\ C!End(c, "error", 0) \/ C!Again(c, 0)
  BY DEF C!Unsent
<1>2. CallType' /\ Unspent'
  BY <1>1, MeteredTypes, EndCalls, AgainCalls
<1> QED BY <1>1, <1>2, FailureKeeps

LEMMA AdmitKeeps ==
    ASSUME Metered, NEW c \in Pollers, C!Admit(c) PROVE Metered'
<1>1. PICK k \in C!Kinds :
         /\ call[c] = "idle"
         /\ \/ state = "closed" /\ UNCHANGED <<state, probe>>
            \/ state' = "half_open" /\ probe' = c /\ state # "closed"
         /\ call' = [call EXCEPT ![c] = "send"] /\ asks' = [asks EXCEPT ![c] = k]
         /\ tries' = [tries EXCEPT ![c] = 1] /\ landed' = [landed EXCEPT ![c] = 0]
         /\ UNCHANGED <<runs, failures, streak, isolated, blind, sick>>
  BY DEF C!Admit
<1>2. ~k.idempotent => k.write
  BY DEF C!Kinds, C!Reads, C!Writes, C!Creates
<1>3. CallType'
  BY <1>1, MeteredTypes, ClientGiven DEF CallType
<1>4. C!TypeOK'
  BY <1>1, <1>3 DEF CallType, Metered, C!TypeOK
<1>5. Borrowed'
  BY <1>1, ClientGiven DEF Metered, C!TypeOK, Borrowed
<1>6. Unspent'
  <2>1. ~blind'
    BY <1>1, Zenon DEF Metered, Unspent
  <2>2. \A d \in Pollers : ~asks'[d].idempotent => landed'[d] = 0 /\ asks'[d].write
    BY <1>1, <1>2 DEF Metered, C!TypeOK, Unspent
  <2> QED BY <2>1, <2>2 DEF Unspent
<1>7. Confined'
  BY <1>1 DEF Metered, Confined
<1> QED BY <1>4, <1>5, <1>6, <1>7 DEF Metered

LEMMA CancelKeeps ==
    ASSUME Metered, NEW c \in Pollers, C!Cancel(c) PROVE Metered'
<1>1. /\ C!End(c, "none", 0) /\ probe' = IF probe = c THEN NoCall ELSE probe
      /\ call' = [call EXCEPT ![c] = "idle"]
      /\ UNCHANGED <<state, runs, failures, streak, isolated, sick>>
  BY DEF C!Cancel, C!Release, C!End
<1>2. CallType' /\ Unspent'
  BY <1>1, MeteredTypes, EndCalls
<1>3. C!TypeOK'
  BY <1>1, <1>2 DEF CallType, Metered, C!TypeOK
<1>4. Borrowed'
  BY <1>1, ClientGiven DEF Metered, C!TypeOK, Borrowed
<1>5. Confined'
  BY <1>1 DEF Metered, Confined
<1> QED BY <1>2, <1>3, <1>4, <1>5 DEF Metered

LEMMA HangKeeps ==
    ASSUME Metered, NEW c \in Pollers, C!Hang(c) PROVE Metered'
<1>1. /\ call' = [call EXCEPT ![c] = "hung"]
      /\ UNCHANGED <<state, runs, failures, streak, isolated, probe, asks, tries, landed,
                     blind, sick>>
  BY DEF C!Hang, C!breaker
<1>2. C!TypeOK'
  BY <1>1 DEF Metered, C!TypeOK
<1>3. Borrowed'
  BY <1>1 DEF Metered, C!TypeOK, Borrowed
<1> QED BY <1>1, <1>2, <1>3 DEF Metered, Unspent, Confined

LEMMA TimeKeeps ==
    ASSUME Metered,
           C!WindowEnds \/ C!Recover \/ (\E r \in Resources : C!IsolationEnds(r))
    PROVE  Metered'
<1>1. /\ UNCHANGED <<state, failures, streak, probe, call, asks, tries, landed, blind>>
      /\ sick' = sick \/ sick' = {}
      /\ runs' \in BOOLEAN /\ isolated' \in [Resources -> {"no", "held", "due"}]
  BY DEF C!WindowEnds, C!Recover, C!IsolationEnds, C!callVars, C!breaker, Metered, C!TypeOK
<1>2. C!TypeOK'
  BY <1>1 DEF Metered, C!TypeOK
<1> QED BY <1>1, <1>2 DEF Metered, Borrowed, Unspent, Confined

LEMMA MeteredStep ==
    ASSUME ~MayGarble, Metered, [C!Next]_(C!vars) PROVE Metered'
<1>1. ASSUME NEW c \in Pollers, C!Answer(c) PROVE Metered'
  BY <1>1, SucceedKeeps, RejectKeeps, GarbleKeeps, ThrottleKeeps, FailsKeeps,
     UnsentKeeps DEF C!Answer
<1>2. CASE UNCHANGED C!vars
  BY <1>2 DEF C!vars, C!breaker, C!callVars, Metered, C!TypeOK, Borrowed, Unspent, Confined
<1> QED BY <1>1, <1>2, AdmitKeeps, CancelKeeps, HangKeeps, TimeKeeps DEF C!Next

(* Whatever a call meets, a timeout, a 5xx, a 429 or a cancellation, POST  *)
(* /workspaces takes effect once at most and never behind a plain error,   *)
(* as long as a 2xx that is not JSON does not stand for a write that       *)
(* landed; the half-open slot is held by a request that runs; and one sick *)
(* resource does not close the API to the others.                          *)
THEOREM EveryCallIsCounted == ASSUME ~MayGarble PROVE SideBySide => []CallsAreCounted
<1>1. ASSUME Metered PROVE CallsAreCounted
  <2>1. C!NothingIsCreatedBlind
    BY <1>1 DEF Metered, Unspent, C!NothingIsCreatedBlind
  <2>2. C!EveryLoanIsCalledIn
    BY <1>1 DEF Metered, Borrowed, C!EveryLoanIsCalledIn
  <2>3. C!OneSickResourceOpensNothing
    <3>1. \A x : C!Cardinality(x) = Cardinality(x)
      BY DEF C!Cardinality, Cardinality
    <3>2. C!Cardinality(sick) = 1 => sick # {}
      BY <3>1, FS_EmptySet
    <3> QED BY <1>1, <3>2 DEF Metered, Confined, C!OneSickResourceOpensNothing
  <2> QED BY <1>1, <2>1, <2>2, <2>3 DEF Metered, CallsAreCounted
<1> QED BY <1>1, ClientSteps, MeteredInit, MeteredStep, PTL DEF C!Spec

-----------------------------------------------------------------------------
(* The watch on a pull request.                                            *)
LEMMA WatchSteps == SideBySide => W!Spec
<1>1. Start => W!Init
  BY DEF Start
<1>2. [Step]_<<world, vars, clientVars, ciVars>> => [W!Next]_(W!vars)
  BY DEF Step, ciVars, W!vars
<1> QED BY <1>1, <1>2, PTL DEF SideBySide, W!Spec

LEMMA CIGiven ==
    /\ IsFiniteSet(Pollers) /\ MaxMishaps \in Nat
    /\ {MaxHeads, MaxRuns, MaxTurns, MaxErrors, Lifetime} \subseteq Nat \ {0}
<1>1. \A x : W!IsFiniteSet(x) = IsFiniteSet(x)
  BY DEF W!IsFiniteSet, IsFiniteSet
<1> QED BY <1>1, ConstantsFit DEF W!CIAssumption

(* The invariant.  Early polls have yet to say something, late ones have   *)
(* said it and have yet to write that they did.  Each early poll beyond    *)
(* the first may repeat what another says, at the price of the excuse its  *)
(* claim was; a verdict on record that is not the last one said, or a late *)
(* poll about to write such a verdict, may cost one repetition more.       *)
Early == {i \in Pollers : ci[i].pc \in {"pull", "checks", "tell"}}
Late == {i \in Pollers : ci[i].pc = "told"}
Outdated == \E i \in Late : W!Verdict(i) # last
Calm == Late = {} /\ watch.said = last /\ \A i \in Early : ci[i].said = last

Accounts ==
    /\ repeats <= excuses
    /\ repeats + Cardinality(Early) <= excuses + 1
    /\ ~Calm => repeats + Cardinality(Early) <= excuses
    /\ Outdated => repeats + Cardinality(Early) + 1 <= excuses
    /\ (Early = {} /\ Late = {} /\ watch.said # last) => repeats + 1 <= excuses

Heard ==
    /\ {W!NoVerdict, watch.said, last} \subseteq heard
    /\ watch.state = "done" => ~pull.open \/ heard # {W!NoVerdict}
    /\ \A i \in Pollers :
        /\ ci[i].said \in heard
        /\ ci[i].pc = "tell" => W!Verdict(i) # ci[i].said
        /\ ci[i].pc = "told" => W!Verdict(i) \in heard
        /\ ci[i].pc \in {"tell", "told"} => ci[i].check # "none"

Watched == W!TypeOK /\ Accounts /\ Heard

LEMMA EarlyCounted ==
    ASSUME NEW e \in SUBSET Pollers
    PROVE  /\ Cardinality(e) \in Nat
           /\ e = {} <=> Cardinality(e) = 0
           /\ \A i \in Pollers :
                /\ i \in e => Cardinality(e \ {i}) = Cardinality(e) - 1
                /\ i \notin e => Cardinality(e \union {i}) = Cardinality(e) + 1
<1>1. IsFiniteSet(e)
  BY CIGiven, FS_Subset
<1> QED BY <1>1, FS_CardinalityType, FS_EmptySet, FS_AddElement, FS_RemoveElement

(* A step in which no poll ends or begins and nothing is said.             *)
LEMMA AccountsStand ==
    ASSUME Accounts, watch'.said = watch.said,
           UNCHANGED <<ci, last, repeats, excuses>>
    PROVE  Accounts'
BY DEF Accounts, Early, Late, Outdated, Calm, W!Verdict

(* One poll moves. *)
Pcs == {"idle", "pull", "checks", "tell", "told"}

LEMMA PollMoves ==
    ASSUME NEW i \in Pollers, W!TypeOK, W!TypeOK', \A j \in Pollers \ {i} : ci'[j] = ci[j]
    PROVE  /\ Early \in SUBSET Pollers /\ Late \in SUBSET Pollers
           /\ i \in Early <=> ci[i].pc \in {"pull", "checks", "tell"}
           /\ i \in Late <=> ci[i].pc = "told"
           /\ ci'[i].pc \in {"pull", "checks", "tell"}
                => Early' = Early \union {i} /\ Late' = Late \ {i}
           /\ ci'[i].pc = "told" => Early' = Early \ {i} /\ Late' = Late \union {i}
           /\ ci'[i].pc = "idle" => Early' = Early \ {i} /\ Late' = Late \ {i}
           /\ \A j \in Pollers \ {i} : ci'[j].said = ci[j].said /\ W!Verdict(j)' = W!Verdict(j)
BY DEF Early, Late, W!Verdict

LEMMA AccountsLeave ==
    ASSUME NEW i \in Pollers, Accounts, W!TypeOK, W!TypeOK', i \in Early, ci'[i].pc = "idle",
           \A j \in Pollers \ {i} : ci'[j] = ci[j],
           watch'.said = watch.said, UNCHANGED <<last, repeats, excuses>>
    PROVE  Accounts'
<1>1. Early' = Early \ {i} /\ Late' = Late /\ Early \in SUBSET Pollers
  BY PollMoves DEF Early, Late
<1>2. Cardinality(Early') = Cardinality(Early) - 1 /\ Cardinality(Early) \in Nat
  BY <1>1, EarlyCounted
<1>3. repeats \in Nat /\ excuses \in Nat
  BY DEF W!TypeOK
<1>4. Calm => Calm'
  BY <1>1, PollMoves DEF Calm
<1>5. Outdated' => Outdated
  BY <1>1, PollMoves DEF Outdated, Early, Late
<1>6. (Early' = {} /\ Late' = {} /\ watch'.said # last') => ~Calm /\ Cardinality(Early) = 1
  <2>1. Early' = {} => Cardinality(Early') = 0
    BY FS_EmptySet
  <2> QED BY <1>2, <2>1 DEF Calm
<1> HIDE DEF Calm, Outdated
<1> QED BY <1>1, <1>2, <1>3, <1>4, <1>5, <1>6 DEF Accounts

LEMMA AccountsOnward ==
    ASSUME NEW i \in Pollers, Accounts, W!TypeOK, W!TypeOK', i \in Early,
           ci'[i].pc \in {"checks", "tell"}, ci'[i].said = ci[i].said,
           \A j \in Pollers \ {i} : ci'[j] = ci[j],
           watch' = watch, UNCHANGED <<last, repeats, excuses>>
    PROVE  Accounts'
<1>1. Early' = Early /\ Late' = Late
  BY PollMoves DEF Early, Late
<1>2. Calm' <=> Calm
  BY <1>1, PollMoves DEF Calm, Early
<1>3. Outdated' <=> Outdated
  BY <1>1, PollMoves DEF Outdated, Early, Late
<1> QED BY <1>1, <1>2, <1>3 DEF Accounts

LEMMA AccountsClaim ==
    ASSUME NEW i \in Pollers, Accounts, W!TypeOK, W!TypeOK', ci[i].pc = "idle",
           ci'[i].pc = "pull", ci'[i].said = watch.said,
           \A j \in Pollers \ {i} : ci'[j] = ci[j],
           watch'.said = watch.said, UNCHANGED <<last, repeats>>,
           excuses' = IF \E j \in Pollers \ {i} : ci[j].pc # "idle" THEN excuses + 1 ELSE excuses
    PROVE  Accounts'
<1>1. /\ Early' = Early \union {i} /\ Late' = Late /\ Early \in SUBSET Pollers
      /\ i \notin Early /\ i \notin Late
  BY PollMoves DEF Late
<1>2. Cardinality(Early') = Cardinality(Early) + 1 /\ Cardinality(Early) \in Nat
  BY <1>1, EarlyCounted
<1>3. repeats \in Nat /\ excuses \in Nat /\ excuses' \in Nat
  BY DEF W!TypeOK
<1>4. Outdated' => Outdated
  BY <1>1, PollMoves DEF Outdated, Late
<1>5. (Late = {} /\ watch.said = last /\ Calm) => Calm'
  BY <1>1, PollMoves DEF Calm
<1>6. ~Calm' => ~Calm \/ watch.said # last
  BY <1>5 DEF Calm
<1>7. CASE \E j \in Pollers \ {i} : ci[j].pc # "idle"
  <2>1. excuses' = excuses + 1
    BY <1>7
  <2>2. ~Calm' => ~Calm
    BY <1>6 DEF Calm
  <2> HIDE DEF Calm, Outdated
  <2> QED BY <1>1, <1>2, <1>3, <1>4, <2>1, <2>2 DEF Accounts
<1>8. CASE ~\E j \in Pollers \ {i} : ci[j].pc # "idle"
  <2>1. excuses' = excuses /\ Early = {} /\ Late = {}
    BY <1>1, <1>8 DEF Early, Late
  <2>2. Cardinality(Early) = 0
    BY <2>1, FS_EmptySet
  <2>3. ~Calm' => watch.said # last
    BY <1>5, <2>1 DEF Calm
  <2>4. ~Outdated
    BY <2>1 DEF Outdated
  <2> HIDE DEF Calm, Outdated
  <2> QED BY <1>1, <1>2, <1>3, <1>4, <2>1, <2>2, <2>3, <2>4 DEF Accounts
<1> QED BY <1>7, <1>8

LEMMA AccountsTell ==
    ASSUME NEW i \in Pollers, Watched, W!TypeOK', W!Tell(i) PROVE Accounts'
<1>1. /\ ci[i].pc = "tell" /\ ci' = [ci EXCEPT ![i].pc = "told"]
      /\ last' = W!Verdict(i) /\ watch' = watch /\ excuses' = excuses
      /\ repeats' = repeats \/ (repeats' = repeats + 1 /\ last = W!Verdict(i))
  BY DEF W!Tell, W!At, W!To
<1>2. /\ ci'[i].pc = "told" /\ W!Verdict(i)' = W!Verdict(i)
      /\ \A j \in Pollers \ {i} : ci'[j] = ci[j]
  BY <1>1 DEF Watched, W!TypeOK, W!Verdict
<1>3. /\ Early' = Early \ {i} /\ Late' = Late \union {i} /\ i \in Early
      /\ Early \in SUBSET Pollers
  BY <1>1, <1>2, PollMoves DEF Watched
<1>4. Cardinality(Early') = Cardinality(Early) - 1 /\ Cardinality(Early) \in Nat
  BY <1>3, EarlyCounted
<1>5. repeats \in Nat /\ excuses \in Nat
  BY DEF Watched, W!TypeOK
<1>6. W!Verdict(i) # ci[i].said
  BY <1>1 DEF Watched, Heard
<1>7. Cardinality(Early) # 0
  BY <1>3, EarlyCounted
<1>8. CASE repeats' = repeats + 1 /\ last = W!Verdict(i)
  <2>1. ~Calm
    BY <1>3, <1>6, <1>8 DEF Calm
  <2>2. Outdated' => Outdated
    BY <1>1, <1>2, <1>3, <1>8, PollMoves DEF Outdated, Watched
  <2> HIDE DEF Calm, Outdated
  <2> QED BY <1>1, <1>3, <1>4, <1>5, <1>7, <1>8, <2>1, <2>2 DEF Accounts, Watched
<1>9. CASE repeats' = repeats
  <2>1. Outdated' => ~Calm
    BY <1>1, <1>2, <1>3 DEF Outdated, Calm
  <2> HIDE DEF Calm, Outdated
  <2> QED BY <1>1, <1>3, <1>4, <1>5, <1>7, <1>9, <2>1 DEF Accounts, Watched
<1> QED BY <1>1, <1>8, <1>9

LEMMA AccountsTold ==
    ASSUME NEW i \in Pollers, Watched, W!TypeOK', W!Told(i) PROVE Accounts'
<1>1. /\ ci[i].pc = "told" /\ ci' = [ci EXCEPT ![i] = W!Quiet]
      /\ watch' = [watch EXCEPT !.state = "done", !.said = W!Verdict(i)]
      /\ UNCHANGED <<last, repeats, excuses>>
  BY DEF W!Told, W!At, W!Rest, W!Finish
<1>2. /\ ci'[i].pc = "idle" /\ \A j \in Pollers \ {i} : ci'[j] = ci[j]
      /\ watch'.said = W!Verdict(i)
  BY <1>1 DEF Watched, W!TypeOK, W!Quiet
<1>3. /\ Early' = Early /\ Late' = Late \ {i} /\ i \in Late /\ Early \in SUBSET Pollers
  BY <1>1, <1>2, PollMoves DEF Watched, Early
<1>4. Cardinality(Early) \in Nat
  BY <1>3, EarlyCounted
<1>5. repeats \in Nat /\ excuses \in Nat
  BY DEF Watched, W!TypeOK
<1>6. ~Calm
  BY <1>3 DEF Calm
<1>7. Outdated' => Outdated
  BY <1>1, <1>2, <1>3, PollMoves DEF Outdated, Watched, Late
<1>8. watch'.said # last => Outdated
  BY <1>2, <1>3 DEF Outdated
<1>9. Early = {} => Cardinality(Early) = 0
  BY FS_EmptySet
<1> HIDE DEF Calm, Outdated
<1> QED BY <1>1, <1>3, <1>4, <1>5, <1>6, <1>7, <1>8, <1>9 DEF Accounts, Watched

LEMMA AccountsCut ==
    ASSUME NEW i \in Pollers, Watched, W!TypeOK', W!CutOff(i) PROVE Accounts'
<1>1. /\ ci[i].pc # "idle" /\ ci' = [ci EXCEPT ![i] = W!Quiet]
      /\ watch' = watch /\ last' = last /\ repeats' = repeats
      /\ excuses' = IF ci[i].pc = "told" THEN excuses + 1 ELSE excuses
  BY DEF W!CutOff, W!At, W!Rest
<1>2. ci'[i].pc = "idle" /\ \A j \in Pollers \ {i} : ci'[j] = ci[j]
  BY <1>1 DEF Watched, W!TypeOK, W!Quiet
<1>3. CASE ci[i].pc # "told"
  <2>1. i \in Early /\ excuses' = excuses
    BY <1>1, <1>3 DEF Watched, W!TypeOK, Early
  <2> QED BY <1>1, <1>2, <2>1, AccountsLeave DEF Watched
<1>4. CASE ci[i].pc = "told"
  <2>1. /\ Early' = Early /\ Late' = Late \ {i} /\ i \in Late /\ Early \in SUBSET Pollers
    BY <1>2, <1>4, PollMoves DEF Watched, Early
  <2>2. Cardinality(Early) \in Nat /\ repeats \in Nat /\ excuses \in Nat
    BY <2>1, EarlyCounted DEF Watched, W!TypeOK
  <2>3. ~Calm
    BY <2>1 DEF Calm
  <2>4. Outdated' => Outdated
    BY <1>1, <1>2, <2>1, PollMoves DEF Outdated, Watched, Late
  <2>5. excuses' = excuses + 1
    BY <1>1, <1>4
  <2> HIDE DEF Calm, Outdated
  <2> QED BY <1>1, <2>1, <2>2, <2>3, <2>4, <2>5 DEF Accounts, Watched
<1> QED BY <1>3, <1>4

-----------------------------------------------------------------------------
WatchType ==
    [state : {"none", "watching", "done", "gave_up"}, said : W!Verdicts,
     errors : 0..MaxErrors, due : BOOLEAN, left : 0..Lifetime]
PullType ==
    [open : BOOLEAN, head : 1..MaxHeads,
     check : {"none", "pending", "success", "failure"}, runs : 0..MaxRuns]
PollType ==
    [pc : Pcs, said : W!Verdicts, late : BOOLEAN, head : 0..MaxHeads,
     check : {"none", "success", "failure"}]

LEMMA NoVerdictTyped == W!NoVerdict \in W!Verdicts
BY CIGiven DEF W!NoVerdict, W!Verdicts

LEMMA WatchedInit == W!Init => Watched
<1> SUFFICES ASSUME W!Init PROVE Watched
  OBVIOUS
<1>1. W!NoVerdict \in W!Verdicts
  BY NoVerdictTyped
<1>2. ci = [i \in Pollers |-> W!Quiet] /\ W!Quiet \in PollType /\ W!Quiet.pc = "idle"
      /\ W!Quiet.said = W!NoVerdict
  <2> HIDE DEF W!NoVerdict
  <2> QED BY <1>1, CIGiven DEF W!Init, W!Quiet, PollType, Pcs
<1>3. watch \in WatchType /\ watch.said = W!NoVerdict /\ watch.state = "none"
  <2> HIDE DEF W!NoVerdict
  <2> QED BY <1>1, CIGiven DEF W!Init, WatchType
<1>4. pull \in PullType
  BY CIGiven DEF W!Init, PullType
<1>5. turns \in [made : 0..MaxTurns, head : 0..MaxHeads] /\ team \in [token : BOOLEAN, muted : BOOLEAN]
  BY CIGiven DEF W!Init
<1>6. last = W!NoVerdict /\ heard = {W!NoVerdict} /\ repeats = 0 /\ excuses = 0 /\ mishaps = 0
  BY DEF W!Init
<1>7. W!TypeOK
  <2> HIDE DEF W!NoVerdict
  <2> QED BY <1>1, <1>2, <1>3, <1>4, <1>5, <1>6, CIGiven
          DEF W!TypeOK, WatchType, PullType, PollType, Pcs
<1>8. Early = {} /\ Late = {}
  BY <1>2 DEF Early, Late
<1>9. Accounts
  BY <1>3, <1>6, <1>8, FS_EmptySet DEF Accounts, Calm, Outdated
<1>10. Heard
  BY <1>2, <1>3, <1>6 DEF Heard
<1> QED BY <1>7, <1>9, <1>10 DEF Watched

(* What the parts of a step keep. *)
LEMMA WatchWrites ==
    ASSUME watch \in WatchType
    PROVE  /\ W!Watch => /\ watch' \in WatchType /\ watch'.said = watch.said
                         /\ watch'.state = "watching"
           /\ W!Reschedule => /\ watch' \in WatchType /\ watch'.said = watch.said
                              /\ watch'.state = watch.state
           /\ \A fatal \in BOOLEAN : W!Fail(fatal) =>
                 /\ watch' \in WatchType /\ watch'.said = watch.said
                 /\ watch'.state \in {watch.state, "gave_up"}
           /\ \A outcome \in {"done", "gave_up"}, said \in W!Verdicts :
                 W!Finish(outcome, said) => /\ watch' \in WatchType /\ watch'.said = said
                                          /\ watch'.state = outcome
           /\ watch' = [watch EXCEPT !.due = FALSE] =>
                 /\ watch' \in WatchType /\ watch'.said = watch.said
                 /\ watch'.state = watch.state
           /\ W!Interval => /\ watch' \in WatchType /\ watch'.said = watch.said
                            /\ watch'.state = watch.state
<1>1. W!Watch => /\ watch' \in WatchType /\ watch'.said = watch.said
                 /\ watch'.state = "watching"
  BY CIGiven DEF WatchType, W!Watch
<1>2. W!Reschedule => /\ watch' \in WatchType /\ watch'.said = watch.said
                      /\ watch'.state = watch.state
  <2>1. 0 \in 0..MaxErrors
    BY CIGiven
  <2> QED BY <2>1 DEF WatchType, W!Reschedule
<1>3. ASSUME NEW fatal \in BOOLEAN, W!Fail(fatal)
      PROVE  /\ watch' \in WatchType /\ watch'.said = watch.said
             /\ watch'.state \in {watch.state, "gave_up"}
  <2> DEFINE errors == IF watch.errors < MaxErrors THEN watch.errors + 1 ELSE watch.errors
             outcome == IF fatal \/ watch.errors + 1 >= MaxErrors THEN "gave_up" ELSE watch.state
  <2>1. errors \in 0..MaxErrors /\ outcome \in {watch.state, "gave_up"}
    BY CIGiven DEF WatchType
  <2>2. watch' = [watch EXCEPT !.errors = errors, !.due = FALSE, !.state = outcome]
    BY <1>3, Zenon DEF W!Fail
  <2> HIDE DEF errors, outcome
  <2> QED BY <2>1, <2>2 DEF WatchType
<1>4. ASSUME NEW outcome \in {"done", "gave_up"}, NEW said \in W!Verdicts, W!Finish(outcome, said)
      PROVE  watch' \in WatchType /\ watch'.said = said /\ watch'.state = outcome
  BY <1>4 DEF WatchType, W!Finish
<1>5. ASSUME watch' = [watch EXCEPT !.due = FALSE]
      PROVE  watch' \in WatchType /\ watch'.said = watch.said /\ watch'.state = watch.state
  BY <1>5 DEF WatchType
<1>6. ASSUME W!Interval
      PROVE  watch' \in WatchType /\ watch'.said = watch.said /\ watch'.state = watch.state
  <2> DEFINE left == IF watch.left > 0 THEN watch.left - 1 ELSE 0
  <2>1. left \in 0..Lifetime
    BY CIGiven DEF WatchType
  <2>2. watch' = [watch EXCEPT !.due = TRUE, !.left = left]
    BY <1>6, Zenon DEF W!Interval
  <2> HIDE DEF left
  <2> QED BY <2>1, <2>2 DEF WatchType
<1> QED BY <1>1, <1>2, <1>3, <1>4, <1>5, <1>6

LEMMA HeardMoves ==
    ASSUME NEW i \in Pollers, Heard, \A j \in Pollers \ {i} : ci'[j] = ci[j],
           heard \subseteq heard', {watch'.said, last'} \subseteq heard',
           watch'.state = "done" => ~pull'.open \/ heard' # {W!NoVerdict},
           /\ ci'[i].said \in heard'
           /\ ci'[i].pc = "tell" => W!Verdict(i)' # ci'[i].said
           /\ ci'[i].pc = "told" => W!Verdict(i)' \in heard'
           /\ ci'[i].pc \in {"tell", "told"} => ci'[i].check # "none"
    PROVE  Heard'
<1>1. ASSUME NEW j \in Pollers
      PROVE  /\ ci'[j].said \in heard'
             /\ ci'[j].pc = "tell" => W!Verdict(j)' # ci'[j].said
             /\ ci'[j].pc = "told" => W!Verdict(j)' \in heard'
             /\ ci'[j].pc \in {"tell", "told"} => ci'[j].check # "none"
  <2>1. CASE j = i
    BY <2>1
  <2>2. CASE j # i
    BY <2>2 DEF Heard, W!Verdict
  <2> QED BY <2>1, <2>2
<1> QED BY <1>1 DEF Heard

LEMMA QuietTyped ==
    /\ W!Quiet \in PollType /\ W!Quiet.pc = "idle" /\ W!Quiet.said = W!NoVerdict
<1>1. W!NoVerdict \in W!Verdicts
  BY NoVerdictTyped
<1> HIDE DEF W!NoVerdict
<1> QED BY <1>1, CIGiven DEF W!Quiet, PollType, Pcs

(* A poll ends and nothing was said. *)
LEMMA LeaveKeeps ==
    ASSUME NEW i \in Pollers, Watched, i \in Early, W!Rest(i),
           watch' \in WatchType, watch'.said = watch.said,
           watch'.state = "done" => \/ watch.state = "done" \/ ~pull.open
                                    \/ heard # {W!NoVerdict},
           UNCHANGED <<pull, team, turns, last, heard, repeats, excuses, mishaps>>
    PROVE  Watched'
<1>1. ci' = [ci EXCEPT ![i] = W!Quiet]
  BY DEF W!Rest
<1>2. ci' \in [Pollers -> PollType]
  BY <1>1, QuietTyped DEF Watched, W!TypeOK, PollType, Pcs
<1>3. W!TypeOK'
  BY <1>2 DEF Watched, W!TypeOK, WatchType, PollType, Pcs
<1>4. /\ ci'[i].pc = "idle" /\ ci'[i].said = W!NoVerdict
      /\ \A j \in Pollers \ {i} : ci'[j] = ci[j]
  BY <1>1, QuietTyped DEF Watched, W!TypeOK
<1>5. Accounts'
  BY <1>3, <1>4, AccountsLeave DEF Watched
<1>6. watch'.state = "done" => ~pull'.open \/ heard' # {W!NoVerdict}
  BY DEF Watched, Heard
<1>7. Heard'
  BY <1>4, <1>6, HeardMoves DEF Watched, Heard
<1> QED BY <1>3, <1>5, <1>7 DEF Watched

LEMMA ClaimKeeps ==
    ASSUME NEW i \in Pollers, Watched, W!Claim(i) PROVE Watched'
<1> DEFINE late == (watch.left = 0)
           mine == [W!Quiet EXCEPT !.pc = "pull", !.said = watch.said, !.late = late]
<1>1. /\ ci[i].pc = "idle" /\ watch' = [watch EXCEPT !.due = FALSE]
      /\ ci' = [ci EXCEPT ![i] = mine]
      /\ excuses' = IF \E j \in Pollers \ {i} : ci[j].pc # "idle" THEN excuses + 1 ELSE excuses
      /\ UNCHANGED <<pull, team, turns, last, heard, repeats, mishaps>>
  BY DEF W!Claim, W!At
<1>2. /\ watch \in WatchType /\ watch' \in WatchType /\ watch'.said = watch.said
      /\ watch'.state = watch.state
  BY <1>1, WatchWrites DEF Watched, W!TypeOK, WatchType
<1>3. late \in BOOLEAN
  BY Zenon
<1>4. mine \in PollType /\ mine.pc = "pull" /\ mine.said = watch.said
  <2> HIDE DEF late
  <2> QED BY <1>2, <1>3, QuietTyped DEF PollType, Pcs, WatchType
<1> HIDE DEF mine
<1>5. /\ ci' \in [Pollers -> PollType] /\ ci'[i] = mine
      /\ \A j \in Pollers \ {i} : ci'[j] = ci[j]
  BY <1>1, <1>4 DEF Watched, W!TypeOK, PollType, Pcs
<1>6. W!TypeOK'
  BY <1>1, <1>2, <1>5 DEF Watched, W!TypeOK, WatchType, PollType, Pcs
<1>7. Accounts'
  BY <1>1, <1>2, <1>4, <1>5, <1>6, AccountsClaim DEF Watched
<1>8. Heard'
  BY <1>1, <1>2, <1>4, <1>5, HeardMoves DEF Watched, Heard
<1> QED BY <1>6, <1>7, <1>8 DEF Watched

LEMMA EndKeeps ==
    ASSUME NEW i \in Pollers, Watched, W!GiveUp(i) \/ W!Errs(i) \/ W!Refused(i)
    PROVE  Watched'
<1>1. watch \in WatchType /\ i \in Early /\ W!Rest(i) /\ watch.said \in W!Verdicts
      /\ UNCHANGED <<pull, team, turns, last, heard, repeats, excuses, mishaps>>
  BY DEF Watched, W!TypeOK, WatchType, Early, W!GiveUp, W!Errs, W!Refused, W!At
<1>2. \/ W!Finish("gave_up", watch.said)
      \/ \E fatal \in BOOLEAN : W!Fail(fatal)
      \/ W!Reschedule
  BY DEF W!GiveUp, W!Errs, W!Refused
<1>3. watch' \in WatchType /\ watch'.said = watch.said
      /\ watch'.state \in {watch.state, "gave_up"}
  BY <1>1, <1>2, WatchWrites
<1> QED BY <1>1, <1>3, LeaveKeeps

(* A poll goes on. *)
LEMMA OnwardKeeps ==
    ASSUME NEW i \in Pollers, Watched, i \in Early, NEW mine \in PollType,
           ci' = [ci EXCEPT ![i] = mine], mine.said = ci[i].said,
           mine.pc \in {"checks", "tell"},
           mine.pc = "tell" => /\ mine.check # "none"
                               /\ [head |-> mine.head, check |-> mine.check] # mine.said,
           UNCHANGED <<watch, pull, team, turns, last, heard, repeats, excuses, mishaps>>
    PROVE  Watched'
<1>1. /\ ci' \in [Pollers -> PollType] /\ ci'[i] = mine
      /\ \A j \in Pollers \ {i} : ci'[j] = ci[j]
  BY DEF Watched, W!TypeOK, PollType, Pcs
<1>2. W!TypeOK'
  BY <1>1 DEF Watched, W!TypeOK, PollType, Pcs
<1>3. Accounts'
  BY <1>1, <1>2, AccountsOnward DEF Watched
<1>4. W!Verdict(i)' = [head |-> mine.head, check |-> mine.check]
  BY <1>1 DEF W!Verdict
<1>5. Heard'
  BY <1>1, <1>4, HeardMoves DEF Watched, Heard
<1> QED BY <1>2, <1>3, <1>5 DEF Watched

LEMMA GetPullKeeps ==
    ASSUME NEW i \in Pollers, Watched, W!GetPull(i) PROVE Watched'
<1>1. /\ watch \in WatchType /\ i \in Early /\ watch.said \in W!Verdicts
      /\ UNCHANGED <<pull, team, turns, last, heard, repeats, excuses, mishaps>>
      /\ ci \in [Pollers -> PollType] /\ pull \in PullType
  BY DEF Watched, W!TypeOK, WatchType, PollType, PullType, Pcs, Early, W!GetPull, W!At
<1>2. CASE pull.open
  <2> DEFINE mine == [ci[i] EXCEPT !.pc = "checks", !.head = pull.head]
  <2>1. ci' = [ci EXCEPT ![i] = mine] /\ watch' = watch
    BY <1>1, <1>2 DEF W!GetPull
  <2>2. mine \in PollType /\ mine.said = ci[i].said /\ mine.pc = "checks"
    <3>1. pull.head \in 0..MaxHeads
      BY <1>1, CIGiven DEF PullType
    <3> QED BY <1>1, <3>1 DEF PollType, Pcs
  <2> HIDE DEF mine
  <2> QED BY <1>1, <2>1, <2>2, OnwardKeeps
<1>3. CASE ~pull.open
  <2>1. W!Finish("done", watch.said) /\ W!Rest(i)
    BY <1>3 DEF W!GetPull
  <2>2. watch' \in WatchType /\ watch'.said = watch.said
    BY <1>1, <2>1, WatchWrites
  <2> QED BY <1>1, <1>3, <2>1, <2>2, LeaveKeeps
<1> QED BY <1>2, <1>3

LEMMA GetChecksKeeps ==
    ASSUME NEW i \in Pollers, Watched, W!GetChecks(i) PROVE Watched'
<1>1. /\ watch \in WatchType /\ i \in Early /\ watch.said \in W!Verdicts
      /\ UNCHANGED <<pull, team, turns, last, heard, repeats, excuses, mishaps>>
      /\ ci \in [Pollers -> PollType] /\ pull \in PullType
  BY DEF Watched, W!TypeOK, WatchType, PollType, PullType, Pcs, Early, W!GetChecks, W!At
<1>2. PICK check \in {"none", "pending", "success", "failure"} :
          IF check \in {"none", "pending"}
          THEN W!Reschedule /\ W!Rest(i)
          ELSE IF ci[i].said = [head |-> ci[i].head, check |-> check]
          THEN W!Finish("done", watch.said) /\ W!Rest(i)
          ELSE ci' = [ci EXCEPT ![i].pc = "tell", ![i].check = check] /\ UNCHANGED watch
  <2>1. {pull.check} \subseteq {"none", "pending", "success", "failure"}
    BY <1>1 DEF PullType
  <2> QED BY <2>1 DEF W!GetChecks
<1>3. CASE check \in {"none", "pending"}
  <2>1. W!Reschedule /\ W!Rest(i)
    BY <1>2, <1>3
  <2>2. watch' \in WatchType /\ watch'.said = watch.said /\ watch'.state = watch.state
    BY <1>1, <2>1, WatchWrites
  <2> QED BY <1>1, <2>1, <2>2, LeaveKeeps
<1>4. CASE /\ check \notin {"none", "pending"}
           /\ ci[i].said = [head |-> ci[i].head, check |-> check]
  <2>1. W!Finish("done", watch.said) /\ W!Rest(i)
    BY <1>2, <1>4
  <2>2. watch' \in WatchType /\ watch'.said = watch.said
    BY <1>1, <2>1, WatchWrites
  <2>3. heard # {W!NoVerdict}
    <3>1. ci[i].said \in heard /\ ci[i].said.check = check
      BY <1>4 DEF Watched, Heard
    <3>2. W!NoVerdict.check = "none"
      BY DEF W!NoVerdict
    <3> QED BY <1>4, <3>1, <3>2
  <2> QED BY <1>1, <2>1, <2>2, <2>3, LeaveKeeps
<1>5. CASE /\ check \notin {"none", "pending"}
           /\ ci[i].said # [head |-> ci[i].head, check |-> check]
  <2> DEFINE mine == [ci[i] EXCEPT !.pc = "tell", !.check = check]
  <2>1. ci' = [ci EXCEPT ![i] = mine] /\ watch' = watch
    BY <1>1, <1>2, <1>5
  <2>2. /\ mine \in PollType /\ mine.said = ci[i].said /\ mine.pc = "tell"
        /\ mine.check = check /\ mine.head = ci[i].head
    BY <1>1, <1>5 DEF PollType, Pcs
  <2> HIDE DEF mine
  <2> QED BY <1>1, <1>5, <2>1, <2>2, OnwardKeeps
<1> QED BY <1>3, <1>4, <1>5

LEMMA TellKeeps ==
    ASSUME NEW i \in Pollers, Watched, W!Tell(i) PROVE Watched'
<1>1. /\ ci[i].pc = "tell" /\ ci' = [ci EXCEPT ![i].pc = "told"]
      /\ last' = W!Verdict(i) /\ heard' = heard \union {W!Verdict(i)}
      /\ UNCHANGED <<watch, pull, team, turns, excuses, mishaps>>
      /\ repeats' \in {repeats, repeats + 1} /\ ci \in [Pollers -> PollType]
  BY DEF W!Tell, W!At, W!To, Watched, W!TypeOK, PollType, Pcs
<1>2. W!Verdict(i) \in W!Verdicts
  BY <1>1 DEF W!Verdict, W!Verdicts, PollType
<1>3. ci' \in [Pollers -> PollType]
  BY <1>1 DEF PollType, Pcs
<1>4. /\ ci'[i].pc = "told" /\ W!Verdict(i)' = W!Verdict(i)
      /\ ci'[i].said = ci[i].said /\ ci'[i].check = ci[i].check
      /\ \A j \in Pollers \ {i} : ci'[j] = ci[j]
  BY <1>1 DEF W!Verdict, PollType
<1>5. W!TypeOK'
  BY <1>1, <1>2, <1>3 DEF Watched, W!TypeOK, PollType, Pcs
<1>6. ci[i].said \in heard /\ ci[i].check # "none"
  BY <1>1 DEF Watched, Heard
<1>7. heard' # {W!NoVerdict}
  <2>1. W!Verdict(i).check = ci[i].check /\ W!NoVerdict.check = "none"
    BY DEF W!Verdict, W!NoVerdict
  <2> QED BY <1>1, <1>6, <2>1
<1>8. Heard'
  BY <1>1, <1>4, <1>6, <1>7, HeardMoves DEF Watched, Heard
<1>9. Accounts'
  BY <1>5, AccountsTell
<1> QED BY <1>5, <1>8, <1>9 DEF Watched

LEMMA RestTyped ==
    ASSUME NEW i \in Pollers, Watched, W!Rest(i)
    PROVE  /\ ci' \in [Pollers -> PollType]
           /\ ci'[i].pc = "idle" /\ ci'[i].said = W!NoVerdict
           /\ \A j \in Pollers \ {i} : ci'[j] = ci[j]
BY QuietTyped DEF W!Rest, Watched, W!TypeOK, PollType, Pcs

LEMMA ToldKeeps ==
    ASSUME NEW i \in Pollers, Watched, W!Told(i) PROVE Watched'
<1>1. /\ ci[i].pc = "told" /\ W!Rest(i) /\ W!Finish("done", W!Verdict(i))
      /\ UNCHANGED <<pull, team, turns, last, heard, repeats, excuses, mishaps>>
      /\ watch \in WatchType
  BY DEF W!Told, W!At, Watched, W!TypeOK, WatchType
<1>2. W!Verdict(i) \in W!Verdicts /\ W!Verdict(i) \in heard /\ ci[i].check # "none"
  BY <1>1 DEF W!Verdict, W!Verdicts, Watched, W!TypeOK, Heard
<1>3. watch' \in WatchType /\ watch'.said = W!Verdict(i)
  BY <1>1, <1>2, WatchWrites
<1>4. W!TypeOK'
  BY <1>1, <1>3, RestTyped DEF Watched, W!TypeOK, WatchType, PollType, Pcs
<1>5. heard # {W!NoVerdict}
  <2>1. W!Verdict(i).check = ci[i].check /\ W!NoVerdict.check = "none"
    BY DEF W!Verdict, W!NoVerdict
  <2> QED BY <1>2, <2>1
<1>6. Heard'
  BY <1>1, <1>2, <1>3, <1>5, RestTyped, HeardMoves DEF Watched, Heard
<1>7. Accounts'
  BY <1>4, AccountsTold
<1> QED BY <1>4, <1>6, <1>7 DEF Watched

LEMMA CutOffKeeps ==
    ASSUME NEW i \in Pollers, Watched, W!CutOff(i) PROVE Watched'
<1>1. /\ W!Rest(i) /\ mishaps' \in 0..MaxMishaps /\ excuses' \in Nat
      /\ UNCHANGED <<watch, pull, team, turns, last, heard, repeats>>
  BY CIGiven DEF W!CutOff, Watched, W!TypeOK
<1>2. W!TypeOK'
  BY <1>1, RestTyped DEF Watched, W!TypeOK, PollType, Pcs
<1>3. Heard'
  BY <1>1, RestTyped, HeardMoves DEF Watched, Heard
<1>4. Accounts'
  BY <1>2, AccountsCut
<1> QED BY <1>2, <1>3, <1>4 DEF Watched

(* Around the polls. *)
LEMMA AroundKeeps ==
    ASSUME Watched, W!TurnEnds \/ W!Interval \/ W!GitHub \/ W!Owner
    PROVE  Watched'
<1>1. /\ UNCHANGED <<ci, last, heard, repeats, excuses, mishaps>>
      /\ watch \in WatchType /\ pull \in PullType
  BY DEF W!TurnEnds, W!Interval, W!GitHub, W!Owner, Watched, W!TypeOK, WatchType, PullType
<1>2. /\ watch' \in WatchType /\ watch'.said = watch.said
      /\ watch'.state = "done" => watch.state = "done"
  <2>1. W!Watch \/ W!Interval \/ watch' = watch
    BY DEF W!TurnEnds, W!GitHub, W!Owner
  <2> QED BY <1>1, <2>1, WatchWrites
<1>3. pull' \in PullType /\ (~pull.open => ~pull'.open)
  <2>1. CASE pull' = pull
    BY <1>1, <2>1
  <2>2. CASE W!GitHub
    <3>1. CASE W!Push
      <4>1. pull.head + 1 \in 1..MaxHeads /\ 0 \in 0..MaxRuns /\ pull.open
        BY <1>1, <3>1, CIGiven DEF W!Push, PullType
      <4> QED BY <1>1, <3>1, <4>1 DEF W!Push, PullType
    <3>2. CASE W!Run
      <4>1. pull.runs + 1 \in 0..MaxRuns
        BY <1>1, <3>2, CIGiven DEF W!Run, PullType
      <4> QED BY <1>1, <3>2, <4>1 DEF W!Run, PullType
    <3>3. CASE W!Conclude
      BY <1>1, <3>3 DEF W!Conclude, PullType
    <3>4. CASE W!Close
      BY <1>1, <3>4 DEF W!Close, PullType
    <3> QED BY <2>2, <3>1, <3>2, <3>3, <3>4 DEF W!GitHub
  <2> QED BY <2>1, <2>2 DEF W!TurnEnds, W!Interval, W!Owner
<1>4. team' \in [token : BOOLEAN, muted : BOOLEAN]
  <2>1. CASE team' = team
    BY <2>1 DEF Watched, W!TypeOK
  <2>2. CASE W!Owner
    BY <2>2 DEF W!Owner, Watched, W!TypeOK
  <2> QED BY <2>1, <2>2 DEF W!TurnEnds, W!Interval, W!GitHub
<1>5. turns' \in [made : 0..MaxTurns, head : 0..MaxHeads]
  <2>1. CASE turns' = turns
    BY <2>1 DEF Watched, W!TypeOK
  <2>2. CASE W!TurnEnds
    <3>1. turns.made + 1 \in 0..MaxTurns /\ pull.head \in 0..MaxHeads
      BY <1>1, <2>2, CIGiven DEF W!TurnEnds, Watched, W!TypeOK, PullType
    <3> QED BY <2>2, <3>1 DEF W!TurnEnds
  <2> QED BY <2>1, <2>2 DEF W!Interval, W!GitHub, W!Owner
<1>6. W!TypeOK'
  BY <1>1, <1>2, <1>3, <1>4, <1>5 DEF Watched, W!TypeOK, WatchType, PullType
<1>7. Accounts'
  BY <1>1, <1>2, AccountsStand DEF Watched
<1>8. Heard'
  BY <1>1, <1>2, <1>3 DEF Watched, Heard, W!Verdict
<1> QED BY <1>6, <1>7, <1>8 DEF Watched

LEMMA WatchedStep == Watched /\ [W!Next]_(W!vars) => Watched'
<1> SUFFICES ASSUME Watched, [W!Next]_(W!vars) PROVE Watched'
  OBVIOUS
<1>1. ASSUME NEW i \in Pollers, W!Poll(i) \/ W!CutOff(i) PROVE Watched'
  BY <1>1, ClaimKeeps, EndKeeps, GetPullKeeps, GetChecksKeeps, TellKeeps,
     ToldKeeps, CutOffKeeps DEF W!Poll
<1>2. CASE UNCHANGED W!vars
  BY <1>2, AccountsStand DEF Watched, W!vars, W!TypeOK, Heard, W!Verdict
<1> QED BY <1>1, <1>2, AroundKeeps DEF W!Next

(* However many processes poll one pull request, overlap, die between the  *)
(* message and the write, or are overtaken by a turn that arms the watch   *)
(* again, a verdict is repeated no more often than polls were cut off or   *)
(* overlapped, and what is on record as said was said.                     *)
THEOREM VerdictsAreSaidOnce == SideBySide => []OneVerdictOneNotice
<1>1. Watched => OneVerdictOneNotice
  BY DEF Watched, Accounts, Heard, OneVerdictOneNotice, W!SaidOnce, W!RecordedMeansHeard
<1> QED BY <1>1, WatchSteps, WatchedInit, WatchedStep, PTL DEF W!Spec

=============================================================================
