---------------------------- MODULE OutboxProofs -----------------------------
(***************************************************************************)
(* What the outbox keeps, and what the reader of its topic sees, for any   *)
(* rows, workers and limits.                                               *)
(***************************************************************************)
EXTENDS TopicReader, FiniteSetTheorems, TLAPS

(* Two rows never carry the same payload.                                  *)
DistinctContents == \A q, r \in Rows : Content[q] = Content[r] => q = r

(* What a worker has in flight Telegram has shown.                         *)
Shown == \A w \in Workers : inflight[w] # NoRow => inflight[w] \in seen

Inv == TypeOK /\ Shown /\ SettledMeansSeen

-----------------------------------------------------------------------------
(* Row updates keep the types of the row's columns, and the tie between a  *)
(* claim and the state sending.                                            *)
RowsOK ==
    /\ state \in [Rows -> States]
    /\ claim \in [Rows -> Workers \union {NoWorker}]
    /\ age \in [Rows -> 0 .. 2]
    /\ \A r \in Rows : claim[r] # NoWorker <=> state[r] = "sending"

LEMMA SetRowsType ==
    ASSUME RowsOK, NEW rows, NEW s \in States \ {"sending"}, SetRows(rows, s)
    PROVE  RowsOK'
BY NameAssumption DEF RowsOK, SetRows, States

LEMMA DoneWithType ==
    ASSUME NEW w \in Workers, NEW r, NEW next \in Modes, TypeOK,
           DoneWith(w, r, next)
    PROVE  /\ mode' \in [Workers -> Modes]
           /\ jobs' \in [Workers -> SUBSET Rows]
           /\ inflight' \in [Workers -> Rows \union {NoRow}]
BY DEF TypeOK, DoneWith, Modes

LEMMA GoneType ==
    ASSUME NEW w \in Workers, TypeOK, Gone(w)
    PROVE  /\ mode' \in [Workers -> Modes]
           /\ jobs' \in [Workers -> SUBSET Rows]
           /\ inflight' \in [Workers -> Rows \union {NoRow}]
BY DEF TypeOK, Gone, Modes

(* Distinct contents leave the duplicate guard nothing to match.           *)
LEMMA NoTwins ==
    ASSUME DistinctContents, NEW r \in Rows, NEW among \in SUBSET Rows
    PROVE  ~Twin(r, among)
BY DEF DistinctContents, Twin

LEMMA BatchWaits ==
    ASSUME NEW t
    PROVE  /\ Batch(t) \subseteq Rows
           /\ \A r \in Batch(t) : state[r] = "pending"
BY DEF Batch, Waiting

LEMMA TypeInit == Init => TypeOK
BY NameAssumption DEF Init, TypeOK, States, Modes

LEMMA TypeStep ==
    ASSUME TypeOK, [Next]_vars
    PROVE  TypeOK'
<1> USE DEF TypeOK
<1>0. RowsOK
  BY DEF RowsOK
<1>1. ASSUME NEW r \in Rows, Enqueue(r) PROVE TypeOK'
  BY <1>1 DEF Enqueue, States, workerVars
<1>2. CASE LoseTopic
  BY <1>2 DEF LoseTopic, rowVars, workerVars
<1>3. CASE ClaimsAge
  BY <1>3 DEF ClaimsAge, Sending, workerVars
<1>4. ASSUME NEW w \in Workers, Start(w) PROVE TypeOK'
  BY <1>4 DEF Start, rowVars, Modes
<1>5. ASSUME NEW w \in Workers, Recover(w) PROVE TypeOK'
  BY <1>5, NameAssumption DEF Recover, Orphans, Sending, States, Modes
<1>6. ASSUME NEW w \in Workers, NEW t \in {"topic", "general"}, Claim(w, t)
      PROVE  TypeOK'
  BY <1>6, BatchWaits, NameAssumption DEF Claim, States, Modes
<1>7. ASSUME NEW w \in Workers, Deliver(w) PROVE TypeOK'
  <2> PICK r \in Rows : \/ Skip(w, r) \/ Show(w, r) \/ MarkSent(w, r)
                        \/ TransientFailure(w, r) \/ Refused(w, r)
                        \/ Reroute(w, r)
    BY <1>7 DEF Deliver
  <2> mode[w] \in Modes /\ AfterDeferral(w) \in Modes
    BY DEF AfterDeferral, Modes
  <2>1. CASE Skip(w, r)
    BY <1>0, <2>1, SetRowsType, DoneWithType DEF Skip, RowsOK, States
  <2>2. CASE Show(w, r)
    BY <2>2 DEF Show, rowVars
  <2>3. CASE MarkSent(w, r)
    BY <1>0, <2>3, SetRowsType, DoneWithType DEF MarkSent, RowsOK, States
  <2>4. CASE TransientFailure(w, r)
    BY <1>0, <2>4, SetRowsType, DoneWithType
    DEF TransientFailure, RowsOK, States
  <2>5. CASE Refused(w, r)
    BY <1>0, <2>5, SetRowsType, DoneWithType DEF Refused, RowsOK, States
  <2>6. CASE Reroute(w, r)
    BY <1>0, <2>6, SetRowsType, DoneWithType DEF Reroute, RowsOK, States
  <2> QED BY <2>1, <2>2, <2>3, <2>4, <2>5, <2>6
<1>8. ASSUME NEW w \in Workers, Pause(w) PROVE TypeOK'
  BY <1>8 DEF Pause, rowVars, Modes
<1>9. ASSUME NEW w \in Workers, Blip(w) PROVE TypeOK'
  BY <1>9 DEF Blip, rowVars, Modes
<1>10. ASSUME NEW w \in Workers, Stop(w) PROVE TypeOK'
  BY <1>10, GoneType, NameAssumption DEF Stop, Held, Sending, States
<1>11. ASSUME NEW w \in Workers, Crash(w) PROVE TypeOK'
  BY <1>11, GoneType DEF Crash, rowVars
<1>12. ASSUME NEW w \in Workers, NEW r \in Rows, GiveBack(w, r) PROVE TypeOK'
  BY <1>0, <1>12, SetRowsType, DoneWithType DEF GiveBack, RowsOK, States, Modes
<1>13. CASE UNCHANGED vars
  BY <1>13 DEF vars, rowVars, workerVars
<1> QED
  BY <1>1, <1>2, <1>3, <1>4, <1>5, <1>6, <1>7, <1>8, <1>9, <1>10, <1>11,
     <1>12, <1>13 DEF Next

(* Every variable keeps to its type, and a row is held by a worker exactly *)
(* while it is in sending, however the workers overlap and fail.           *)
THEOREM TypeCorrect == Spec => []TypeOK
<1>1. Init => TypeOK
  BY TypeInit
<1>2. TypeOK /\ [Next]_vars => TypeOK'
  BY TypeStep
<1> QED BY <1>1, <1>2, PTL DEF Spec
-----------------------------------------------------------------------------
LEMMA ShownStep ==
    ASSUME TypeOK, Shown, [Next]_vars
    PROVE  Shown'
<1> USE DEF Shown
<1>1. ASSUME NEW r \in Rows, Enqueue(r) PROVE Shown'
  BY <1>1 DEF Enqueue, workerVars
<1>2. CASE LoseTopic
  BY <1>2 DEF LoseTopic, workerVars
<1>3. CASE ClaimsAge
  BY <1>3 DEF ClaimsAge, workerVars
<1>4. ASSUME NEW w \in Workers,
             \/ Start(w) \/ Recover(w) \/ Pause(w) \/ Blip(w)
             \/ \E t \in {"topic", "general"} : Claim(w, t)
      PROVE  Shown'
  BY <1>4 DEF TypeOK, Start, Recover, Claim, Pause, Blip
<1>5. ASSUME NEW w \in Workers, Stop(w) \/ Crash(w) PROVE Shown'
  BY <1>5 DEF TypeOK, Stop, Crash, Gone
<1>6. ASSUME NEW w \in Workers, Deliver(w) PROVE Shown'
  <2> PICK r \in Rows : \/ Skip(w, r) \/ Show(w, r) \/ MarkSent(w, r)
                        \/ TransientFailure(w, r) \/ Refused(w, r)
                        \/ Reroute(w, r)
    BY <1>6 DEF Deliver
  <2>1. CASE Show(w, r)
    BY <2>1 DEF TypeOK, Show
  <2>2. CASE ~Show(w, r)
    BY <2>2 DEF TypeOK, Skip, MarkSent, TransientFailure, Refused, Reroute,
                DoneWith
  <2> QED BY <2>1, <2>2
<1>7. ASSUME NEW w \in Workers, NEW r \in Rows, GiveBack(w, r) PROVE Shown'
  BY <1>7 DEF TypeOK, GiveBack, DoneWith
<1>8. CASE UNCHANGED vars
  BY <1>8 DEF vars, workerVars
<1> QED BY <1>1, <1>2, <1>3, <1>4, <1>5, <1>6, <1>7, <1>8 DEF Next

LEMMA SeenStep ==
    ASSUME DistinctContents, Inv, [Next]_vars
    PROVE  SettledMeansSeen'
<1> USE DEF Inv, SettledMeansSeen
<1>1. ASSUME NEW r \in Rows, Enqueue(r) PROVE SettledMeansSeen'
  BY <1>1 DEF TypeOK, Enqueue
<1>2. CASE LoseTopic
  BY <1>2 DEF LoseTopic, rowVars
<1>3. CASE ClaimsAge
  BY <1>3 DEF ClaimsAge
<1>4. ASSUME NEW w \in Workers, Start(w) \/ Pause(w) \/ Blip(w) \/ Crash(w)
      PROVE  SettledMeansSeen'
  BY <1>4 DEF Start, Pause, Blip, Crash, rowVars
<1>5. ASSUME NEW w \in Workers, Recover(w) PROVE SettledMeansSeen'
  BY <1>5, NoTwins DEF TypeOK, Recover, Orphans, Sending
<1>6. ASSUME NEW w \in Workers, NEW t \in {"topic", "general"}, Claim(w, t)
      PROVE  SettledMeansSeen'
  BY <1>6 DEF TypeOK, Claim
<1>7. ASSUME NEW w \in Workers, Stop(w) PROVE SettledMeansSeen'
  BY <1>7, NoTwins DEF TypeOK, Stop, Held, Sending
<1>8. ASSUME NEW w \in Workers, Deliver(w) PROVE SettledMeansSeen'
  <2> PICK r \in Rows : \/ Skip(w, r) \/ Show(w, r) \/ MarkSent(w, r)
                        \/ TransientFailure(w, r) \/ Refused(w, r)
                        \/ Reroute(w, r)
    BY <1>8 DEF Deliver
  <2>1. CASE Skip(w, r)
    BY <2>1 DEF Skip, SetRows
  <2>2. CASE Show(w, r)
    BY <2>2 DEF Show, rowVars
  <2>3. CASE MarkSent(w, r)
    BY <2>3, NameAssumption DEF MarkSent, SetRows, Shown
  <2>4. CASE TransientFailure(w, r) \/ Refused(w, r) \/ Reroute(w, r)
    BY <2>4 DEF TransientFailure, Refused, Reroute, SetRows
  <2> QED BY <2>1, <2>2, <2>3, <2>4
<1>9. ASSUME NEW w \in Workers, NEW r \in Rows, GiveBack(w, r)
      PROVE  SettledMeansSeen'
  BY <1>9 DEF GiveBack, SetRows
<1>10. CASE UNCHANGED vars
  BY <1>10 DEF vars, rowVars
<1> QED
  BY <1>1, <1>2, <1>3, <1>4, <1>5, <1>6, <1>7, <1>8, <1>9, <1>10 DEF Next

(* As long as no two rows carry the same payload, nothing is recorded as   *)
(* sent, or skipped as a duplicate, that Telegram has not shown: also when *)
(* workers overlap, are slow, crash, stop or fail to write.                *)
THEOREM NothingIsWrittenOff ==
    ASSUME DistinctContents
    PROVE  Spec => []SettledMeansSeen
<1>1. Init => Inv
  BY TypeInit DEF Init, Inv, Shown, SettledMeansSeen
<1>2. Inv /\ [Next]_vars => Inv'
  BY TypeStep, ShownStep, SeenStep DEF Inv
<1>3. Inv => SettledMeansSeen
  BY DEF Inv
<1> QED BY <1>1, <1>2, <1>3, PTL DEF Spec
-----------------------------------------------------------------------------
(* The refinement needs more: that no claim is taken from a live worker.   *)
(* What a worker holds is in sending, under its claim, and too young to be *)
(* an orphan; what it has in flight it holds; between batches it holds     *)
(* nothing.                                                                *)
Busy == {"run", "recover", "giveback"}

Exclusive ==
    /\ \A w \in Workers : \A r \in jobs[w] :
          state[r] = "sending" /\ claim[r] = w /\ age[r] < 2
    /\ \A w \in Workers : inflight[w] # NoRow => inflight[w] \in jobs[w]
    /\ \A w \in Workers : mode[w] \notin Busy => jobs[w] = {}
    /\ \A r \in Rows : state[r] # "sending" => age[r] = 0

(* What one delivery or requeue does to the rows and the worker's hold.    *)
LEMMA LetGo ==
    ASSUME TypeOK, Exclusive, NEW w \in Workers, NEW r \in jobs[w], NEW next \in Busy,
           NEW s \in States \ {"sending"}, SetRows({r}, s), DoneWith(w, r, next)
    PROVE  Exclusive'
BY NameAssumption DEF TypeOK, Exclusive, SetRows, DoneWith, States

LEMMA ExclusiveStep ==
    ASSUME ~MaySlow, TypeOK, Exclusive, [Next]_vars
    PROVE  Exclusive'
<1> USE DEF Busy
<1>1. ASSUME NEW r \in Rows, Enqueue(r) PROVE Exclusive'
  BY <1>1 DEF TypeOK, Exclusive, Enqueue, workerVars
<1>2. CASE LoseTopic
  BY <1>2 DEF Exclusive, LoseTopic, rowVars, workerVars
<1>3. CASE ClaimsAge
  BY <1>3 DEF TypeOK, Exclusive, ClaimsAge, Sending, workerVars
<1>4. ASSUME NEW w \in Workers, Start(w) \/ Pause(w) PROVE Exclusive'
  BY <1>4 DEF TypeOK, Exclusive, Start, Pause, rowVars
<1>5. ASSUME NEW w \in Workers, Blip(w) \/ Crash(w) PROVE Exclusive'
  BY <1>5 DEF TypeOK, Exclusive, Blip, Crash, Gone, rowVars
<1>6. ASSUME NEW w \in Workers, Recover(w) PROVE Exclusive'
  BY <1>6, NameAssumption DEF TypeOK, Exclusive, Recover, Orphans, Sending
<1>7. ASSUME NEW w \in Workers, NEW t \in {"topic", "general"}, Claim(w, t)
      PROVE  Exclusive'
  BY <1>7, BatchWaits, NameAssumption DEF TypeOK, Exclusive, Claim
<1>8. ASSUME NEW w \in Workers, Stop(w) PROVE Exclusive'
  BY <1>8, NameAssumption DEF TypeOK, Exclusive, Stop, Gone, Held, Sending
<1>9. ASSUME NEW w \in Workers, Deliver(w) PROVE Exclusive'
  <2> PICK r \in Rows : \/ Skip(w, r) \/ Show(w, r) \/ MarkSent(w, r)
                        \/ TransientFailure(w, r) \/ Refused(w, r)
                        \/ Reroute(w, r)
    BY <1>9 DEF Deliver
  <2> r \in jobs[w]
    BY NameAssumption DEF Exclusive, Skip, Show, MarkSent, TransientFailure,
       Refused, Reroute, AtHead, Heads
  <2> mode[w] \in Busy /\ AfterDeferral(w) \in Busy
    BY DEF TypeOK, Exclusive, AfterDeferral
  <2>1. CASE Show(w, r)
    BY <2>1 DEF TypeOK, Exclusive, Show, rowVars
  <2>2. CASE Skip(w, r)
    BY <2>2, LetGo DEF Skip, States
  <2>3. CASE MarkSent(w, r)
    BY <2>3, LetGo DEF MarkSent, States
  <2>4. CASE TransientFailure(w, r)
    BY <2>4, LetGo DEF TransientFailure, States
  <2>5. CASE Refused(w, r)
    BY <2>5, LetGo DEF Refused, States
  <2>6. CASE Reroute(w, r)
    BY <2>6, LetGo DEF Reroute, States
  <2> QED BY <2>1, <2>2, <2>3, <2>4, <2>5, <2>6
<1>10. ASSUME NEW w \in Workers, NEW r \in Rows, GiveBack(w, r) PROVE Exclusive'
  BY <1>10, LetGo DEF GiveBack, States
<1>11. CASE UNCHANGED vars
  BY <1>11 DEF Exclusive, vars, rowVars, workerVars
<1> QED
  BY <1>1, <1>2, <1>3, <1>4, <1>5, <1>6, <1>7, <1>8, <1>9, <1>10, <1>11
  DEF Next

-----------------------------------------------------------------------------
(* The fate of a row before and after a step.                              *)
Owed == {"pending", "sending"}

LEMMA FateOf ==
    ASSUME TypeOK
    PROVE  /\ Fate \in [Rows -> Promise!Fates]
           /\ \A r \in Rows :
                /\ Fate[r] = "absent" <=> state[r] = "absent"
                /\ Fate[r] = "owed" <=> state[r] \in Owed
                /\ Fate[r] = "delivered" <=> state[r] = "sent"
                /\ Fate[r] = "dropped" <=> state[r] \in {"failed", "skipped"}
BY DEF TypeOK, Fate, States, Promise!Fates, Owed

LEMMA FateThen ==
    ASSUME TypeOK'
    PROVE  /\ Fate' \in [Rows -> Promise!Fates]
           /\ \A r \in Rows :
                /\ Fate'[r] = "absent" <=> state'[r] = "absent"
                /\ Fate'[r] = "owed" <=> state'[r] \in Owed
                /\ Fate'[r] = "delivered" <=> state'[r] = "sent"
                /\ Fate'[r] = "dropped" <=> state'[r] \in {"failed", "skipped"}
BY DEF TypeOK, Fate, States, Promise!Fates, Owed

(* A step that only moves rows between pending and sending is invisible.   *)
LEMMA Invisible ==
    ASSUME TypeOK, TypeOK', seen' = seen,
           \A r \in Rows : \/ state'[r] = state[r]
                           \/ state[r] \in Owed /\ state'[r] \in Owed
    PROVE  UNCHANGED Promise!vars
<1>1. \A r \in Rows : Fate'[r] = Fate[r]
  BY FateOf, FateThen DEF Promise!Fates
<1>2. Fate' = Fate
  BY <1>1 DEF Fate
<1> QED BY <1>2 DEF Promise!vars

LEMMA SettleOne ==
    ASSUME TypeOK, TypeOK', seen' = seen, NEW r \in Rows,
           state[r] = "sending", NEW s \in Settled, SetRows({r}, s),
           s = "sent" => r \in seen
    PROVE  Promise!Next
<1>1. /\ Fate[r] = "owed"
      /\ Fate'[r] \in {"delivered", "dropped"}
      /\ r \notin seen => Fate'[r] = "dropped"
  BY FateOf, FateThen DEF SetRows, Settled, Owed
<1>2. \A q \in Rows \ {r} : Fate'[q] = Fate[q]
  BY FateOf, FateThen DEF SetRows, Promise!Fates
<1>3. Promise!Settle({r})
  BY <1>1, <1>2, FateThen DEF Promise!Settle
<1> QED BY <1>3 DEF Promise!Next

LEMMA RefinementStep ==
    ASSUME DistinctContents, TypeOK, TypeOK', Shown, Exclusive, [Next]_vars
    PROVE  [Promise!Next]_(Promise!vars)
<1> USE DEF Owed
<1>1. ASSUME NEW r \in Rows, Enqueue(r) PROVE Promise!Next
  <2>1. Fate[r] = "absent" /\ Fate'[r] = "owed"
    BY <1>1, FateOf, FateThen DEF TypeOK, Enqueue
  <2>2. \A q \in Rows \ {r} : Fate'[q] = Fate[q]
    BY <1>1, FateOf, FateThen DEF TypeOK, Enqueue, Promise!Fates
  <2>3. Fate' = [Fate EXCEPT ![r] = "owed"]
    BY <2>1, <2>2, FateOf, FateThen
  <2> QED BY <2>1, <2>3, <1>1 DEF Enqueue, Promise!Next, Promise!Promise
<1>2. CASE LoseTopic \/ ClaimsAge
  BY <1>2, Invisible DEF LoseTopic, ClaimsAge, rowVars
<1>3. ASSUME NEW w \in Workers, Start(w) \/ Pause(w) \/ Blip(w) \/ Crash(w)
      PROVE  UNCHANGED Promise!vars
  BY <1>3, Invisible DEF Start, Pause, Blip, Crash, rowVars
<1>4. ASSUME NEW w \in Workers, Recover(w) PROVE UNCHANGED Promise!vars
  BY <1>4, Invisible, NoTwins DEF TypeOK, Recover, Orphans, Sending
<1>5. ASSUME NEW w \in Workers, NEW t \in {"topic", "general"}, Claim(w, t)
      PROVE  UNCHANGED Promise!vars
  BY <1>5, Invisible, BatchWaits DEF TypeOK, Claim
<1>6. ASSUME NEW w \in Workers, Stop(w) PROVE UNCHANGED Promise!vars
  BY <1>6, Invisible, NoTwins DEF TypeOK, Stop, Held, Sending
<1>7. ASSUME NEW w \in Workers, NEW r \in Rows, GiveBack(w, r)
      PROVE  UNCHANGED Promise!vars
  BY <1>7, Invisible DEF TypeOK, Exclusive, GiveBack, SetRows
<1>8. ASSUME NEW w \in Workers, Deliver(w)
      PROVE  [Promise!Next]_(Promise!vars)
  <2> PICK r \in Rows : \/ Skip(w, r) \/ Show(w, r) \/ MarkSent(w, r)
                        \/ TransientFailure(w, r) \/ Refused(w, r)
                        \/ Reroute(w, r)
    BY <1>8 DEF Deliver
  <2> r \in jobs[w] /\ state[r] = "sending"
    BY NameAssumption DEF Exclusive, Skip, Show, MarkSent, TransientFailure,
       Refused, Reroute, AtHead, Heads
  <2>1. CASE Show(w, r)
    <3>1. Fate[r] = "owed" /\ Fate' = Fate
      BY <2>1, FateOf DEF Show, rowVars, Fate
    <3> QED BY <2>1, <3>1 DEF Show, Promise!Next, Promise!Show
  <2>2. CASE Skip(w, r)
    BY <2>2, SettleOne DEF Skip, Settled
  <2>3. CASE MarkSent(w, r)
    BY <2>3, SettleOne, NameAssumption DEF MarkSent, Settled, Shown
  <2>4. CASE Refused(w, r)
    BY <2>4, SettleOne DEF Refused, Settled
  <2>5. CASE TransientFailure(w, r) /\ SetRows({r}, "failed")
    BY <2>5, SettleOne DEF TransientFailure, Settled
  <2>6. CASE TransientFailure(w, r) /\ SetRows({r}, "pending")
    BY <2>6, Invisible DEF TransientFailure, SetRows
  <2>7. CASE Reroute(w, r)
    BY <2>7, Invisible DEF Reroute, SetRows
  <2> QED
    BY <2>1, <2>2, <2>3, <2>4, <2>5, <2>6, <2>7 DEF TransientFailure
<1>9. CASE UNCHANGED vars
  BY <1>9, Invisible DEF vars, rowVars
<1> QED
  BY <1>1, <1>2, <1>3, <1>4, <1>5, <1>6, <1>7, <1>8, <1>9 DEF Next

(* With payloads that differ and workers that are done with a batch before *)
(* its claim is orphaned, the outbox implements the at-least-once promise: *)
(* a row counts as delivered only if shown, and a settled row stays so.    *)
THEOREM TheOutboxKeepsItsPromise ==
    ASSUME DistinctContents, ~MaySlow
    PROVE  Spec => KeepsThePromise
<1> DEFINE IInv == TypeOK /\ Shown /\ Exclusive
<1>1. Init => IInv
  BY TypeInit DEF Init, Shown, Exclusive, Busy
<1>2. IInv /\ [Next]_vars => IInv'
  BY TypeStep, ShownStep, ExclusiveStep
<1>3. Init => Promise!Init
  BY DEF Init, Promise!Init, Fate
<1>4. IInv /\ IInv' /\ [Next]_vars => [Promise!Next]_(Promise!vars)
  BY RefinementStep
<1> QED BY <1>1, <1>2, <1>3, <1>4, PTL DEF Spec, KeepsThePromise, Promise!Spec

-----------------------------------------------------------------------------
(* What a step does to what a worker has in flight and to a row that is    *)
(* sent: only a show adds to either, and a sent row is never touched.      *)
LEMMA OnlyShowShows ==
    ASSUME TypeOK, [Next]_vars
    PROVE  /\ \A r \in seen' \ seen : \E w \in Workers : inflight'[w] = r
           /\ \A r \in Rows, w \in Workers :
                inflight[w] # r /\ inflight'[w] = r => Show(w, r)
<1> USE NameAssumption DEF rowVars, workerVars
<1>1. ASSUME NEW r \in Rows, Enqueue(r) PROVE UNCHANGED <<seen, inflight>>
  BY <1>1 DEF Enqueue
<1>2. ASSUME NEW w \in Workers,
             \/ Start(w) \/ Recover(w) \/ Pause(w)
             \/ \E t \in {"topic", "general"} : Claim(w, t)
      PROVE  UNCHANGED <<seen, inflight>>
  BY <1>2 DEF Start, Recover, Claim, Pause
<1>3. ASSUME NEW w \in Workers, Blip(w) \/ Stop(w) \/ Crash(w)
      PROVE  seen' = seen /\ inflight' = [inflight EXCEPT ![w] = NoRow]
  BY <1>3 DEF Blip, Stop, Crash, Gone
<1>4. ASSUME NEW w \in Workers, NEW q \in Rows,
             \/ GiveBack(w, q) \/ Skip(w, q) \/ MarkSent(w, q)
             \/ TransientFailure(w, q) \/ Refused(w, q) \/ Reroute(w, q)
      PROVE  seen' = seen /\ inflight' = [inflight EXCEPT ![w] = NoRow]
  BY <1>4 DEF GiveBack, Skip, MarkSent, TransientFailure, Refused, Reroute, DoneWith
<1>5. ASSUME NEW w \in Workers, NEW q \in Rows, Show(w, q)
      PROVE  seen' = seen \union {q} /\ inflight' = [inflight EXCEPT ![w] = q]
  BY <1>5 DEF Show
<1>6. CASE UNCHANGED <<seen, inflight>>
  BY <1>6
<1>7. ASSUME NEW w \in Workers, seen' = seen,
             inflight' = [inflight EXCEPT ![w] = NoRow]
      PROVE  /\ \A r \in seen' \ seen : \E v \in Workers : inflight'[v] = r
             /\ \A r \in Rows, v \in Workers :
                  inflight[v] # r /\ inflight'[v] = r => Show(v, r)
  BY <1>7 DEF TypeOK
<1>8. ASSUME NEW w \in Workers, NEW q \in Rows, Show(w, q)
      PROVE  /\ \A r \in seen' \ seen : \E v \in Workers : inflight'[v] = r
             /\ \A r \in Rows, v \in Workers :
                  inflight[v] # r /\ inflight'[v] = r => Show(v, r)
  BY <1>5, <1>8 DEF TypeOK
<1>9. ASSUME LoseTopic \/ ClaimsAge \/ UNCHANGED vars
      PROVE  UNCHANGED <<seen, inflight>>
  BY <1>9 DEF LoseTopic, ClaimsAge, vars
<1> QED
  BY <1>1, <1>2, <1>3, <1>4, <1>6, <1>7, <1>8, <1>9 DEF Next, Deliver

LEMMA SentStays ==
    ASSUME TypeOK, Exclusive, [Next]_vars, NEW r \in Rows, state[r] = "sent"
    PROVE  state'[r] = "sent"
<1> USE DEF rowVars, workerVars
<1>1. ASSUME NEW q \in Rows, Enqueue(q) PROVE state'[r] = "sent"
  BY <1>1 DEF Enqueue, TypeOK
<1>2. CASE LoseTopic \/ ClaimsAge \/ UNCHANGED vars
  BY <1>2 DEF LoseTopic, ClaimsAge, vars
<1>3. ASSUME NEW w \in Workers, Start(w) \/ Pause(w) \/ Blip(w) \/ Crash(w)
      PROVE  state'[r] = "sent"
  BY <1>3 DEF Start, Pause, Blip, Crash
<1>4. ASSUME NEW w \in Workers, Recover(w) PROVE state'[r] = "sent"
  BY <1>4 DEF Recover, Orphans, Sending
<1>5. ASSUME NEW w \in Workers, NEW t \in {"topic", "general"}, Claim(w, t)
      PROVE  state'[r] = "sent"
  BY <1>5, BatchWaits DEF Claim
<1>6. ASSUME NEW w \in Workers, Stop(w) PROVE state'[r] = "sent"
  BY <1>6 DEF Stop, Held, Sending
<1>7. ASSUME NEW w \in Workers, NEW q \in Rows,
             \/ GiveBack(w, q) \/ Skip(w, q) \/ MarkSent(w, q)
             \/ TransientFailure(w, q) \/ Refused(w, q) \/ Reroute(w, q)
             \/ Show(w, q)
      PROVE  state'[r] = "sent"
  <2>1. q \in jobs[w] /\ state[q] = "sending"
    BY <1>7, NameAssumption DEF Exclusive, Skip, Show, MarkSent, TransientFailure,
       Refused, Reroute, GiveBack, AtHead, Heads
  <2> QED
    BY <1>7, <2>1 DEF Skip, Show, MarkSent, TransientFailure, Refused, Reroute,
       GiveBack, SetRows
<1> QED BY <1>1, <1>2, <1>3, <1>4, <1>5, <1>6, <1>7 DEF Next, Deliver

(* A row Telegram has shown, and not by a send that went unrecorded, is    *)
(* recorded or about to be.                                                *)
Once ==
    \A r \in seen \ lost : state[r] = "sent" \/ \E w \in Workers : inflight[w] = r

LEMMA OnceStep ==
    ASSUME TypeOK, Exclusive, Once, [Next]_vars, lost' = lost \union Unrecorded
    PROVE  Once'
<1> SUFFICES ASSUME NEW r \in seen' \ lost'
             PROVE  state'[r] = "sent" \/ \E w \in Workers : inflight'[w] = r
  BY DEF Once
<1>1. CASE r \notin seen
  BY <1>1, OnlyShowShows
<1>2. CASE r \in seen
  <2>1. r \in Rows /\ r \notin lost /\ r \notin Unrecorded
    BY <1>2 DEF TypeOK
  <2>2. CASE state[r] = "sent"
    BY <2>1, <2>2, SentStays
  <2>3. ASSUME NEW w \in Workers, inflight[w] = r
        PROVE  inflight'[w] = r \/ state'[r] = "sent"
    BY <2>1, <2>3 DEF Unrecorded
  <2> QED BY <1>2, <2>1, <2>2, <2>3 DEF Once
<1> QED BY <1>1, <1>2

(* A worker about to show a row holds it alone. *)
LEMMA OnceShows ==
    ASSUME TypeOK, Exclusive, Once, NEW w \in Workers, NEW r \in Rows, Show(w, r)
    PROVE  r \notin seen \/ r \in lost
<1>1. r \in jobs[w] /\ state[r] = "sending" /\ claim[r] = w /\ inflight[w] = NoRow
  BY DEF Show, AtHead, Heads, Exclusive
<1>2. ASSUME NEW v \in Workers, inflight[v] = r PROVE FALSE
  <2>1. r \in jobs[v]
    BY <1>2, NameAssumption DEF Exclusive
  <2>2. v = w
    BY <1>1, <2>1 DEF Exclusive
  <2> QED BY <1>1, <1>2, <2>2, NameAssumption
<1> QED BY <1>1, <1>2 DEF Once

(* A part is shown twice only when an earlier send of it was never         *)
(* recorded: for any workers, overlapping or not, that crash, stop or fail *)
(* anywhere, as long as none holds a claim past its time.                  *)
THEOREM APartIsShownOnce ==
    ASSUME ~MaySlow
    PROVE  ReaderSpec => ShownOnce
<1> DEFINE IInv == TypeOK /\ Exclusive /\ Once
           Read == Next /\ lost' = lost \union Unrecorded
<1>1. ReaderInit => IInv
  BY TypeInit DEF ReaderInit, Init, Exclusive, Once, Busy
<1>2. IInv /\ [Read]_<<vars, lost>> => IInv'
  <2>1. ASSUME IInv, Read PROVE IInv'
    BY <2>1, TypeStep, ExclusiveStep, OnceStep
  <2>2. ASSUME IInv, UNCHANGED <<vars, lost>> PROVE IInv'
    <3>1. TypeOK' /\ Exclusive'
      BY <2>2, TypeStep, ExclusiveStep
    <3> QED BY <2>2, <3>1 DEF Once, vars, rowVars, workerVars
  <2> QED BY <2>1, <2>2
<1>3. IInv /\ [Read]_<<vars, lost>>
        => [\A r \in Rows : \A w \in Workers :
              (inflight[w] # r /\ inflight'[w] = r)
                  => r \notin seen \/ r \in lost]_<<vars, lost>>
  BY OnlyShowShows, OnceShows
<1> QED BY <1>1, <1>2, <1>3, PTL DEF ReaderSpec, ShownOnce

-----------------------------------------------------------------------------
(* One process after another: only the worker that is up holds rows, rows  *)
(* are queued in order, and in a claimed batch no row waits that comes     *)
(* before one the worker holds.                                            *)
Alone ==
    /\ \A v, w \in Workers : Up(v) /\ Up(w) => v = w
    /\ \A w \in Workers : mode[w] \notin Busy => jobs[w] = {}
    /\ \A w \in Workers : \A r \in jobs[w] : state[r] = "sending" /\ claim[r] = w
    /\ \A w \in Workers : inflight[w] # NoRow => inflight[w] \in jobs[w]

InOrder ==
    /\ \A q, r \in Rows : q < r /\ state[q] = "absent" => state[r] = "absent"
    /\ \A w \in Workers : mode[w] = "run" =>
          \A r \in jobs[w] : \A q \in Rows :
             q < r /\ thread[q] = thread[r] => state[q] # "pending"

LEMMA BatchIsFirst ==
    ASSUME NEW t, NEW r \in Batch(t), NEW q \in Waiting(t), q < r
    PROVE  q \in Batch(t)
<1> DEFINE before(n) == {p \in Waiting(t) : p < n}
<1>1. q \in Nat /\ r \in Nat /\ Waiting(t) \subseteq Nat
  BY RowsAssumption DEF Batch, Waiting
<1>2. before(r) \in SUBSET (0..r) /\ before(q) \in SUBSET before(r)
  <2>1. \A p \in before(r) : p \in 0..r
    BY <1>1
  <2>2. \A p \in before(q) : p \in before(r)
    BY <1>1
  <2> QED BY <2>1, <2>2
<1>3. IsFiniteSet(before(r))
  <2>1. IsFiniteSet(0..r)
    BY <1>1, FS_Interval
  <2> HIDE DEF before
  <2> QED BY <1>2, <2>1, FS_Subset
<1>4. /\ Cardinality(before(q)) <= Cardinality(before(r))
      /\ Cardinality(before(q)) \in Nat /\ Cardinality(before(r)) \in Nat
  BY <1>2, <1>3, FS_Subset, FS_CardinalityType
<1>5. Cardinality(before(r)) < BatchSize
  BY DEF Batch
<1>6. Cardinality(before(q)) < BatchSize
  BY <1>4, <1>5, LimitAssumption
<1> QED BY <1>6 DEF Batch

(* A row let go of by the worker that is up. *)
LEMMA AloneLetsGo ==
    ASSUME TypeOK, Alone, NEW w \in Workers, NEW r \in jobs[w], NEW next \in Busy,
           mode[w] \in Busy, NEW s \in States \ {"sending"}, SetRows({r}, s),
           DoneWith(w, r, next)
    PROVE  Alone'
BY NameAssumption DEF TypeOK, Alone, SetRows, DoneWith, States, Busy, Up

LEMMA OrderLetsGo ==
    ASSUME TypeOK, Alone, InOrder, NEW w \in Workers, NEW r \in jobs[w], NEW next \in Busy,
           mode[w] \in Busy, NEW s \in Settled \union {"pending"}, SetRows({r}, s),
           DoneWith(w, r, next), next = "run" => mode[w] = "run" /\ s \in Settled,
           \A q \in Rows \ {r} : thread'[q] = thread[q],
           s \in Settled => thread' = thread
    PROVE  InOrder'
<1>1. state[r] = "sending" /\ r \in Rows
  BY DEF Alone, TypeOK
<1>2. \A q, p \in Rows : q < p /\ state'[q] = "absent" => state'[p] = "absent"
  BY <1>1 DEF InOrder, SetRows, Settled
<1>3. ASSUME NEW v \in Workers, mode'[v] = "run" PROVE v = w /\ next = "run"
  BY <1>3 DEF TypeOK, Alone, DoneWith, Busy, Up, Modes
<1>4. ASSUME next = "run", mode'[w] = "run",
             NEW p \in jobs'[w], NEW q \in Rows, q < p, thread'[q] = thread'[p]
      PROVE  state'[q] # "pending"
  <2>1. p \in jobs[w] /\ p # r /\ thread' = thread /\ s # "pending"
    BY <1>4 DEF DoneWith, TypeOK, Settled
  <2> QED BY <1>4, <2>1 DEF InOrder, SetRows
<1> QED BY <1>2, <1>3, <1>4 DEF InOrder

LEMMA AloneStep ==
    ASSUME ~MayOverlap, TypeOK, Alone, InOrder, [Next]_vars
    PROVE  Alone' /\ InOrder'
<1> USE DEF Busy, Up
<1>1. ASSUME NEW r \in Rows, Enqueue(r) PROVE Alone' /\ InOrder'
  <2>1. Alone'
    BY <1>1 DEF TypeOK, Alone, Enqueue, workerVars
  <2>2. \A q, p \in Rows : q < p /\ state'[q] = "absent" => state'[p] = "absent"
    BY <1>1, RowsAssumption DEF TypeOK, InOrder, Enqueue
  <2>3. ASSUME NEW w \in Workers, mode'[w] = "run", NEW p \in jobs'[w],
               NEW q \in Rows, q < p, thread'[q] = thread'[p]
        PROVE  state'[q] # "pending"
    <3>1. p \in jobs[w] /\ mode[w] = "run" /\ p \in Rows /\ state[p] = "sending"
      BY <1>1, <2>3 DEF Enqueue, workerVars, Alone, TypeOK
    <3>2. q # r
      BY <1>1, <2>3, <3>1 DEF Enqueue, InOrder
    <3>3. p # r /\ thread[q] = thread[p]
      BY <1>1, <2>3, <3>1, <3>2 DEF Enqueue, TypeOK
    <3> QED BY <1>1, <2>3, <3>1, <3>2, <3>3 DEF Enqueue, InOrder, TypeOK
  <2> QED BY <2>1, <2>2, <2>3 DEF InOrder
<1>2. CASE LoseTopic
  BY <1>2 DEF Alone, InOrder, LoseTopic, rowVars, workerVars
<1>3. CASE ClaimsAge
  BY <1>3 DEF Alone, InOrder, ClaimsAge, workerVars
<1>4. ASSUME NEW w \in Workers, Start(w) \/ Pause(w) PROVE Alone' /\ InOrder'
  BY <1>4 DEF TypeOK, Alone, InOrder, Start, Pause, rowVars
<1>5. ASSUME NEW w \in Workers, Blip(w) \/ Crash(w) PROVE Alone' /\ InOrder'
  <2>1. CASE Blip(w)
    <3>1. Alone'
      BY <2>1 DEF TypeOK, Alone, Blip, rowVars
    <3>2. InOrder'
      BY <2>1 DEF TypeOK, InOrder, Blip, rowVars
    <3> QED BY <3>1, <3>2
  <2>2. CASE Crash(w)
    <3>1. Alone'
      BY <2>2 DEF TypeOK, Alone, Crash, Gone, rowVars
    <3>2. InOrder'
      BY <2>2 DEF TypeOK, InOrder, Crash, Gone, rowVars
    <3> QED BY <3>1, <3>2
  <2> QED BY <1>5, <2>1, <2>2
<1>6. ASSUME NEW w \in Workers, Recover(w) PROVE Alone' /\ InOrder'
  <2>1. \A v \in Workers \ {w} : jobs[v] = {} /\ mode[v] \notin Busy
    BY <1>6 DEF TypeOK, Alone, Recover
  <2>2. Alone'
    BY <1>6, <2>1, NameAssumption DEF TypeOK, Alone, Recover, Orphans, Sending
  <2>3. \A v \in Workers : mode'[v] # "run"
    BY <1>6, <2>1 DEF TypeOK, Recover
  <2>4. \A q, p \in Rows : q < p /\ state'[q] = "absent" => state'[p] = "absent"
    BY <1>6 DEF InOrder, Recover, Orphans, Sending
  <2> QED BY <2>2, <2>3, <2>4 DEF InOrder
<1>7. ASSUME NEW w \in Workers, NEW t \in {"topic", "general"}, Claim(w, t)
      PROVE  Alone' /\ InOrder'
  <2>1. \A v \in Workers \ {w} : jobs[v] = {} /\ mode[v] \notin Busy
    BY <1>7 DEF TypeOK, Alone, Claim
  <2>2. Alone'
    BY <1>7, <2>1, BatchWaits, NameAssumption DEF TypeOK, Alone, Claim
  <2>3. \A q, p \in Rows : q < p /\ state'[q] = "absent" => state'[p] = "absent"
    BY <1>7, BatchWaits DEF InOrder, Claim
  <2>4. ASSUME NEW v \in Workers, mode'[v] = "run", NEW r \in jobs'[v],
               NEW q \in Rows, q < r, thread'[q] = thread'[r]
        PROVE  state'[q] # "pending"
    <3>1. v = w /\ r \in Batch(t)
      BY <1>7, <2>1, <2>4 DEF Claim, TypeOK
    <3>2. thread[r] = t /\ thread[q] = t
      BY <1>7, <2>4, <3>1 DEF Claim, Batch, Waiting
    <3>3. CASE state[q] = "pending"
      <4>1. q \in Batch(t)
        BY <2>4, <3>1, <3>2, <3>3, BatchIsFirst DEF Waiting
      <4> QED BY <1>7, <4>1 DEF Claim
    <3> QED BY <1>7, <3>3 DEF Claim
  <2> QED BY <2>2, <2>3, <2>4 DEF InOrder
<1>8. ASSUME NEW w \in Workers, Stop(w) PROVE Alone' /\ InOrder'
  <2>1. \A v \in Workers \ {w} : jobs[v] = {} /\ mode[v] \notin Busy
    BY <1>8 DEF TypeOK, Alone, Stop
  <2>2. Alone'
    BY <1>8, <2>1, NameAssumption DEF TypeOK, Alone, Stop, Gone, Held, Sending
  <2>3. \A v \in Workers : mode'[v] # "run"
    BY <1>8, <2>1 DEF TypeOK, Stop, Gone
  <2>4. \A q, p \in Rows : q < p /\ state'[q] = "absent" => state'[p] = "absent"
    BY <1>8 DEF InOrder, Stop, Held, Sending
  <2> QED BY <2>2, <2>3, <2>4 DEF InOrder
<1>9. ASSUME NEW w \in Workers, Deliver(w) PROVE Alone' /\ InOrder'
  <2> PICK r \in Rows : \/ Skip(w, r) \/ Show(w, r) \/ MarkSent(w, r)
                        \/ TransientFailure(w, r) \/ Refused(w, r)
                        \/ Reroute(w, r)
    BY <1>9 DEF Deliver
  <2>1. r \in jobs[w] /\ mode[w] \in Busy
    BY NameAssumption DEF Alone, Skip, Show, MarkSent, TransientFailure,
       Refused, Reroute, AtHead, Heads
  <2>2. AfterDeferral(w) \in Busy \ {"run"}
    BY <2>1 DEF AfterDeferral
  <2>3. CASE Show(w, r)
    BY <2>1, <2>3 DEF TypeOK, Alone, InOrder, Show, rowVars
  <2>4. CASE Skip(w, r)
    BY <2>1, <2>4, AloneLetsGo, OrderLetsGo DEF Skip, States, Settled
  <2>5. CASE MarkSent(w, r)
    BY <2>1, <2>5, AloneLetsGo, OrderLetsGo DEF MarkSent, States, Settled
  <2>6. CASE TransientFailure(w, r)
    BY <2>1, <2>2, <2>6, AloneLetsGo, OrderLetsGo DEF TransientFailure, States, Settled
  <2>7. CASE Refused(w, r)
    BY <2>1, <2>7, AloneLetsGo, OrderLetsGo DEF Refused, States, Settled
  <2>8. CASE Reroute(w, r)
    <3>1. \A q \in Rows \ {r} : thread'[q] = thread[q]
      BY <2>8 DEF Reroute, TypeOK
    <3> QED
      BY <2>1, <2>2, <2>8, <3>1, AloneLetsGo, OrderLetsGo DEF Reroute, States, Settled
  <2> QED BY <2>3, <2>4, <2>5, <2>6, <2>7, <2>8
<1>10. ASSUME NEW w \in Workers, NEW r \in Rows, GiveBack(w, r)
       PROVE  Alone' /\ InOrder'
  BY <1>10, AloneLetsGo, OrderLetsGo DEF GiveBack, States, Settled
<1>11. CASE UNCHANGED vars
  BY <1>11 DEF Alone, InOrder, vars, rowVars, workerVars
<1> QED
  BY <1>1, <1>2, <1>3, <1>4, <1>5, <1>6, <1>7, <1>8, <1>9, <1>10, <1>11
  DEF Next

(* One process after another, the reader of a topic never sees a part      *)
(* before an earlier one still owed, unless a dead or failed worker left   *)
(* that one in sending: for any rows, any batch size, and every crash,     *)
(* stop, failure and slow claim in between.                                *)
THEOREM ATopicReadsInOrder ==
    ASSUME ~MayOverlap
    PROVE  Spec => TopicOrderIsExact
<1> DEFINE IInv == TypeOK /\ Alone /\ InOrder
           Ordered ==
             \A r \in Rows : \A w \in Workers :
               (inflight[w] # r /\ inflight'[w] = r /\ mode[w] = "run") =>
                  \A q \in Rows : (q < r /\ thread[q] = thread[r]
                                   /\ state[q] \in {"pending", "sending"})
                                  => q \in seen \/ Stranded(q)
<1>1. Init => IInv
  BY TypeInit DEF Init, Alone, InOrder, Busy, Up
<1>2. IInv /\ [Next]_vars => IInv'
  BY TypeStep, AloneStep
<1>3. ASSUME IInv, [Next]_vars PROVE Ordered
  <2> SUFFICES ASSUME NEW r \in Rows, NEW w \in Workers, NEW q \in Rows,
                      inflight[w] # r, inflight'[w] = r, mode[w] = "run",
                      q < r, thread[q] = thread[r],
                      state[q] \in {"pending", "sending"}
               PROVE  Stranded(q)
    OBVIOUS
  <2>1. r \in Heads(w)
    BY <1>3, OnlyShowShows DEF Show, AtHead
  <2>2. q \notin jobs[w]
    BY <1>3, <2>1, RowsAssumption DEF Heads
  <2>3. \A v \in Workers \ {w} : jobs[v] = {}
    BY <1>3 DEF Alone, Busy, Up
  <2>4. state[q] # "pending"
    BY <1>3, <2>1 DEF InOrder, Heads
  <2> QED BY <2>2, <2>3, <2>4 DEF Stranded
<1>4. IInv /\ [Next]_vars => [Ordered]_vars
  BY <1>3
<1> QED BY <1>1, <1>2, <1>4, PTL DEF Spec, TopicOrderIsExact, Stranded
=============================================================================
