------------------------------- MODULE Outbox --------------------------------
(***************************************************************************)
(* ctb/delivery/outbox.py over ctb/db/repo/deliveries.py: the queue of one *)
(* session's rendered parts, claimed in batches by worker processes that   *)
(* send them to Telegram and record the outcome.  A worker is one life of  *)
(* the process, with a claim id of its own: two may overlap in a redeploy, *)
(* and any may crash between Telegram's answer and the write that records  *)
(* it.  Telegram is external.                                              *)
(*                                                                         *)
(* Which destination is served next, the hold while a turn runs and the    *)
(* pauses Telegram asks for are Pacing's: here a claim of either thread    *)
(* may come next, and a pause may be met before any send.  Left out: how   *)
(* a part is rendered.                                                     *)
(***************************************************************************)
EXTENDS Naturals, FiniteSets

CONSTANTS
    Rows,           \* delivery rows, numbered in (session_index, part_index)
    Content,        \* content_hash of each row
    Activity,       \* rows that never go out: activity lines, unreadable ones
    Workers,        \* lives of the process
    NoRow, NoWorker,
    BatchSize, MaxAttempts,
    MayOverlap,     \* may two lives run at once?
    MaySlow,        \* may a live worker hold a claim past ORPHAN_AFTER_MS?
    MayCrash, MayStop, MayBlip, MayFail, MayLoseTopic

ASSUME RowsAssumption == Rows \subseteq Nat /\ Activity \subseteq Rows

ASSUME LimitAssumption ==
    /\ BatchSize \in Nat \ {0}
    /\ MaxAttempts \in Nat \ {0}

ASSUME NameAssumption == NoRow \notin Rows /\ NoWorker \notin Workers

VARIABLES
    state,      \* deliveries.state ("absent" before the row is queued)
    claim,      \* deliveries.claim_id
    age,        \* of a claim, in halves of ORPHAN_AFTER_MS: 2 is orphaned
    thread,     \* deliveries.thread_id: the session's topic, or General
    attempts,   \* deliveries.attempts
    topic,      \* the forum topic: "live", "gone", or "released" by room_gone
    mode,       \* what each worker is doing
    jobs,       \* the rows each worker still holds of its batch
    inflight,   \* the row Telegram has accepted but the worker not recorded
    seen        \* rows shown in Telegram

rowVars == <<state, claim, age, thread, attempts>>
workerVars == <<mode, jobs, inflight>>
vars == <<rowVars, topic, workerVars, seen>>

States == {"absent", "pending", "sending", "sent", "failed", "skipped"}
Settled == {"sent", "failed", "skipped"}
Modes == {"unborn", "boot", "idle", "run", "recover", "giveback", "dead"}
Up(w) == mode[w] \notin {"unborn", "dead"}

Init ==
    /\ state = [r \in Rows |-> "absent"]
    /\ claim = [r \in Rows |-> NoWorker]
    /\ age = [r \in Rows |-> 0]
    /\ thread = [r \in Rows |-> "topic"]
    /\ attempts = [r \in Rows |-> 0]
    /\ topic = "live"
    /\ mode = [w \in Workers |-> "unborn"]
    /\ jobs = [w \in Workers |-> {}]
    /\ inflight = [w \in Workers |-> NoRow]
    /\ seen = {}

-----------------------------------------------------------------------------
(* Row updates (deliveries.py): unconditional, by key, as in the code.     *)

\* mutant: the row keeps the claim of the worker that is done with it
SetRowsKeepingClaim(rows, s) ==
    /\ state' = [r \in Rows |-> IF r \in rows THEN s ELSE state[r]]
    /\ age' = [r \in Rows |-> IF r \in rows THEN 0 ELSE age[r]]
    /\ UNCHANGED claim

SetRows(rows, s) ==
    /\ state' = [r \in Rows |-> IF r \in rows THEN s ELSE state[r]]
    /\ claim' = [r \in Rows |-> IF r \in rows THEN NoWorker ELSE claim[r]]
    /\ age' = [r \in Rows |-> IF r \in rows THEN 0 ELSE age[r]]

\* mutant: the claim does not re-assert state = 'pending'
WaitingUnguarded(t) ==
    {r \in Rows : state[r] \in {"pending", "sending"} /\ thread[r] = t}

(* Rows go to the first rows waiting, in transcript order.                 *)
Waiting(t) == {r \in Rows : state[r] = "pending" /\ thread[r] = t}
Batch(t) ==
    {r \in Waiting(t) : Cardinality({q \in Waiting(t) : q < r}) < BatchSize}

\* mutant: the duplicate guard does not compare the content
TwinByThread(r, among) ==
    \E q \in among \ {r} : state[q] = "sent" /\ thread[q] = thread[r]

(* Another row of the same thread with this content, already sent.         *)
Twin(r, among) ==
    \E q \in among \ {r} : /\ state[q] = "sent"
                           /\ Content[q] = Content[r]
                           /\ thread[q] = thread[r]

(* A worker's batch may span threads only while it recovers; within one    *)
(* thread it keeps transcript order.                                       *)
Heads(w) == {r \in jobs[w] : \A q \in jobs[w] : thread[q] = thread[r] => r <= q}

(* The worker is done with row r, and goes on or turns to giving back.     *)
DoneWith(w, r, next) ==
    /\ jobs' = [jobs EXCEPT ![w] = @ \ {r}]
    /\ mode' = [mode EXCEPT ![w] = IF jobs[w] \subseteq {r} THEN "idle"
                                   ELSE next]
    /\ inflight' = [inflight EXCEPT ![w] = NoRow]

\* mutant: the batch goes on past a deferred row
AfterDeferralOnward(w) == mode[w]

(* A deferral stops a claimed batch (_drain), but not a recovery pass.     *)
AfterDeferral(w) == IF mode[w] = "run" THEN "giveback" ELSE mode[w]

-----------------------------------------------------------------------------
(* deliveries.enqueue, called in transcript order.                         *)
Enqueue(r) ==
    /\ state[r] = "absent"
    /\ \A q \in Rows : q < r => state[q] # "absent"
    /\ state' = [state EXCEPT ![r] = "pending"]
    /\ thread' = [thread EXCEPT ![r] = IF topic = "released" THEN "general"
                                       ELSE "topic"]
    /\ UNCHANGED <<claim, age, attempts, topic, workerVars, seen>>

LoseTopic ==
    /\ MayLoseTopic
    /\ topic = "live"
    /\ topic' = "gone"
    /\ UNCHANGED <<rowVars, workerVars, seen>>

(* Time passes over the claims.  A live worker is done with a claim before *)
(* it is orphaned, unless it is slow.                                      *)
Sending == {r \in Rows : state[r] = "sending"}

ClaimsAge ==
    /\ \E r \in Sending : age[r] < 2
    /\ \A w \in Workers : \A r \in jobs[w] : age[r] = 1 => MaySlow
    /\ age' = [r \in Rows |-> IF r \in Sending /\ age[r] < 2 THEN age[r] + 1
                              ELSE age[r]]
    /\ UNCHANGED <<state, claim, thread, attempts, topic, workerVars, seen>>

Start(w) ==
    /\ mode[w] = "unborn"
    /\ MayOverlap \/ \A v \in Workers : ~Up(v)
    /\ mode' = [mode EXCEPT ![w] = "boot"]
    /\ UNCHANGED <<rowVars, topic, jobs, inflight, seen>>

\* mutant: recovery takes claims of any age
OrphansOfAnyAge(w) == {r \in Rows : state[r] = "sending" /\ claim[r] # w}

(* recover_orphaned: orphaned claims of other workers.  recent stands for  *)
(* the sent rows inside the dedupe window.                                 *)
Orphans(w) == {r \in Sending : age[r] = 2 /\ claim[r] # w}

\* mutant: recovery runs at boot only
RecoverAtBoot(w) ==
    /\ mode[w] \in {"boot", "idle"}
    /\ LET taken == IF mode[w] = "boot" THEN Orphans(w) ELSE {}
       IN  /\ claim' = [r \in Rows |-> IF r \in taken THEN w ELSE claim[r]]
           /\ age' = [r \in Rows |-> IF r \in taken THEN 0 ELSE age[r]]
           /\ jobs' = [jobs EXCEPT ![w] = taken]
           /\ mode' = [mode EXCEPT ![w] = IF taken = {} THEN "idle"
                                          ELSE "recover"]
    /\ UNCHANGED <<state, thread, attempts, topic, inflight, seen>>

Recover(w) ==
    /\ mode[w] \in {"boot", "idle"}
    /\ \E recent \in SUBSET {r \in Rows : state[r] = "sent"} :
         LET twins == {r \in Orphans(w) : Twin(r, recent)}
             taken == Orphans(w) \ twins
         IN  /\ state' = [r \in Rows |-> IF r \in twins THEN "skipped"
                                         ELSE state[r]]
             /\ claim' = [r \in Rows |-> IF r \in twins THEN NoWorker
                                         ELSE IF r \in taken THEN w
                                         ELSE claim[r]]
             /\ age' = [r \in Rows |-> IF r \in Orphans(w) THEN 0 ELSE age[r]]
             /\ jobs' = [jobs EXCEPT ![w] = taken]
             /\ mode' = [mode EXCEPT ![w] = IF taken = {} THEN "idle"
                                            ELSE "recover"]
    /\ UNCHANGED <<thread, attempts, topic, inflight, seen>>

(* deliveries.claim: one statement, so no two workers take the same row.   *)
Claim(w, t) ==
    /\ mode[w] = "idle"
    /\ Batch(t) # {}
    /\ state' = [r \in Rows |-> IF r \in Batch(t) THEN "sending" ELSE state[r]]
    /\ claim' = [r \in Rows |-> IF r \in Batch(t) THEN w ELSE claim[r]]
    /\ jobs' = [jobs EXCEPT ![w] = Batch(t)]
    /\ mode' = [mode EXCEPT ![w] = "run"]
    /\ UNCHANGED <<age, thread, attempts, topic, inflight, seen>>

-----------------------------------------------------------------------------
(* _drain and _deliver.                                                    *)

AtHead(w, r) == /\ mode[w] \in {"run", "recover"}
                /\ inflight[w] = NoRow
                /\ r \in Heads(w)

Reachable(r) == thread[r] = "general" \/ topic = "live"

Skip(w, r) ==
    /\ AtHead(w, r)
    /\ r \in Activity
    /\ SetRows({r}, "skipped")
    /\ DoneWith(w, r, mode[w])
    /\ UNCHANGED <<thread, attempts, topic, seen>>

Show(w, r) ==
    /\ AtHead(w, r)
    /\ r \notin Activity
    /\ Reachable(r)
    /\ seen' = seen \union {r}
    /\ inflight' = [inflight EXCEPT ![w] = r]
    /\ UNCHANGED <<rowVars, topic, mode, jobs>>

MarkSent(w, r) ==
    /\ inflight[w] = r
    /\ SetRows({r}, "sent")
    /\ DoneWith(w, r, mode[w])
    /\ UNCHANGED <<thread, attempts, topic, seen>>

(* A write fails: the exception leaves the pass, and the batch with it.    *)
Blip(w) ==
    /\ MayBlip
    /\ mode[w] \in {"run", "recover", "giveback"}
    /\ mode' = [mode EXCEPT ![w] = "idle"]
    /\ jobs' = [jobs EXCEPT ![w] = {}]
    /\ inflight' = [inflight EXCEPT ![w] = NoRow]
    /\ UNCHANGED <<rowVars, topic, seen>>

(* A transient error, before the message is shown or after it (the answer  *)
(* is lost).                                                               *)
TransientFailure(w, r) ==
    /\ MayFail
    /\ r \notin Activity
    /\ AtHead(w, r) \/ inflight[w] = r
    /\ attempts' = [attempts EXCEPT ![r] = @ + 1]
    /\ IF attempts[r] + 1 < MaxAttempts
       THEN SetRows({r}, "pending") /\ DoneWith(w, r, AfterDeferral(w))
       ELSE SetRows({r}, "failed") /\ DoneWith(w, r, mode[w])
    /\ UNCHANGED <<thread, topic, seen>>

(* A definite error (403, too large, any other 400).                       *)
Refused(w, r) ==
    /\ MayFail
    /\ AtHead(w, r)
    /\ r \notin Activity
    /\ SetRows({r}, "failed")
    /\ attempts' = [attempts EXCEPT ![r] = @ + 1]
    /\ DoneWith(w, r, mode[w])
    /\ UNCHANGED <<thread, topic, seen>>

(* _reroute_to_general; room_gone is best effort.                          *)
Reroute(w, r) ==
    /\ AtHead(w, r)
    /\ r \notin Activity
    /\ ~Reachable(r)
    /\ SetRows({r}, "pending")
    /\ thread' = [thread EXCEPT ![r] = "general"]
    /\ topic' \in {topic, "released"}
    /\ DoneWith(w, r, AfterDeferral(w))
    /\ UNCHANGED <<attempts, seen>>

(* Telegram said 429: the rest of a claimed batch is handed back.          *)
Pause(w) ==
    /\ mode[w] = "run"
    /\ inflight[w] = NoRow
    /\ mode' = [mode EXCEPT ![w] = "giveback"]
    /\ UNCHANGED <<rowVars, topic, jobs, inflight, seen>>

GiveBack(w, r) ==
    /\ mode[w] = "giveback"
    /\ r \in jobs[w]
    /\ SetRows({r}, "pending")
    /\ DoneWith(w, r, "giveback")
    /\ UNCHANGED <<thread, attempts, topic, seen>>

-----------------------------------------------------------------------------
(* The end of a process.  One life is always left to carry on.             *)

SomeoneElse(w) == \E v \in Workers \ {w} : mode[v] # "dead"

Gone(w) == /\ mode' = [mode EXCEPT ![w] = "dead"]
           /\ jobs' = [jobs EXCEPT ![w] = {}]
           /\ inflight' = [inflight EXCEPT ![w] = NoRow]

Held(w) == {r \in Sending : claim[r] = w}

(* stop and deliveries.release: twins of sent rows count as sent.          *)
Stop(w) ==
    /\ MayStop
    /\ Up(w)
    /\ SomeoneElse(w)
    /\ LET landed == {r \in Held(w) : Twin(r, Rows)}
       IN  /\ state' = [r \in Rows |-> IF r \in landed THEN "sent"
                                       ELSE IF r \in Held(w) THEN "pending"
                                       ELSE state[r]]
           /\ claim' = [r \in Rows |-> IF r \in Held(w) THEN NoWorker
                                       ELSE claim[r]]
           /\ age' = [r \in Rows |-> IF r \in Held(w) THEN 0 ELSE age[r]]
    /\ Gone(w)
    /\ UNCHANGED <<thread, attempts, topic, seen>>

Crash(w) ==
    /\ MayCrash
    /\ Up(w)
    /\ SomeoneElse(w)
    /\ Gone(w)
    /\ UNCHANGED <<rowVars, topic, seen>>

-----------------------------------------------------------------------------
Deliver(w) == \E r \in Rows :
    \/ Skip(w, r) \/ Show(w, r) \/ MarkSent(w, r) \/ TransientFailure(w, r)
    \/ Refused(w, r) \/ Reroute(w, r)

Next ==
    \/ \E r \in Rows : Enqueue(r)
    \/ LoseTopic \/ ClaimsAge
    \/ \E w \in Workers :
         \/ Start(w) \/ Recover(w) \/ (\E t \in {"topic", "general"} : Claim(w, t))
         \/ Deliver(w) \/ Pause(w) \/ Blip(w) \/ Stop(w) \/ Crash(w)
         \/ \E r \in Rows : GiveBack(w, r)

Spec == Init /\ [][Next]_vars

(* Processes are restarted and keep running their loop; the rotor serves   *)
(* every destination again and again; pauses end.                          *)
Fairness ==
    /\ WF_vars(ClaimsAge)
    /\ \A w \in Workers :
         /\ WF_vars(Start(w))
         /\ SF_vars(Recover(w))
         /\ \A t \in {"topic", "general"} : SF_vars(Claim(w, t))
         /\ SF_vars(Deliver(w))
         /\ WF_vars(\E r \in Rows : GiveBack(w, r))

FairSpec == Spec /\ Fairness

-----------------------------------------------------------------------------
(* Every variable keeps to its type, and a row is held by a worker exactly *)
(* while it is in sending.                                                 *)
TypeOK ==
    /\ state \in [Rows -> States]
    /\ claim \in [Rows -> Workers \union {NoWorker}]
    /\ age \in [Rows -> 0 .. 2]
    /\ thread \in [Rows -> {"topic", "general"}]
    /\ attempts \in [Rows -> Nat]
    /\ topic \in {"live", "gone", "released"}
    /\ mode \in [Workers -> Modes]
    /\ jobs \in [Workers -> SUBSET Rows]
    /\ inflight \in [Workers -> Rows \union {NoRow}]
    /\ seen \subseteq Rows
    /\ \A r \in Rows : claim[r] # NoWorker <=> state[r] = "sending"

(* At least once: nothing is recorded as sent that Telegram never showed,  *)
(* a settled row stays settled, whatever crashes, stops or overlaps.       *)
Fate == [r \in Rows |->
            CASE state[r] = "absent" -> "absent"
              [] state[r] \in {"pending", "sending"} -> "owed"
              [] state[r] = "sent" -> "delivered"
              [] OTHER -> "dropped"]
Promise == INSTANCE ReplyPromise WITH fate <- Fate
KeepsThePromise == Promise!Spec

(* The reader of a topic never sees a part before an earlier part of the   *)
(* same topic that is still owed (run_once: "ordering within a topic is    *)
(* exact"), except past a row that a dead or failed worker left in         *)
(* sending, which waits to be orphaned, and except in a recovery pass,     *)
(* which sends what the dead worker had not yet given back.                *)
Stranded(q) == state[q] = "sending" /\ \A w \in Workers : q \notin jobs[w]
TopicOrderIsExact ==
    [][ \A r \in Rows : \A w \in Workers :
          (inflight[w] # r /\ inflight'[w] = r /\ mode[w] = "run") =>
              \A q \in Rows : (q < r /\ thread[q] = thread[r]
                               /\ state[q] \in {"pending", "sending"})
                              => q \in seen \/ Stranded(q) ]_vars

(* Nothing is written off as already delivered without having been shown:  *)
(* what is recorded as sent, or skipped as a duplicate, Telegram showed.   *)
SettledMeansSeen ==
    \A r \in Rows : state[r] \in {"sent", "skipped"} => r \in seen \union Activity

(* Every queued row is settled in the end, whichever process is left.      *)
EveryRowSettles ==
    \A r \in Rows : (state[r] = "pending") ~> (state[r] \in Settled)
=============================================================================
