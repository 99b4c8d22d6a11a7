----------------------------- MODULE Supervisor -----------------------------
(***************************************************************************)
(* ctb/turn/supervisor.py with ctb/conductor/pool.py, and the parts of     *)
(* ctb/db/repo/tenancy.py and sessions.py they decide on: one pass after   *)
(* another reconciles the pollers of one process with the bound sessions   *)
(* of every team, under two ceilings, and pauses a team whose Conductor    *)
(* key is rejected.  Between the awaits of a pass pollers call Conductor   *)
(* and end, handlers use the same pooled clients, an owner stores another  *)
(* key.                                                                    *)
(*                                                                         *)
(* A team's keys are numbered 1 (the one it starts with) and 2 (the one    *)
(* /key stores); Conductor may come to refuse the first.  Time is not      *)
(* counted: a stamp is fresh or spent, a backoff runs or is over, a client *)
(* is idle past its TTL or not.  Left out: the lease (Lease), what a tick  *)
(* of a poller does (SessionPoller), retention, suspension of a team, the  *)
(* cap on pooled clients, and a team without a key.                        *)
(***************************************************************************)
EXTENDS Integers, FiniteSets, FiniteSetsExt

CONSTANTS
    Sessions, Teams,
    TeamOf,         \* the team of each session
    Quota,          \* tenants.max_pollers of each team
    Ceiling,        \* GLOBAL_MAX_POLLERS
    MaxOdd,         \* odd things that may happen: a 401 to a good key, an
                    \* answer that never comes, a crash, a failed pass
    MayUnbind, MayRevoke, MayRekey,
    HandlersCall    \* do handlers use the pooled clients?

QuotaAssumption ==
    /\ IsFiniteSet(Sessions) /\ IsFiniteSet(Teams)
    /\ TeamOf \in [Sessions -> Teams]
    /\ Quota \in [Teams -> Nat \ {0}]
    /\ Ceiling \in Nat \ {0} /\ MaxOdd \in Nat

Keys == 1..2
NoKey == 0

VARIABLES
    bound,          \* sessions a handler has bound
    stored,         \* the key in each team's row
    refused,        \* teams whose first key Conductor refuses
    stamp,          \* auth_failed_at: "none", "fresh" or "spent"
    client,         \* the pooled client of each team
    pins,           \* how many pollers pin it
    idle,           \* teams whose client is idle past its TTL
    poller,         \* a session's task, or how it ended
    cut,            \* sessions whose poller holds a client since closed
    latched,        \* _auth_fatal
    backoff,        \* sessions whose restart must wait
    turn,           \* the order of the teams, least recently served first
    step,           \* where the pass is
    wanted,         \* the sessions it selected
    seen,           \* the key of each team in _tenant_rows
    todo,           \* sessions its loop has still to visit
    asking,         \* the session whose 401 it corroborates
    odd

rowVars == <<bound, stored, refused>>
poolVars == <<client, pins, idle>>
taskVars == <<poller, cut>>
passVars == <<step, wanted, seen, todo, asking>>
memVars == <<latched, backoff, turn>>
vars == <<rowVars, stamp, poolVars, taskVars, passVars, memVars, odd>>

-----------------------------------------------------------------------------
NoClient == [key |-> NoKey, failed |-> FALSE]
Of(t) == {s \in Sessions : TeamOf[s] = t}
Tracked == {s \in Sessions : poller[s] # "none"}
Ended == {"crashed", "rejected"}
Rejects(t, key) == key = 1 /\ t \in refused

Init ==
    /\ bound = Sessions
    /\ stored = [t \in Teams |-> 1]
    /\ refused = {}
    /\ stamp = [t \in Teams |-> "none"]
    /\ client = [t \in Teams |-> NoClient]
    /\ pins = [t \in Teams |-> 0]
    /\ idle = {}
    /\ poller = [s \in Sessions |-> "none"]
    /\ cut = {}
    /\ latched = {}
    /\ backoff = {}
    /\ turn \in {f \in [Teams -> 1..Cardinality(Teams)] :
                    \A t, u \in Teams : f[t] = f[u] => t = u}
    /\ step = "sleep"
    /\ wanted = {}
    /\ seen = [t \in Teams |-> NoKey]
    /\ todo = {}
    /\ asking = {}
    /\ odd = 0

Odd == odd < MaxOdd /\ odd' = odd + 1
Plain == UNCHANGED odd

(* The pool closes the clients of these teams: a poller that runs keeps    *)
(* the closed one.                                                         *)
Closing(gone, clients) == [t \in Teams |-> IF t \in gone THEN NoClient ELSE clients[t]]
Cut(gone) == {s \in Tracked : TeamOf[s] \in gone}

(* The team's row as this pass has it: the one it has read, or the one in  *)
(* the table.                                                              *)
KeyOf(t) == IF seen[t] = NoKey THEN stored[t] ELSE seen[t]

(* mark_auth_failed refreshes the stamp; clear_auth_failure drops it.      *)
Marked(t) == [stamp EXCEPT ![t] = "fresh"]
Cleared(teams) == [t \in Teams |-> IF t \in teams THEN "none" ELSE stamp[t]]

(* ClientPool.get with a row that names this key. *)
Get(t, key) ==
    LET fits == client[t].key = key
    IN  /\ client' = [client EXCEPT ![t] =
                        IF fits THEN @ ELSE [key |-> key, failed |-> FALSE]]
        /\ idle' = idle \ {t}
        /\ cut' = IF fits \/ client[t].key = NoKey THEN cut ELSE cut \union Cut({t})

(* Mutant: an unpin lets go of the team's client altogether. *)
PinsWithoutAny(gone) ==
    [t \in Teams |-> IF gone \intersect Tracked \intersect Of(t) = {}
                     THEN pins[t] ELSE 0]

(* _drop: these pollers are cancelled, awaited, and forgotten. *)
PinsWithout(gone) ==
    [t \in Teams |-> pins[t] - Cardinality(gone \intersect Tracked \intersect Of(t))]

Untrack(gone) ==
    /\ poller' = [s \in Sessions |-> IF s \in gone THEN "none" ELSE poller[s]]
    /\ pins' = PinsWithout(gone)
    /\ cut' = cut \ gone

-----------------------------------------------------------------------------
(* The world beside the supervisor. *)
Unbind(s) ==
    /\ MayUnbind
    /\ bound' = IF s \in bound THEN bound \ {s} ELSE bound \union {s}
    /\ UNCHANGED <<stored, refused, stamp, poolVars, taskVars, passVars,
                   memVars, odd>>

Revoke(t) ==
    /\ MayRevoke
    /\ t \notin refused
    /\ refused' = refused \union {t}
    /\ UNCHANGED <<bound, stored, stamp, poolVars, taskVars, passVars,
                   memVars, odd>>

(* set_conductor_key: the new key, and the stamp cleared. *)
SetKey(t) ==
    /\ MayRekey
    /\ stored[t] = 1
    /\ stored' = [stored EXCEPT ![t] = 2]
    /\ stamp' = [stamp EXCEPT ![t] = "none"]
    /\ UNCHANGED <<bound, refused, poolVars, taskVars, passVars, memVars, odd>>

(* Conductor answers a call on a team's pooled client. *)
Answer(t, c, failed) ==
    client' = [client EXCEPT ![t] = [key |-> c.key, failed |-> failed]]

(* A handler calls with the pooled client: the middleware has just got it. *)
HandlerGets(t) ==
    /\ HandlersCall
    /\ client[t].key # stored[t] \/ t \in idle
    /\ Get(t, stored[t])
    /\ UNCHANGED <<rowVars, stamp, pins, poller, passVars, memVars, odd>>

HandlerCalls(t) ==
    /\ HandlersCall
    /\ client[t].key = stored[t]
    /\ LET bad == Rejects(t, stored[t]) IN
        \/ Answer(t, client[t], bad) /\ Plain
        \/ ~bad /\ Answer(t, client[t], TRUE) /\ Odd
    /\ UNCHANGED <<rowVars, stamp, pins, idle, taskVars, passVars, memVars>>

StampSpends(t) ==
    /\ stamp[t] = "fresh"
    /\ stamp' = [stamp EXCEPT ![t] = "spent"]
    /\ UNCHANGED <<rowVars, poolVars, taskVars, passVars, memVars, odd>>

BackoffEnds(s) ==
    /\ s \in backoff
    /\ backoff' = backoff \ {s}
    /\ UNCHANGED <<rowVars, stamp, poolVars, taskVars, passVars, latched,
                   turn, odd>>

Idles(t) ==
    /\ client[t].key # NoKey
    /\ t \notin idle
    /\ idle' = idle \union {t}
    /\ UNCHANGED <<rowVars, stamp, client, pins, taskVars, passVars,
                   memVars, odd>>

-----------------------------------------------------------------------------
(* A poller's next call: it goes on, ends for good because its session is  *)
(* unbound, or ends in an exception.                                       *)
End(s, how) == poller' = [poller EXCEPT ![s] = how]

Call(s) ==
    LET t == TeamOf[s]
        bad == Rejects(t, client[t].key)
    IN  /\ poller[s] = "runs"
        /\ \/ /\ s \notin bound
              /\ End(s, "returned") /\ Plain
              /\ UNCHANGED client
           \/ /\ s \in bound \intersect cut
              /\ End(s, "crashed") /\ Plain
              /\ UNCHANGED client
           \/ /\ s \in bound \ cut
              /\ IF bad THEN End(s, "rejected") ELSE UNCHANGED poller
              /\ Answer(t, client[t], bad) /\ Plain
           \/ /\ s \in bound \ cut
              /\ ~bad
              /\ End(s, "rejected")
              /\ Answer(t, client[t], TRUE) /\ Odd
           \/ /\ s \in bound \ cut
              /\ End(s, "crashed") /\ Odd
              /\ UNCHANGED client
        /\ UNCHANGED <<rowVars, stamp, pins, idle, cut, passVars, memVars>>

-----------------------------------------------------------------------------
(* One pass.  First what it reads: clients idle too long are swept,        *)
(* list_bound is asked, expired latches are let go of.                     *)

(* Mutant: every team may take the whole ceiling. *)
AllowanceUnread(t, rows) == Cardinality(rows \intersect Of(t))

Allowance(t, rows) == Min({Quota[t], Cardinality(rows \intersect Of(t))})

(* Mutant: first come, first served, every time. *)
SelectsAnyhow(rows, chosen) ==
    LET n(t) == Cardinality(chosen \intersect Of(t)) IN
    /\ \A t \in Teams : n(t) <= Allowance(t, rows)
    /\ Cardinality(chosen) = Min({Ceiling, MapThenSumSet(LAMBDA t : Allowance(t, rows), Teams)})

(* _select: round robin over the teams in their order, each up to its      *)
(* quota, until the ceiling.  Which of a team's sessions, busy ones first, *)
(* is left open.                                                           *)
Selects(rows, chosen) ==
    LET n(t) == Cardinality(chosen \intersect Of(t))
        full(t) == n(t) = Allowance(t, rows)
    IN  /\ \A t \in Teams : n(t) <= Allowance(t, rows)
        /\ Cardinality(chosen) <= Ceiling
        /\ Cardinality(chosen) < Ceiling => \A t \in Teams : full(t)
        /\ \A t, u \in Teams :
            ~full(t) => n(u) <= n(t) + (IF turn[u] < turn[t] THEN 1 ELSE 0)

(* Who has just been served goes to the back. *)
Served(chosen) ==
    LET n(t) == Cardinality(chosen \intersect Of(t))
        before(u, t) == n(u) < n(t) \/ (n(u) = n(t) /\ turn[u] <= turn[t])
    IN  [t \in Teams |-> Cardinality({u \in Teams : before(u, t)})]

Look ==
    LET rows == {s \in bound : stamp[TeamOf[s]] # "fresh"}
        admitted == {TeamOf[s] : s \in rows}
        closed == {t \in idle : pins[t] = 0} \union (latched \intersect admitted)
    IN  /\ step = "sleep"
        /\ client' = Closing(closed, client)
        /\ idle' = idle \ closed
        /\ cut' = cut \union Cut(closed)
        /\ latched' = latched \ admitted
        /\ stamp' = Cleared(admitted)
        /\ seen' = [t \in Teams |-> IF t \in admitted THEN stored[t] ELSE NoKey]
        /\ \E chosen \in SUBSET rows :
            /\ Selects(rows, chosen)
            /\ wanted' = chosen
            /\ turn' = Served(chosen)
        /\ todo' = Tracked
        /\ step' = "observe"
        /\ UNCHANGED <<rowVars, pins, poller, asking, backoff, odd>>

(* Then each poller it had when it began. *)
Retire(s) ==
    /\ step = "observe"
    /\ s \in (todo \intersect Tracked) \ wanted
    /\ Untrack({s})
    /\ backoff' = backoff \ {s}
    /\ todo' = todo \ {s}
    /\ UNCHANGED <<rowVars, stamp, client, idle, step, wanted, seen, asking,
                   latched, turn, odd>>

Keep(s) ==
    /\ step = "observe"
    /\ s \in todo \intersect wanted
    /\ poller[s] = "runs"
    /\ todo' = todo \ {s}
    /\ UNCHANGED <<rowVars, stamp, poolVars, taskVars, step, wanted, seen,
                   asking, memVars, odd>>

(* _observe_completion; a 401 is corroborated first. *)
Observe(s) ==
    /\ step = "observe"
    /\ s \in todo \intersect wanted
    /\ poller[s] \in Ended \union {"returned"}
    /\ Untrack({s})
    /\ backoff' = CASE poller[s] = "crashed" -> backoff \union {s}
                    [] poller[s] = "returned" -> backoff \ {s}
                    [] OTHER -> backoff
    /\ asking' = IF poller[s] = "rejected" THEN {s} ELSE {}
    /\ step' = IF poller[s] = "rejected" THEN "ask" ELSE "observe"
    /\ todo' = todo \ {s}
    /\ UNCHANGED <<rowVars, stamp, client, idle, wanted, seen, latched,
                   turn, odd>>

(* The client _key_still_rejected asks with: the pooled one, or one it     *)
(* gets.                                                                   *)
Asked(t) ==
    IF client[t].key # NoKey THEN client[t] ELSE [key |-> KeyOf(t), failed |-> FALSE]

(* It was a blip: the team is let go on, the poller's restart waits. *)
Blip(s) ==
    LET t == TeamOf[s] IN
    /\ latched' = latched \ {t}
    /\ stamp' = Cleared({t})
    /\ seen' = IF stamp[t] = "none" THEN seen ELSE [seen EXCEPT ![t] = NoKey]
    /\ backoff' = backoff \union {s}
    /\ step' = "observe"
    /\ asking' = {}

(* The key is still rejected. *)
Confirmed ==
    /\ step' = "latch"
    /\ UNCHANGED <<latched, stamp, seen, backoff, asking>>

Verdict(s) ==
    LET t == TeamOf[s]
        bad == Rejects(t, Asked(t).key)
    IN  \/ bad /\ Answer(t, Asked(t), TRUE) /\ Confirmed /\ Plain
        \/ ~bad /\ Answer(t, Asked(t), TRUE) /\ Confirmed /\ Odd
        \/ ~bad /\ Answer(t, Asked(t), FALSE) /\ Blip(s) /\ Plain
        \/ Answer(t, Asked(t), Asked(t).failed) /\ Blip(s) /\ Odd

Ask ==
    /\ step = "ask"
    /\ \E s \in asking :
        /\ Verdict(s)
        /\ idle' = IF client[TeamOf[s]].key # NoKey THEN idle ELSE idle \ {TeamOf[s]}
    /\ UNCHANGED <<rowVars, pins, taskVars, wanted, todo, turn>>

(* _latch_auth_fatal: the team stops, and its row is stamped. *)
Latch ==
    /\ step = "latch"
    /\ \E s \in asking :
        LET t == TeamOf[s] IN
        /\ latched' = latched \union {t}
        /\ Untrack(Of(t))
        /\ stamp' = Marked(t)
    /\ step' = "observe"
    /\ asking' = {}
    /\ UNCHANGED <<rowVars, client, idle, wanted, seen, todo, backoff, turn, odd>>

(* auth_fatal_tenants: a latch outlives its client's counter no longer     *)
(* than the next look at it, so it is whoever's client has failed.         *)
Rejecting == {t \in Teams : client[t].failed}

CancelRejecting ==
    /\ step = "observe"
    /\ todo = {}
    /\ latched' = latched \intersect Rejecting
    /\ Untrack({s \in Sessions : TeamOf[s] \in Rejecting})
    /\ todo' = wanted
    /\ step' = "spawn"
    /\ UNCHANGED <<rowVars, stamp, client, idle, wanted, seen, asking,
                   backoff, turn, odd>>

(* Then the missing pollers. *)
MayStart(s) ==
    /\ poller[s] = "none"
    /\ s \notin backoff
    /\ TeamOf[s] \notin Rejecting

Spawn(s) ==
    LET t == TeamOf[s]
        key == KeyOf(t)
    IN  /\ step = "spawn"
        /\ s \in todo
        /\ MayStart(s)
        /\ client' = [client EXCEPT ![t] =
                        IF @.key = key THEN @ ELSE [key |-> key, failed |-> FALSE]]
        /\ cut' = (IF client[t].key \in {key, NoKey} THEN cut
                   ELSE cut \union Cut({t})) \ {s}
        /\ idle' = idle \ {t}
        /\ pins' = [pins EXCEPT ![t] = @ + 1]
        /\ poller' = [poller EXCEPT ![s] = "runs"]
        /\ latched' = latched \intersect Rejecting
        /\ todo' = todo \ {s}
        /\ UNCHANGED <<rowVars, stamp, step, wanted, seen, asking, backoff,
                       turn, odd>>

Pass(s) ==
    /\ step = "spawn"
    /\ s \in todo
    /\ ~MayStart(s)
    /\ latched' = IF poller[s] = "none" THEN latched \intersect Rejecting
                  ELSE latched
    /\ todo' = todo \ {s}
    /\ UNCHANGED <<rowVars, stamp, poolVars, taskVars, step, wanted, seen,
                   asking, backoff, turn, odd>>

Sleep ==
    /\ step = "spawn"
    /\ todo = {}
    /\ step' = "sleep"
    /\ wanted' = {}
    /\ UNCHANGED <<rowVars, stamp, poolVars, taskVars, seen, todo, asking,
                   memVars, odd>>

(* A pass that raises gives up the lease and every poller. *)
CancelAll ==
    /\ Untrack(Sessions)
    /\ step' = "sleep"
    /\ wanted' = {}
    /\ todo' = {}
    /\ asking' = {}
    /\ UNCHANGED <<rowVars, stamp, client, idle, seen, memVars>>

Fail == CancelAll /\ Odd

(* The loop over _tasks' sessions comes to one that a latch has dropped:   *)
(* the lookup raises KeyError.                                             *)
Stumble(s) ==
    /\ step = "observe"
    /\ s \in todo \ Tracked
    /\ CancelAll
    /\ Plain

Reconcile ==
    \/ Look \/ Ask \/ Latch \/ CancelRejecting \/ Sleep
    \/ \E s \in Sessions : \/ Retire(s) \/ Keep(s) \/ Observe(s) \/ Stumble(s)
                           \/ Spawn(s) \/ Pass(s)

World ==
    \/ \E s \in Sessions : Unbind(s) \/ BackoffEnds(s) \/ Call(s)
    \/ \E t \in Teams : \/ Revoke(t) \/ SetKey(t) \/ HandlerGets(t)
                        \/ HandlerCalls(t) \/ StampSpends(t) \/ Idles(t)

Next == Reconcile \/ Fail \/ World

Spec == Init /\ [][Next]_vars

(* The loop goes on, a poller that runs calls again, and time passes. *)
Fairness ==
    /\ WF_vars(Reconcile)
    /\ \A s \in Sessions : WF_vars(Call(s)) /\ WF_vars(BackoffEnds(s))
    /\ \A t \in Teams : WF_vars(StampSpends(t)) /\ WF_vars(Idles(t))
FairSpec == Spec /\ Fairness
-----------------------------------------------------------------------------
(* Every variable keeps its type. *)
TypeOK ==
    /\ {bound, cut, backoff, wanted, todo, asking} \subseteq SUBSET Sessions
    /\ {refused, idle, latched} \subseteq SUBSET Teams
    /\ stored \in [Teams -> Keys] /\ seen \in [Teams -> Keys \union {NoKey}]
    /\ stamp \in [Teams -> {"none", "fresh", "spent"}]
    /\ client \in [Teams -> [key : Keys \union {NoKey}, failed : BOOLEAN]]
    /\ pins \in [Teams -> 0..Cardinality(Sessions)]
    /\ poller \in [Sessions -> Ended \union {"none", "runs", "returned"}]
    /\ turn \in [Teams -> 1..Cardinality(Teams)]
    /\ step \in {"sleep", "observe", "ask", "latch", "spawn"}
    /\ odd \in 0..MaxOdd

(* No team ever has more pollers than its quota, nor all together more     *)
(* than the ceiling, whatever is bound, dropped and restarted.             *)
CeilingsHold ==
    /\ Cardinality(Tracked) <= Ceiling
    /\ \A t \in Teams : Cardinality(Tracked \intersect Of(t)) <= Quota[t]

(* A client is not closed under a running poller, except for another key:  *)
(* its pin holds off the sweep, however often its siblings come and go.    *)
OnlyAnotherKeyClosesAClient ==
    [][\A s \in cut' \ cut : stored[TeamOf[s]] = 2]_vars

(* A team whose client was last answered 401 is not restarted until it has *)
(* been answered otherwise or was built anew: no cancel and respawn in     *)
(* every pass.                                                             *)
NoRespawnLoop ==
    [][\A s \in Sessions : poller[s] = "none" /\ poller'[s] = "runs"
            => ~client[TeamOf[s]].failed]_vars

(* Every team whose key Conductor accepts is polled again and again,       *)
(* whoever else is paused or crowds the ceiling, and whatever odd answer   *)
(* it was once given.                                                      *)
EveryTeamIsPolled ==
    \A t \in Teams :
        <>[](~Rejects(t, stored[t]) /\ Of(t) \subseteq bound)
            => []<>(\E s \in Of(t) : poller[s] = "runs")

(* The client of a team nobody polls is swept: its decrypted key does not  *)
(* live as long as the process.                                            *)
AKeyIsForgotten ==
    \A t \in Teams :
        <>[](Of(t) \intersect bound = {}) => []<>(client[t].key = NoKey)

(* A poller that is wanted, in a process that goes on, is stopped only for *)
(* its own team's key.                                                     *)
Stopped(s) == poller[s] = "runs" /\ poller'[s] = "none" /\ s \in wanted
OneTeamsKeyIsNotAnothersOutage ==
    [][odd' = odd => \A s \in Sessions :
            Stopped(s) => TeamOf[s] \in latched' \union Rejecting]_vars
=============================================================================
