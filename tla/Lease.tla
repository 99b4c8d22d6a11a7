------------------------------- MODULE Lease -------------------------------
(***************************************************************************)
(* ctb/db/repo/lease.py under the loop of ctb/turn/supervisor.py: which of *)
(* the processes of a redeploy may poll.  Each is a life of its own (an    *)
(* instance_id is never used twice) that wakes, renews or acquires the one *)
(* row of singleton_lease, reconciles its pollers, sleeps, may fail, be    *)
(* stopped or die.  Time passes in ticks: the row has some left, and each  *)
(* process knows how long ago it renewed.                                  *)
(*                                                                         *)
(* What a reconcile does to one session's poller is left out: here the     *)
(* process has pollers or has none.                                        *)
(***************************************************************************)
EXTENDS Integers, FiniteSets

CONSTANTS
    Instances,
    Nobody,         \* no row in singleton_lease
    TTL,            \* ticks a lease lives
    Pace,           \* ticks a process sleeps between two passes
    MaxBlips,       \* passes that may fail on the database
    MaySlow         \* may a pass outlive the lease it renewed?

ASSUME NobodyAssumption == Nobody \notin Instances
ASSUME PaceAssumption ==
    /\ TTL \in Nat /\ Pace \in Nat \ {0} /\ Pace < TTL
    /\ MaxBlips \in Nat
    /\ MaySlow \in BOOLEAN

VARIABLES
    holder,         \* who the row names
    left,           \* ticks until it expires
    at,             \* where each process is
    has,            \* does it think it has the lease?
    polls,          \* does it have pollers running?
    age,            \* ticks since it renewed, or since it fell asleep
    blips

row == <<holder, left>>
vars == <<row, at, has, polls, age, blips>>

Init ==
    /\ holder = Nobody
    /\ left = 0
    /\ at = [i \in Instances |-> "unborn"]
    /\ has = [i \in Instances |-> FALSE]
    /\ polls = [i \in Instances |-> FALSE]
    /\ age = [i \in Instances |-> 0]
    /\ blips = 0

Goto(i, where) == at' = [at EXCEPT ![i] = where]
-----------------------------------------------------------------------------
(* A pass is on time when it, or the cancelling it ends in, is over before *)
(* the lease it renewed runs out.                                          *)
OnTime == \A i \in Instances : has[i] \/ polls[i] => age[i] + 1 < TTL

Tick ==
    /\ MaySlow \/ OnTime
    /\ left' = IF left = 0 THEN 0 ELSE left - 1
    /\ age' = [i \in Instances |-> IF age[i] < TTL THEN age[i] + 1 ELSE TTL]
    /\ UNCHANGED <<holder, at, has, polls, blips>>

Boot(i) ==
    /\ at[i] = "unborn"
    /\ Goto(i, "renew")
    /\ UNCHANGED <<row, has, polls, age, blips>>

Wake(i) ==
    /\ at[i] = "sleep"
    /\ age[i] >= Pace
    /\ Goto(i, "renew")
    /\ UNCHANGED <<row, has, polls, age, blips>>

Renewed(i) ==
    /\ holder' = i
    /\ left' = TTL
    /\ has' = [has EXCEPT ![i] = TRUE]
    /\ age' = [age EXCEPT ![i] = 0]
    /\ Goto(i, "reconcile")

Refused(i) ==
    /\ has' = [has EXCEPT ![i] = FALSE]
    /\ Goto(i, "cancel")
    /\ UNCHANGED <<row, age>>

(* Mutant: whoever asks gets it. *)
FreeToAll(i) == TRUE

(* No row, its own, or one that has expired. *)
Free(i) == holder \in {i, Nobody} \/ left = 0

Acquire(i) ==
    /\ at[i] = "renew"
    /\ ~has[i]
    /\ IF Free(i) THEN Renewed(i) ELSE Refused(i)
    /\ UNCHANGED <<polls, blips>>

(* Extends the lease while the row is its own, expired or not. *)
Heartbeat(i) ==
    /\ at[i] = "renew"
    /\ has[i]
    /\ IF holder = i THEN Renewed(i) ELSE Refused(i)
    /\ UNCHANGED <<polls, blips>>

Reconcile(i) ==
    /\ at[i] = "reconcile"
    /\ polls' = [polls EXCEPT ![i] = TRUE]
    /\ Goto(i, "sleep")
    /\ UNCHANGED <<row, has, age, blips>>

(* _cancel_all awaits every poller it cancels. *)
Cancel(i) ==
    /\ at[i] = "cancel"
    /\ polls' = [polls EXCEPT ![i] = FALSE]
    /\ Goto(i, "sleep")
    /\ age' = [age EXCEPT ![i] = 0]
    /\ UNCHANGED <<row, has, blips>>

(* The database fails a pass: no lease, no pollers.  The row stays. *)
Blip(i) ==
    /\ at[i] \in {"renew", "reconcile"}
    /\ blips < MaxBlips
    /\ blips' = blips + 1
    /\ has' = [has EXCEPT ![i] = FALSE]
    /\ Goto(i, "cancel")
    /\ UNCHANGED <<row, polls, age>>

(* A clean shutdown: the pollers, then the lease. *)
Stop(i) ==
    /\ at[i] \notin {"unborn", "release", "dead"}
    /\ polls' = [polls EXCEPT ![i] = FALSE]
    /\ Goto(i, "release")
    /\ UNCHANGED <<row, has, age, blips>>

Quit(i) ==
    /\ Goto(i, "dead")
    /\ has' = [has EXCEPT ![i] = FALSE]
    /\ polls' = [polls EXCEPT ![i] = FALSE]
    /\ UNCHANGED <<left, age, blips>>

Release(i) ==
    /\ at[i] = "release"
    /\ holder' = IF has[i] /\ holder = i THEN Nobody ELSE holder
    /\ Quit(i)

Crash(i) ==
    /\ at[i] \notin {"unborn", "dead"}
    /\ Quit(i)
    /\ UNCHANGED holder

Run(i) ==
    \/ Boot(i) \/ Wake(i) \/ Acquire(i) \/ Heartbeat(i) \/ Reconcile(i)
    \/ Cancel(i) \/ Release(i)

Next == Tick \/ \E i \in Instances : Run(i) \/ Blip(i) \/ Stop(i) \/ Crash(i)

Spec == Init /\ [][Next]_vars

(* Time passes, a process that is up goes on with its loop. *)
Fairness == WF_vars(Tick) /\ \A i \in Instances : WF_vars(Run(i))
FairSpec == Spec /\ Fairness
-----------------------------------------------------------------------------
(* Every variable keeps its type. *)
TypeOK ==
    /\ holder \in Instances \union {Nobody}
    /\ left \in 0..TTL
    /\ at \in [Instances -> {"unborn", "renew", "reconcile", "cancel",
                             "sleep", "release", "dead"}]
    /\ has \in [Instances -> BOOLEAN]
    /\ polls \in [Instances -> BOOLEAN]
    /\ age \in [Instances -> 0..TTL]
    /\ blips \in 0..MaxBlips

(* Only one supervisor polls: while a process has pollers, whatever others *)
(* boot, steal, stop or die beside it, the row is its own and live.        *)
PollsUnderALiveLease ==
    \A i \in Instances : polls[i] => holder = i /\ left > 0

(* A holder that dies without a word does not keep the others from polling: *)
(* wherever a living process stands, somebody polls later, or it is gone.   *)
PollingResumes ==
    \A i \in Instances :
        at[i] \in {"renew", "sleep"} ~>
            (at[i] \in {"release", "dead"} \/ \E j \in Instances : polls[j])

=============================================================================
