-------------------------- MODULE ConductorClient --------------------------
(***************************************************************************)
(* ctb/conductor/client.py: the requests of one team's ConductorClient     *)
(* through its circuit breaker, with their retries.  A call is a task that *)
(* makes one logical request after another; it may be cancelled at any     *)
(* await, or never wake again.  The Conductor API is external: a resource  *)
(* of it, or all of it, may be sick, until it recovers.                    *)
(*                                                                         *)
(* A window (the circuit's or a resource's) runs or is over.  Left out:    *)
(* the token bucket and the backoff, which only delay a send, and the      *)
(* count of 401s (Supervisor).  A request the breaker refuses changes      *)
(* nothing, and is no step here.                                           *)
(***************************************************************************)
EXTENDS Naturals, FiniteSets, Sequences, SequencesExt

CONSTANTS
    Calls, NoCall,
    Resources,      \* paths that name one resource, or an endpoint `isolated`
    Api,            \* the target None of every other path
    Threshold,      \* CIRCUIT_FAILURE_THRESHOLD
    MaxAttempts,    \* MAX_ATTEMPTS
    Permits,        \* MAX_CONCURRENCY
    MaxHangs,       \* calls that may never wake again
    MayGarble       \* may a 2xx that is not JSON stand for a write that landed?

NameAssumption == NoCall \notin Calls /\ Api \notin Resources
LimitAssumption ==
    /\ {Threshold, MaxAttempts, Permits} \subseteq Nat \ {0}
    /\ MaxHangs \in Nat /\ MayGarble \in BOOLEAN

VARIABLES
    state,          \* "closed", "open" or "half_open"
    runs,           \* does the open circuit's window still run?
    failures,       \* _consecutive_failures, counted up to Threshold
    streak,         \* the targets of the latest failures
    isolated,       \* each resource: "no", "held", or "due" for a probe
    probe,          \* whose claim on the half-open circuit is in flight
    at,             \* each call: "idle", "send", or "hung" for good
    asks,           \* what it asks for
    tries,          \* the attempt it is at
    landed,         \* times its request has taken effect
    blind,          \* has a create that landed ended in a plain error?
    sick            \* what of the API is sick

breaker == <<state, runs, failures, streak, isolated, probe>>
callVars == <<at, asks, tries, landed, blind>>
vars == <<breaker, callVars, sick>>

Targets == Resources \union {Api}

(* Reads, and writes that carry an id or set a value: replaying one does   *)
(* no harm.  POST /workspaces has no idempotency key.                      *)
Reads == [target: Targets, write: {FALSE}, idempotent: {TRUE}]
Writes == [target: Targets, write: {TRUE}, idempotent: {TRUE}]
Creates == [target: {Api}, write: {TRUE}, idempotent: {FALSE}]
Kinds == Reads \union Writes \union Creates
NoRequest == [target |-> Api, write |-> FALSE, idempotent |-> TRUE]

Init ==
    /\ state = "closed" /\ runs = FALSE
    /\ failures = 0
    /\ streak = <<>>
    /\ isolated = [r \in Resources |-> "no"]
    /\ probe = NoCall
    /\ at = [c \in Calls |-> "idle"]
    /\ asks = [c \in Calls |-> NoRequest]
    /\ tries = [c \in Calls |-> 0]
    /\ landed = [c \in Calls |-> 0]
    /\ blind = FALSE
    /\ sick \in {{r} : r \in Resources} \union {Targets}

-----------------------------------------------------------------------------
(* Mutant: a slot once lent is never called in. *)
FreeProbeAlways == probe = NoCall

(* The half-open slot is free, or held longer than any request can run.    *)
FreeProbe == \A d \in Calls : probe = d => at[d] # "send"

(* check: who passes, and whether as the probe. *)
Admit(c) ==
    \E k \in Kinds :
        /\ at[c] = "idle"
        /\ Cardinality({d \in Calls : at[d] # "idle"}) < Permits
        /\ k.target # Api => isolated[k.target] # "held"
        /\ \/ /\ state = "closed"
              /\ UNCHANGED <<state, probe>>
           \/ /\ state = "open" /\ ~runs
              /\ state' = "half_open"
              /\ probe' = c
           \/ /\ state = "half_open"
              /\ FreeProbe
              /\ probe' = c
              /\ UNCHANGED state
        /\ at' = [at EXCEPT ![c] = "send"]
        /\ asks' = [asks EXCEPT ![c] = k]
        /\ tries' = [tries EXCEPT ![c] = 1]
        /\ landed' = [landed EXCEPT ![c] = 0]
        /\ UNCHANGED <<runs, failures, streak, isolated, blind, sick>>

(* record_ok: any response the server actually produced. *)
RecordOk(t) ==
    /\ failures' = 0
    /\ streak' = <<>>
    /\ isolated' = IF t = Api THEN isolated ELSE [isolated EXCEPT ![t] = "no"]
    /\ state' = IF state = "half_open" THEN "closed" ELSE state
    /\ UNCHANGED runs

(* trip: open, for a new window. *)
Trip ==
    /\ state' = "open"
    /\ runs' = TRUE
    /\ streak' = <<>>

(* _isolate: entries long past their window may be dropped. *)
Isolate(t) ==
    \E stale \in SUBSET {r \in Resources \ {t} : isolated[r] = "due"} :
        isolated' = [r \in Resources |-> CASE r = t -> "held"
                                           [] r \in stale -> "no"
                                           [] OTHER -> isolated[r]]

OneTarget(t, latest) == t # Api /\ ToSet(latest) = {t}

(* record_failure: a 5xx or a transport error. *)
RecordFailure(t) ==
    LET count == IF failures < Threshold THEN failures + 1 ELSE Threshold
        full == Append(streak, t)
        latest == IF Len(full) > Threshold THEN Tail(full) ELSE full
    IN  IF t # Api /\ isolated[t] # "no"
        THEN /\ Isolate(t)
             /\ UNCHANGED <<state, runs, failures, streak>>
        ELSE \/ /\ state = "half_open" \/ (count = Threshold /\ ~OneTarget(t, latest))
                /\ Trip
                /\ failures' = count
                /\ UNCHANGED isolated
             \/ /\ state # "half_open" /\ count < Threshold
                /\ failures' = count
                /\ streak' = latest
                /\ UNCHANGED <<state, runs, isolated>>
             \/ /\ state # "half_open" /\ count = Threshold /\ OneTarget(t, latest)
                /\ Isolate(t)
                /\ failures' = 0
                /\ streak' = <<>>
                /\ UNCHANGED <<state, runs>>

-----------------------------------------------------------------------------
(* The call ends, and its claim, if it is still the live one, with it;     *)
(* whatever was recorded has freed the slot anyway.                        *)
End(c, how, times) ==
    /\ at' = [at EXCEPT ![c] = "idle"]
    /\ asks' = [asks EXCEPT ![c] = NoRequest]
    /\ tries' = [tries EXCEPT ![c] = 0]
    /\ landed' = [landed EXCEPT ![c] = 0]
    /\ blind' = (blind \/ (how = "error" /\ ~asks[c].idempotent /\ landed[c] + times > 0))

Again(c, times) ==
    /\ tries[c] < MaxAttempts
    /\ tries' = [tries EXCEPT ![c] = @ + 1]
    /\ landed' = [landed EXCEPT ![c] = @ + times]
    /\ UNCHANGED <<at, asks, blind>>

Recorded == probe' = NoCall /\ UNCHANGED sick
Unwell(c) == asks[c].target \in sick

Succeed(c) ==
    /\ at[c] = "send"
    /\ RecordOk(asks[c].target)
    /\ End(c, "ok", 1)
    /\ Recorded

(* A 4xx is final, unless it says it is retryable (408, 425). *)
Reject(c) ==
    /\ at[c] = "send"
    /\ RecordOk(asks[c].target)
    /\ End(c, "error", 0) \/ Again(c, 0)
    /\ Recorded

(* A page that is not JSON, from the proxy or for a request that landed.   *)
Garble(c) ==
    /\ at[c] = "send" /\ Unwell(c)
    /\ RecordOk(asks[c].target)
    /\ \E times \in IF MayGarble THEN 0..1 ELSE {0} :
          Again(c, times) \/ (tries[c] = MaxAttempts /\ End(c, "error", times))
    /\ Recorded

(* 429: everyone backs off; a long Retry-After is handed to the caller.    *)
Throttle(c) ==
    /\ at[c] = "send" /\ Api \in sick
    /\ Trip
    /\ Again(c, 0) \/ End(c, "error", 0)
    /\ Recorded
    /\ UNCHANGED <<failures, isolated>>

(* Mutant: a 5xx is safe to replay. *)
SafeToReplayAnything(k) == TRUE

SafeToReplay(k) == k.idempotent

(* A 5xx, or no response at all: nobody knows. *)
Fail(c) ==
    /\ at[c] = "send" /\ Unwell(c)
    /\ RecordFailure(asks[c].target)
    /\ \E times \in 0..1 :
          \/ SafeToReplay(asks[c]) /\ Again(c, times)
          \/ /\ ~SafeToReplay(asks[c]) \/ tries[c] = MaxAttempts
             /\ End(c, IF asks[c].write THEN "ambiguous" ELSE "error", times)
    /\ Recorded

(* A connect error: it was never sent. *)
Unsent(c) ==
    /\ at[c] = "send" /\ Unwell(c)
    /\ RecordFailure(asks[c].target)
    /\ Again(c, 0) \/ (tries[c] = MaxAttempts /\ End(c, "error", 0))
    /\ Recorded

(* release: nobody else's claim. *)
Release(c) == probe' = IF probe = c THEN NoCall ELSE probe

(* The task is cancelled, by a sibling's 401 or a stop. *)
Cancel(c) ==
    /\ at[c] # "idle"
    /\ Release(c)
    /\ End(c, "none", 0)
    /\ UNCHANGED <<state, runs, failures, streak, isolated, sick>>

Hang(c) ==
    /\ at[c] = "send"
    /\ Cardinality({d \in Calls : at[d] = "hung"}) < MaxHangs
    /\ at' = [at EXCEPT ![c] = "hung"]
    /\ UNCHANGED <<breaker, asks, tries, landed, blind, sick>>

-----------------------------------------------------------------------------
WindowEnds ==
    /\ runs
    /\ runs' = FALSE
    /\ UNCHANGED <<state, failures, streak, isolated, probe, callVars, sick>>

IsolationEnds(r) ==
    /\ isolated[r] = "held"
    /\ isolated' = [isolated EXCEPT ![r] = "due"]
    /\ UNCHANGED <<state, runs, failures, streak, probe, callVars, sick>>

Recover ==
    /\ sick # {}
    /\ sick' = {}
    /\ UNCHANGED <<breaker, callVars>>

Answer(c) ==
    \/ Succeed(c) \/ Reject(c) \/ Garble(c) \/ Throttle(c) \/ Fail(c)
    \/ Unsent(c)

Next ==
    \/ \E c \in Calls : Admit(c) \/ Answer(c) \/ Cancel(c) \/ Hang(c)
    \/ \E r \in Resources : IsolationEnds(r)
    \/ WindowEnds \/ Recover

Spec == Init /\ [][Next]_vars

(* Callers ask again, requests that do not hang are answered, time passes. *)
Fairness ==
    /\ \A c \in Calls : WF_vars(Admit(c)) /\ WF_vars(Answer(c))
    /\ WF_vars(WindowEnds)
    /\ \A r \in Resources : WF_vars(IsolationEnds(r))
FairSpec == Spec /\ Fairness
-----------------------------------------------------------------------------
(* Types.                                                                  *)
TypeOK ==
    /\ state \in {"closed", "open", "half_open"} /\ runs \in BOOLEAN
    /\ failures \in 0 .. Threshold /\ streak \in Seq(Targets) /\ Len(streak) <= Threshold
    /\ isolated \in [Resources -> {"no", "held", "due"}] /\ probe \in Calls \cup {NoCall}
    /\ at \in [Calls -> {"idle", "send", "hung"}] /\ asks \in [Calls -> Kinds]
    /\ tries \in [Calls -> 0 .. MaxAttempts] /\ landed \in [Calls -> Nat]
    /\ blind \in BOOLEAN /\ sick \subseteq Targets

(* "The probe slot is a loan, and every loan is called in": whatever is    *)
(* cancelled, hung or answered late, the slot is held by a request that    *)
(* still runs.                                                             *)
EveryLoanIsCalledIn ==
    \A c \in Calls : probe = c => state = "half_open" /\ at[c] # "idle"

(* "One sick resource is not a sick API": while only one resource fails,   *)
(* the circuit all calls share stays closed.                               *)
OneSickResourceOpensNothing ==
    Cardinality(sick) = 1 /\ Api \notin sick => state = "closed"

(* POST /workspaces takes effect once at most, and not at all when it ends *)
(* in a plain error, which its caller does not reconcile.                  *)
NothingIsCreatedBlind ==
    ~blind /\ \A c \in Calls : ~asks[c].idempotent => landed[c] <= 1

(* Once the API is well again the circuit closes, though a call may hang,  *)
(* unless each probe is cancelled.                                         *)
CircuitRecovers ==
    <>[][~\E c \in Calls : Cancel(c)]_vars => [](sick = {} => <>(state = "closed"))
=============================================================================
