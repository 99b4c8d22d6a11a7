----------------------------- MODULE TurnMachine -----------------------------
(***************************************************************************)
(* The pure turn state machine of ctb/turn/machine.py: step(context,       *)
(* evidence, now) -> (context, actions).  Every handler of the code is an  *)
(* operator that takes a context and returns [ctx, acts], acts being the   *)
(* sequence of actions the poller must execute in order.  The module has   *)
(* no variables: SessionPoller drives it.  An operator whose comment says  *)
(* "mutant" is a wrong version of the next one, kept to show that a        *)
(* property of the runs depends on it; no specification uses it.           *)
(*                                                                         *)
(* Time.  The code stores monotonic instants and subtracts them from now.  *)
(* Here a context stores the ages directly (entered, quiet, prompt_age,    *)
(* cancel), Older lets one unit of time pass, and ages saturate at AgeMax, *)
(* beyond every threshold.  Left out is what no decision about the turn    *)
(* reads: card copy, tool counts, edited paths, topic markers, typing, the *)
(* text of an error, and the poll interval (cadence_for), whose only part  *)
(* here is that a tick follows a tick in every state but DEAD.             *)
(***************************************************************************)
EXTENDS Integers, Sequences

CONSTANTS
    Prompts,                    \* messageIds the bot may POST to this session
    OtherTurns,                 \* turnIds of turns started elsewhere
    DRAIN_CONFIRMS, CANCEL_CONFIRMS, STATUS_FAILURE_THRESHOLD,
    PROMPT_AGE_OUT, TURN_END_AGE_OUT, QUEUED_TIMEOUT, CANCEL_TIMEOUT,
    WAKE_TIMEOUT, CURSOR_ONLY_QUIET,
    AgeMax                      \* every age saturates here

Thresholds == {PROMPT_AGE_OUT, TURN_END_AGE_OUT, QUEUED_TIMEOUT,
               CANCEL_TIMEOUT, WAKE_TIMEOUT, CURSOR_ONLY_QUIET}

ASSUME ThresholdAssumption ==
    /\ AgeMax \in Nat
    /\ Thresholds \subseteq 1..AgeMax

ASSUME ConfirmAssumption ==
    /\ DRAIN_CONFIRMS \in Nat \ {0}
    /\ CANCEL_CONFIRMS \in 1..DRAIN_CONFIRMS
    /\ STATUS_FAILURE_THRESHOLD \in Nat \ {0}

ASSUME TurnIdAssumption == Prompts \intersect OtherTurns = {}

(* A turn is identified by the messageId of the prompt that started it.    *)
TurnIds == Prompts \union OtherTurns

TurnStates == {"IDLE", "QUEUED", "WAKING", "WORKING", "DRAINING",
               "CANCELLING", "ERROR", "DEAD"}
ActiveStates == {"QUEUED", "WAKING", "WORKING", "DRAINING", "CANCELLING"}

WsStatuses == {"READY", "SLEEPING", "INITIALIZING", "ARCHIVED"}
WsUsable(s) == s = "READY"
WsWaking(s) == s \in {"SLEEPING", "INITIALIZING"}
WsGone(s) == s = "ARCHIVED"

SessionStatuses == {"idle", "working", "error", "unknown"}
Errors == {"none", "status", "timeout"}

Ages == 0..AgeMax
NoAge == -1                     \* the code's None timestamp
OptAges == Ages \union {NoAge}

Contexts ==
    [state: TurnStates, start_witnessed: BOOLEAN,
     pending: SUBSET Prompts, prompt_age: [Prompts -> Ages],
     entered: Ages, quiet: OptAges,
     consecutive_idle: 0..DRAIN_CONFIRMS,
     failures: 0..STATUS_FAILURE_THRESHOLD, cursor_only: BOOLEAN,
     ws_ready: BOOLEAN,         \* workspace_status is None or usable
     error: Errors,
     open_turns: SUBSET TurnIds, marks_turn_end: BOOLEAN, cancel: OptAges]

ActionTypes == {"AbandonPrompt", "RePost", "ForceDrain", "RequestStatus",
                "RequestWorkspaceStatus", "PostCancel", "FinalizeDone",
                "FinalizeCancelled", "UnbindTopic"}

(* AbandonPrompt and RePost carry the set of prompts they are issued for:  *)
(* the code emits one action per prompt, in an order nothing depends on.   *)
Actions == [type: ActionTypes, ids: SUBSET Prompts]

Act(t) == <<[type |-> t, ids |-> {}]>>
ActOn(t, ids) == IF ids = {} THEN <<>> ELSE <<[type |-> t, ids |-> ids]>>

Result(c, acts) == [ctx |-> c, acts |-> acts]

-----------------------------------------------------------------------------
(* The context: derived values and elementary updates (turn/state.py).     *)

QuietFor(c) == IF c.quiet = NoAge THEN c.entered ELSE c.quiet
AgedOut(c, p) == c.prompt_age[p] >= PROMPT_AGE_OUT
LiveOutstanding(c) == {p \in c.pending : ~AgedOut(c, p)}

TurnEndPending(c) ==
    /\ c.marks_turn_end
    /\ c.open_turns # {}
    /\ QuietFor(c) < TURN_END_AGE_OUT

Enter(c, s) == [c EXCEPT !.state = s, !.entered = 0]

WithPrompt(c, p, age) ==
    [c EXCEPT !.pending = @ \union {p}, !.prompt_age[p] = age]

WithoutPrompts(c, ids) ==
    [c EXCEPT !.pending = @ \ ids,
              !.prompt_age = [p \in Prompts |-> IF p \in ids THEN 0 ELSE @[p]]]

OneOlder(a) == IF a < AgeMax THEN a + 1 ELSE a
OptOlder(a) == IF a = NoAge THEN NoAge ELSE OneOlder(a)

(* One unit of time passes; only prompts in flight have an age.            *)
Older(c) ==
    [c EXCEPT !.entered = OneOlder(@), !.quiet = OptOlder(@),
              !.cancel = OptOlder(@),
              !.prompt_age = [p \in Prompts |-> IF p \in c.pending
                                                THEN OneOlder(@[p]) ELSE @[p]]]

-----------------------------------------------------------------------------
(* Prompt bookkeeping and the turn's life cycle.                           *)

(* A re-POST keeps the age of the first attempt.                           *)
TrackPrompt(c, p) == IF p \in c.pending THEN c ELSE WithPrompt(c, p, 0)

AgedPrompts(c) == c.pending \ LiveOutstanding(c)

StartTurn(c) ==
    [Enter(c, "QUEUED") EXCEPT
        !.start_witnessed = FALSE, !.quiet = NoAge, !.consecutive_idle = 0,
        !.open_turns = {}, !.error = "none", !.cancel = NoAge]

WitnessStart(c) ==
    [Enter(c, "WORKING") EXCEPT !.start_witnessed = TRUE,
                                !.consecutive_idle = 0]

(* End the turn: abandon what was never witnessed, report, go quiet.       *)
Finalize(c, kind) ==
    Result([Enter(WithoutPrompts(c, c.pending), "IDLE") EXCEPT
                !.start_witnessed = FALSE, !.quiet = NoAge,
                !.consecutive_idle = 0, !.open_turns = {}, !.error = "none",
                !.cancel = NoAge],
           ActOn("AbandonPrompt", c.pending) \o Act(kind))

EnterError(c, message) ==
    [Enter(c, "ERROR") EXCEPT !.error = message, !.start_witnessed = FALSE,
                              !.consecutive_idle = 0]

-----------------------------------------------------------------------------
(* PostOk, PostAmbiguous: rules 1 and 3.                                   *)

\* mutant: the prompt is parked in the state nothing handles
AcceptPromptParked(c) ==
    IF c.state = "IDLE" THEN Enter(c, "SUBMIT_PENDING") ELSE c

AcceptPrompt(c) ==
    IF c.state \in {"WORKING", "QUEUED", "WAKING", "CANCELLING"} THEN c
    ELSE IF c.state = "DRAINING"
    THEN [Enter(c, "QUEUED") EXCEPT !.start_witnessed = FALSE,
                                    !.consecutive_idle = 0]
    ELSE StartTurn(c)

OnPostOk(c, p) == Result(AcceptPrompt(TrackPrompt(c, p)), <<>>)

OnPostAmbiguous(c, p) ==
    Result(AcceptPrompt(TrackPrompt(c, p)), ActOn("RePost", {p}))

(* Boot: rule 22.  No persisted instant survives the new monotonic clock,  *)
(* and no conclusion is drawn before everything is asked again.            *)
RebaseClock(c) ==
    [c EXCEPT !.entered = 0, !.quiet = NoAge,
              !.prompt_age = [p \in Prompts |-> 0]]

OnBoot(c) ==
    Result([RebaseClock(c) EXCEPT !.consecutive_idle = 0, !.failures = 0,
                                  !.cursor_only = FALSE],
           Act("ForceDrain") \o Act("RequestStatus")
               \o Act("RequestWorkspaceStatus"))

-----------------------------------------------------------------------------
(* Status: rules 4, 6, 13, 15, 16, 17, 19 and the status-free fallback.    *)

MoreIdle(c) == [c EXCEPT !.consecutive_idle =
                    IF @ < DRAIN_CONFIRMS THEN @ + 1 ELSE @]

\* mutant: rule 15 without the end-of-turn gate
DrainCheckUngated(c) ==
    LET aged == WithoutPrompts(c, AgedPrompts(c))
    IN  IF c.consecutive_idle < DRAIN_CONFIRMS \/ LiveOutstanding(aged) # {}
        THEN Result(c, <<>>) ELSE Finalize(c, "FinalizeDone")

(* Rule 15: three quiet idles, nothing unwitnessed, the agent said done.   *)
DrainCheck(c) ==
    LET aged == WithoutPrompts(c, AgedPrompts(c))
        drop == ActOn("AbandonPrompt", AgedPrompts(c))
    IN  IF c.consecutive_idle < DRAIN_CONFIRMS THEN Result(c, <<>>)
        ELSE IF LiveOutstanding(aged) # {} \/ TurnEndPending(aged)
        THEN Result(aged, drop)
        ELSE LET done == Finalize(aged, "FinalizeDone")
             IN  Result(done.ctx, drop \o done.acts)

(* Rule 19: a confirmed cancel does not wait for unwitnessed prompts.      *)
CancelCheck(c) ==
    IF c.consecutive_idle < CANCEL_CONFIRMS THEN Result(c, <<>>)
    ELSE Finalize(c, "FinalizeCancelled")

IdleInError(c) ==
    [Enter(c, IF LiveOutstanding(c) # {} THEN "QUEUED" ELSE "IDLE") EXCEPT
        !.error = "none", !.consecutive_idle = 0]

StatusIdle(c) ==
    CASE c.state = "WORKING" ->
             Result([Enter(c, "DRAINING") EXCEPT !.consecutive_idle = 1], <<>>)
      [] c.state = "DRAINING"   -> DrainCheck(MoreIdle(c))
      [] c.state = "CANCELLING" -> CancelCheck(MoreIdle(c))
      [] c.state = "ERROR"      -> Result(IdleInError(c), <<>>)
      [] OTHER                  -> Result(c, <<>>)      \* rule 6 among them

StatusWorking(c) ==
    CASE c.state \in {"IDLE", "QUEUED", "WAKING"} -> WitnessStart(c)
      [] c.state = "DRAINING" ->
             [Enter(c, "WORKING") EXCEPT !.consecutive_idle = 0]
      [] c.state = "ERROR" -> WitnessStart([c EXCEPT !.error = "none"])
      [] OTHER -> [c EXCEPT !.consecutive_idle = 0]

(* The same error again is not reported again.                             *)
StatusError(c) ==
    IF c.state = "ERROR" /\ c.error = "status" THEN Result(c, <<>>)
    ELSE Result(EnterError(c, "status"), Act("ForceDrain"))

(* A readable /status always ends the fallback.                            *)
OnStatus(c, value) ==
    LET heard == [c EXCEPT !.failures = 0, !.cursor_only = FALSE]
    IN  CASE value = "idle"    -> StatusIdle(heard)
          [] value = "working" -> Result(StatusWorking(heard), <<>>)
          [] value = "error"   -> StatusError(heard)
          [] OTHER             -> Result(heard, <<>>)

OnStatusUnavailable(c) ==
    LET failed == [c EXCEPT !.failures =
                       IF @ < STATUS_FAILURE_THRESHOLD THEN @ + 1 ELSE @]
    IN  Result([failed EXCEPT !.cursor_only =
                    @ \/ failed.failures = STATUS_FAILURE_THRESHOLD], <<>>)

-----------------------------------------------------------------------------
(* Delta: rules 2, 5, 12 and 14.  A delta is a page of new transcript      *)
(* messages reduced by cursor.build_delta.                                 *)

Deltas == [agent: BOOLEAN, turns: SUBSET TurnIds, echoed: SUBSET Prompts,
           ended: SUBSET TurnIds, untagged_end: BOOLEAN]

DeltaStarted(d) == d.agent \/ d.turns # {}

OpenTurns(c, d) ==
    IF d.untagged_end THEN {} ELSE (c.open_turns \union d.turns) \ d.ended

\* mutant: a prompt is witnessed by its turn alone, not by its echo
RecordDeltaByTurn(c, d) ==
    [WithoutPrompts(c, c.pending \intersect d.turns) EXCEPT
        !.quiet = 0, !.consecutive_idle = 0, !.open_turns = OpenTurns(c, d),
        !.marks_turn_end = @ \/ d.ended # {} \/ d.untagged_end]

(* Bookkeeping done in every state, before the state's own rule.           *)
RecordDelta(c, d) ==
    [WithoutPrompts(c, c.pending \intersect (d.echoed \union d.turns)) EXCEPT
        !.quiet = 0, !.consecutive_idle = 0,
        !.open_turns = OpenTurns(c, d),
        !.marks_turn_end = @ \/ d.ended # {} \/ d.untagged_end]

DeltaRule(c, d) ==
    CASE c.state = "QUEUED" /\ DeltaStarted(d) -> WitnessStart(c)
      [] c.state \in {"IDLE", "WAKING"} /\ d.agent -> WitnessStart(c)
      [] c.state = "DRAINING" -> Enter(c, "WORKING")
      [] OTHER -> c

OnDelta(c, d) == Result(DeltaRule(RecordDelta(c, d), d), <<>>)

-----------------------------------------------------------------------------
(* Workspace status: rules 9, 10 and 20.                                   *)

(* Rule 20, also reached by a 404: terminal.  The ledger rows are left.    *)
(* What else the code leaves in a dead context nothing reads: blanked.     *)
Die(c) ==
    Result([Enter(WithoutPrompts(c, c.pending), "DEAD") EXCEPT
              !.consecutive_idle = 0, !.start_witnessed = FALSE,
              !.quiet = NoAge, !.failures = 0, !.cursor_only = FALSE,
              !.ws_ready = TRUE, !.error = "none", !.open_turns = {},
              !.cancel = NoAge],
           Act("UnbindTopic"))

ToIdle(c) == [Enter(c, "IDLE") EXCEPT !.consecutive_idle = 0]

WsReady(c) ==
    IF c.pending # {}
    THEN Result([Enter(c, "QUEUED") EXCEPT !.consecutive_idle = 0,
                                           !.start_witnessed = FALSE],
                ActOn("RePost", c.pending))
    ELSE Result(ToIdle(c), <<>>)

(* A parked workspace is at rest unless a prompt waits for it.             *)
AtRest(c, s) == s = "SLEEPING" /\ c.pending = {}

OnWs(old, s) ==
    LET c == [old EXCEPT !.ws_ready = WsUsable(s)]
    IN  CASE WsGone(s) -> Die(c)
          [] AtRest(c, s) /\ c.state = "WAKING" -> Result(ToIdle(c), <<>>)
          [] /\ WsWaking(s)
             /\ c.state = "QUEUED" \/ (c.state = "IDLE" /\ ~AtRest(c, s)) ->
                 Result([Enter(c, "WAKING") EXCEPT !.consecutive_idle = 0],
                        <<>>)
          [] WsUsable(s) /\ c.state = "WAKING" -> WsReady(c)
          [] OTHER -> Result(c, <<>>)

-----------------------------------------------------------------------------
(* Cancel: rule 18.                                                        *)

EnterCancelling(c) ==
    [Enter(c, "CANCELLING") EXCEPT !.consecutive_idle = 0, !.cancel = 0]

OnCancel(c) == Result(EnterCancelling(c), Act("PostCancel"))

OnCancelAck(c) ==
    Result(IF c.state = "CANCELLING" THEN c ELSE EnterCancelling(c), <<>>)

-----------------------------------------------------------------------------
(* Timer: rules 8, 11, 23 and the cursor-only fallback.                    *)

CursorOnlyQuiet(c) == c.cursor_only /\ QuietFor(c) >= CURSOR_ONLY_QUIET

CursorOnlyFinalize(c) ==
    /\ CursorOnlyQuiet(c)
    /\ LiveOutstanding(c) = {}
    /\ ~TurnEndPending(c)

\* mutant: any delta, even a lifecycle event, disarms the timeout
TimerInQueuedSilent(c) ==
    IF c.entered >= QUEUED_TIMEOUT /\ ~c.start_witnessed /\ c.quiet = NoAge
    THEN Result(EnterError(WithoutPrompts(c, c.pending), "timeout"),
                ActOn("AbandonPrompt", c.pending))
    ELSE Result(c, <<>>)

TimerInQueued(c) ==
    IF c.entered >= QUEUED_TIMEOUT /\ ~c.start_witnessed
    THEN Result(EnterError(WithoutPrompts(c, c.pending), "timeout"),
                ActOn("AbandonPrompt", c.pending))
    ELSE Result(c, <<>>)

TimerInDraining(c) ==
    IF \/ CursorOnlyFinalize(c)
       \/ /\ c.consecutive_idle >= DRAIN_CONFIRMS
          /\ LiveOutstanding(c) = {}
          /\ ~TurnEndPending(c)
    THEN Finalize(c, "FinalizeDone")
    ELSE Result(c, <<>>)

TimerInCancelling(c) ==
    IF CursorOnlyQuiet(c) THEN Finalize(c, "FinalizeCancelled")
    ELSE IF c.cancel # NoAge /\ c.cancel >= CANCEL_TIMEOUT
    THEN Result([Enter(c, "WORKING") EXCEPT !.consecutive_idle = 0,
                                            !.cancel = NoAge],
                <<>>)
    ELSE Result(c, <<>>)

TimerRule(c) ==
    CASE c.state = "QUEUED" -> TimerInQueued(c)
      [] c.state = "WAKING" /\ c.entered >= WAKE_TIMEOUT ->
             Result(EnterError(c, "timeout"), <<>>)
      [] c.state = "WORKING" /\ CursorOnlyFinalize(c) ->
             Finalize(c, "FinalizeDone")
      [] c.state = "DRAINING" -> TimerInDraining(c)
      [] c.state = "CANCELLING" -> TimerInCancelling(c)
      [] OTHER -> Result(c, <<>>)

\* mutant: a prompt ages out of the context but not out of the ledger
OnTimerSilent(c) == TimerRule(WithoutPrompts(c, AgedPrompts(c)))

OnTimer(c) ==
    LET r == TimerRule(WithoutPrompts(c, AgedPrompts(c)))
    IN  Result(r.ctx, ActOn("AbandonPrompt", AgedPrompts(c)) \o r.acts)

-----------------------------------------------------------------------------
(* step: a dead session ignores everything; otherwise the evidence's own   *)
(* handler.  Evidence is a record whose type names the class.              *)

Step(c, e) ==
    CASE c.state = "DEAD" -> Result(c, <<>>)
      [] c.state # "DEAD" ->
           CASE e.type = "PostOk"            -> OnPostOk(c, e.id)
             [] e.type = "PostAmbiguous"     -> OnPostAmbiguous(c, e.id)
             [] e.type = "Boot"              -> OnBoot(c)
             [] e.type = "Status"            -> OnStatus(c, e.value)
             [] e.type = "StatusUnavailable" -> OnStatusUnavailable(c)
             [] e.type = "Delta"             -> OnDelta(c, e.page)
             [] e.type = "Ws"                -> OnWs(c, e.value)
             [] e.type = "Cancel"            -> OnCancel(c)
             [] e.type = "CancelAck"         -> OnCancelAck(c)
             [] e.type = "E404"              -> Die(c)
             [] e.type = "Timer"             -> OnTimer(c)
=============================================================================
