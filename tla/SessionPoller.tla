---------------------------- MODULE SessionPoller ----------------------------
(***************************************************************************)
(* One session under ctb/turn/session_poller.py: the poller task that      *)
(* gathers evidence, steps the turn machine, saves the context and then    *)
(* executes the returned actions; the prompt ledger (db/repo/prompts.py);  *)
(* the Telegram handler that writes a prompt and POSTs it concurrently     *)
(* (turn/cursor.send_prompt, bot/handlers/common.py); crashes and          *)
(* restarts.  Conductor is external: it may answer anything its API can.   *)
(*                                                                         *)
(* A tick is the sequence of things it has left to do (todo).  Evidence    *)
(* raised while an action runs is applied at once, its own actions in      *)
(* front of the rest, as the recursive calls of the code do.               *)
(***************************************************************************)
EXTENDS TurnMachine

CONSTANTS
    AgentMarksTurnEnd,    \* is the agent in AGENTS_MARKING_TURN_END?
    MayCrash,             \* may the process crash?
    MayStop               \* may the user press Stop?

ASSUME SwitchAssumption ==
    {AgentMarksTurnEnd, MayCrash, MayStop} \subseteq BOOLEAN

VARIABLES
    task,       \* "down", "up" (a SessionPoller exists) or "stopped"
    ctx,        \* its in-memory TurnContext
    todo,       \* what is left of the current tick; <<>> when asleep
    reposted,   \* prompts already re-POSTed in this tick
    row,        \* the sessions row: the durable context, and is_bound
    ledger,     \* outbound_prompts: each prompt's state, and the age of its
                \* posted_at (of created_at while pending; 0 once settled)
    posting,    \* prompts whose Telegram handler awaits its POST's answer
    accepted,   \* prompts Conductor has taken
    echoed      \* prompts whose user echo the cursor has passed

durable == <<row, ledger>>
conductor == <<accepted, echoed>>
vars == <<task, ctx, todo, reposted, durable, posting, conductor>>

Unsettled == {"pending", "posted"}
LedgerStates == {"none", "pending", "posted", "witnessed", "failed",
                 "abandoned"}
InState(S) == {p \in Prompts : ledger[p].state \in S}
MarkRow(p, s) == ledger' = [ledger EXCEPT ![p] = [state |-> s, age |-> 0]]

(* The poller's own work items, besides the machine's actions.             *)
WorkTypes == {"Boot", "AdoptPosted", "AdoptPending", "Drain",
              "PollStatus", "SaveContext"}
Items == [type: ActionTypes \union WorkTypes, ids: SUBSET Prompts]

FreshContext ==
    [state |-> "IDLE", start_witnessed |-> FALSE, pending |-> {},
     prompt_age |-> [p \in Prompts |-> 0], entered |-> 0, quiet |-> NoAge,
     consecutive_idle |-> 0, failures |-> 0, cursor_only |-> FALSE,
     ws_ready |-> TRUE, error |-> "none", open_turns |-> {},
     marks_turn_end |-> AgentMarksTurnEnd, cancel |-> NoAge]

\* mutant: start_witnessed is not one of the columns saved
DurableUnwitnessed(c) ==
    [c EXCEPT !.pending = {}, !.prompt_age = [p \in Prompts |-> 0],
              !.entered = 0, !.quiet = NoAge, !.open_turns = {},
              !.cancel = NoAge, !.start_witnessed = FALSE]

(* save_turn_context keeps the durable half.  Instants are persisted too,  *)
(* but Boot rebases them all before anything reads them.                   *)
Durable(c) ==
    [c EXCEPT !.pending = {}, !.prompt_age = [p \in Prompts |-> 0],
              !.entered = 0, !.quiet = NoAge, !.open_turns = {},
              !.marks_turn_end = AgentMarksTurnEnd, !.cancel = NoAge]

Saved(c) == [ctx |-> Durable(c),
             bound |-> row.bound /\ c.state # "DEAD"]

(* load_turn_context: the row, and every unsettled prompt of the ledger.   *)
Loaded == [row.ctx EXCEPT !.pending = InState(Unsettled)]

Init ==
    /\ task = "down"
    /\ ctx = FreshContext
    /\ todo = <<>>
    /\ reposted = {}
    /\ row = [ctx |-> Durable(FreshContext), bound |-> TRUE]
    /\ ledger = [p \in Prompts |-> [state |-> "none", age |-> 0]]
    /\ posting = {}
    /\ accepted = {}
    /\ echoed = {}

-----------------------------------------------------------------------------
(* Evidence.                                                               *)

Head1 == todo[1]
AtHead(t) == task = "up" /\ todo # <<>> /\ Head1.type = t
Stopped == ctx.state = "DEAD" /\ task = "up"

\* mutant: the context is saved after its actions
ApplyThenSave(e, rest) ==
    LET r == Step(ctx, e)
    IN  /\ ctx' = r.ctx
        /\ row' = row
        /\ todo' = r.acts \o Act("SaveContext") \o rest

(* _apply_evidence: step, save, then execute the actions before whatever   *)
(* is left.  Death is saved only after its topic has been unbound.         *)
Apply(e, rest) ==
    LET r == Step(ctx, e)
        dies == \E i \in DOMAIN r.acts : r.acts[i].type = "UnbindTopic"
    IN  /\ ctx' = r.ctx
        /\ IF dies
           THEN /\ row' = row
                /\ todo' = r.acts \o Act("SaveContext") \o rest
           ELSE /\ row' = Saved(r.ctx)
                /\ todo' = r.acts \o rest

Evidence(t) == [type |-> t]
EvidenceOf(t, p) == [type |-> t, id |-> p]
Valued(t, v) == [type |-> t, value |-> v]

(* The head is dealt with and raises no evidence.                          *)
Consume == /\ todo' = Tail(todo)
           /\ UNCHANGED <<ctx, row>>

(* The head stands for several prompts: take p out of it.                  *)
Without(p) == IF Head1.ids = {p} THEN Tail(todo)
              ELSE <<[Head1 EXCEPT !.ids = @ \ {p}]>> \o Tail(todo)

-----------------------------------------------------------------------------
(* The supervisor starts a task for a bound session that is not dead, and  *)
(* the first tick re-POSTs what is recoverable, then boots the machine.    *)

Spawn ==
    /\ task = "down"
    /\ row.bound
    /\ row.ctx.state # "DEAD"
    /\ task' = "up"
    /\ ctx' = Loaded
    /\ todo' = (IF row.ctx.ws_ready
                THEN ActOn("RePost", InState({"pending"})) ELSE <<>>)
               \o Act("Boot")
    /\ reposted' = {}
    /\ UNCHANGED <<durable, posting, conductor>>

BootMachine ==
    /\ AtHead("Boot")
    /\ Apply(Evidence("Boot"), Tail(todo))
    /\ UNCHANGED <<task, reposted, ledger, posting, conductor>>

(* A tick begins with _reconcile_new_prompts: it lists the ledger rows the *)
(* context does not know.                                                  *)
StartTick ==
    /\ task = "up"
    /\ ~Stopped
    /\ todo = <<>>
    /\ todo' = ActOn("AdoptPosted", InState({"posted"}) \ ctx.pending)
               \o ActOn("AdoptPending", InState({"pending"}) \ ctx.pending)
               \o Act("Drain") \o Act("PollStatus")
    /\ reposted' = {}
    /\ UNCHANGED <<task, ctx, durable, posting, conductor>>

(* One unit of time, between ticks: every age the code derives from now.   *)
ClockTick ==
    /\ todo = <<>>
    /\ ctx' = IF task = "up" THEN Older(ctx) ELSE ctx
    /\ ledger' = [p \in Prompts |->
           IF ledger[p].state \in Unsettled /\ ledger[p].age < PROMPT_AGE_OUT
           THEN [ledger[p] EXCEPT !.age = @ + 1] ELSE ledger[p]]
    /\ UNCHANGED <<task, todo, reposted, row, posting, conductor>>

-----------------------------------------------------------------------------
(* Each of the rows it listed.                                             *)

Adopt(t, evidence) ==
    /\ AtHead(t)
    /\ \E p \in Head1.ids :
         LET r == Step(WithPrompt(ctx, p, ledger[p].age),
                       EvidenceOf(evidence, p))
         IN  /\ ctx' = r.ctx
             /\ row' = Saved(r.ctx)
             /\ todo' = r.acts \o Without(p)
    /\ UNCHANGED <<task, reposted, ledger, posting, conductor>>

AdoptPosted == Adopt("AdoptPosted", "PostOk")
AdoptPending == Adopt("AdoptPending", "PostAmbiguous")

-----------------------------------------------------------------------------
(* POSTing a prompt.  Conductor dedupes the messageId.                     *)

RePostSkipped ==
    /\ AtHead("RePost")
    /\ \E p \in Head1.ids \intersect reposted : todo' = Without(p)
    /\ UNCHANGED <<task, ctx, reposted, durable, posting, conductor>>

(* repost_prompt: a settled row is reported as accepted, untouched.        *)
RePostSettled ==
    /\ AtHead("RePost")
    /\ \E p \in Head1.ids \ reposted :
         /\ ledger[p].state \notin Unsettled
         /\ reposted' = reposted \union {p}
         /\ Apply(EvidenceOf("PostOk", p), Without(p))
    /\ UNCHANGED <<task, ledger, posting, conductor>>

RePostAccepted ==
    /\ AtHead("RePost")
    /\ \E p \in Head1.ids \ reposted :
         /\ ledger[p].state \in Unsettled
         /\ reposted' = reposted \union {p}
         /\ accepted' = accepted \union {p}
         /\ MarkRow(p, "posted")
         /\ Apply(EvidenceOf("PostOk", p), Without(p))
    /\ UNCHANGED <<task, posting, echoed>>

(* Timeout, reset, 5xx, open circuit: it may or may not have landed.       *)
RePostAmbiguous ==
    /\ AtHead("RePost")
    /\ \E p \in Head1.ids \ reposted :
         /\ ledger[p].state \in Unsettled
         /\ reposted' = reposted \union {p}
         /\ accepted' \in {accepted, accepted \union {p}}
         /\ Apply(EvidenceOf("PostAmbiguous", p), Without(p))
    /\ UNCHANGED <<task, ledger, posting, echoed>>

(* A definite refusal marks the row and raises out of the tick: the task   *)
(* ends and the supervisor starts another.                                 *)
RePostRefused ==
    /\ AtHead("RePost")
    /\ \E p \in (Head1.ids \ reposted) \ accepted :
         /\ ledger[p].state \in Unsettled
         /\ MarkRow(p, "failed")
    /\ task' = "down"
    /\ ctx' = FreshContext
    /\ todo' = <<>>
    /\ reposted' = {}
    /\ UNCHANGED <<row, posting, conductor>>

(* send_prompt in the Telegram handler: the ledger row first, one POST,    *)
(* then the outcome, then the session row is told the prompt is queued.    *)
SendPrompt(p) ==
    /\ ledger[p].state = "none"
    /\ row.bound
    /\ posting' = posting \union {p}
    /\ MarkRow(p, "pending")
    /\ UNCHANGED <<task, ctx, todo, reposted, row, conductor>>

HandlerPostLands(p) ==
    /\ p \in posting
    /\ accepted' = accepted \union {p}
    /\ UNCHANGED <<task, ctx, todo, reposted, durable, posting, echoed>>

TellSession == row' = [row EXCEPT !.ctx.state = "QUEUED",
                                  !.ctx.start_witnessed = FALSE,
                                  !.ctx.consecutive_idle = 0]

HandlerPosted(p) ==
    /\ p \in posting \intersect accepted
    /\ posting' = posting \ {p}
    /\ MarkRow(p, "posted")
    /\ TellSession
    /\ UNCHANGED <<task, ctx, todo, reposted, conductor>>

HandlerAmbiguous(p) ==
    /\ p \in posting
    /\ posting' = posting \ {p}
    /\ TellSession
    /\ UNCHANGED <<task, ctx, todo, reposted, ledger, conductor>>

HandlerRefused(p) ==
    /\ p \in posting \ accepted
    /\ posting' = posting \ {p}
    /\ MarkRow(p, "failed")
    /\ UNCHANGED <<task, ctx, todo, reposted, row, conductor>>

-----------------------------------------------------------------------------
(* Draining the transcript.  A page holds what Conductor has to say: user  *)
(* echoes of accepted prompts, agent output of at most one turn, its end.  *)

Page(agent, turns, new, ended, untagged) ==
    [agent |-> agent, turns |-> turns, echoed |-> new, ended |-> ended,
     untagged_end |-> untagged]

AtMostOne(turns) == {{}} \union {{t} : t \in turns}

PagesWith(new) ==
    LET own == echoed \union new
    IN  {Page(FALSE, ts, new, {}, FALSE) : ts \in AtMostOne(own)}
        \union UNION {{Page(TRUE, ts, new, {}, FALSE), Page(TRUE, ts, new, {}, TRUE),
                       Page(TRUE, ts, new, ts, FALSE)} :
                          ts \in AtMostOne(own \union OtherTurns)}

Pages == UNION {PagesWith(new) : new \in SUBSET (accepted \ echoed)}

DrainHead == /\ task = "up" /\ todo # <<>>
             /\ Head1.type \in {"Drain", "ForceDrain"}
             /\ ~Stopped

Witness(ids) == ledger' = [p \in Prompts |->
                    IF p \in ids /\ ledger[p].state \in Unsettled
                    THEN [state |-> "witnessed", age |-> 0] ELSE ledger[p]]

DrainDelta ==
    /\ DrainHead
    /\ \E d \in Pages :
         /\ echoed' = echoed \union d.echoed
         /\ Witness(d.echoed)
         /\ Apply([type |-> "Delta", page |-> d], Tail(todo))
    /\ UNCHANGED <<task, reposted, posting, accepted>>

(* The cursor commits before the ledger is told: a crash in between loses  *)
(* the witness.                                                            *)
CrashInDrain ==
    /\ DrainHead
    /\ MayCrash
    /\ \E ids \in SUBSET (accepted \ echoed) : echoed' = echoed \union ids
    /\ task' = "down"
    /\ ctx' = FreshContext
    /\ todo' = <<>>
    /\ reposted' = {}
    /\ posting' = {}
    /\ UNCHANGED <<durable, accepted>>

(* An empty page is the only thing that becomes Timer evidence.            *)
DrainQuiet ==
    /\ DrainHead
    /\ IF Head1.type = "Drain" THEN Apply(Evidence("Timer"), Tail(todo))
       ELSE Consume
    /\ UNCHANGED <<task, reposted, ledger, posting, conductor>>

DrainUnavailable ==
    /\ DrainHead
    /\ Consume
    /\ UNCHANGED <<task, reposted, ledger, posting, conductor>>

-----------------------------------------------------------------------------
(* Status requests: which a tick makes is decided from the state at hand.  *)

SessionDue == ctx.cursor_only \/ ctx.state \in {"QUEUED", "DRAINING",
                                               "CANCELLING", "ERROR"}

(* WORKING asks every second tick; which one is left open here.            *)
PollStatus ==
    /\ AtHead("PollStatus")
    /\ \E due \in IF ctx.state = "WORKING" /\ ~SessionDue THEN BOOLEAN
                  ELSE {SessionDue} :
         todo' = (IF due THEN Act("RequestStatus") ELSE <<>>)
                 \o (IF ctx.state = "WAKING" THEN Act("RequestWorkspaceStatus")
                     ELSE <<>>)
                 \o Tail(todo)
    /\ UNCHANGED <<task, ctx, reposted, durable, posting, conductor>>

SessionStatus(value) ==
    /\ AtHead("RequestStatus")
    /\ ~Stopped
    /\ Apply(Valued("Status", value), Tail(todo))
    /\ UNCHANGED <<task, reposted, ledger, posting, conductor>>

SessionStatusUnavailable ==
    /\ AtHead("RequestStatus")
    /\ ~Stopped
    /\ Apply(Evidence("StatusUnavailable"), Tail(todo))
    /\ UNCHANGED <<task, reposted, ledger, posting, conductor>>

WorkspaceStatus(value) ==
    /\ AtHead("RequestWorkspaceStatus")
    /\ ~Stopped
    /\ Apply(Valued("Ws", value), Tail(todo))
    /\ UNCHANGED <<task, reposted, ledger, posting, conductor>>

WorkspaceStatusUnavailable ==
    /\ AtHead("RequestWorkspaceStatus")
    /\ ~Stopped
    /\ Consume
    /\ UNCHANGED <<task, reposted, ledger, posting, conductor>>

(* Any request may answer that the session is gone.                        *)
SessionGone ==
    /\ task = "up" /\ todo # <<>>
    /\ Head1.type \in {"Drain", "ForceDrain", "RequestStatus",
                       "RequestWorkspaceStatus", "PostCancel"}
    /\ ~Stopped
    /\ Apply(Evidence("E404"), Tail(todo))
    /\ UNCHANGED <<task, reposted, ledger, posting, conductor>>

(* Once dead, the rest of the tick changes nothing.                        *)
SkipWhenStopped ==
    /\ task = "up" /\ todo # <<>>
    /\ Stopped
    /\ Head1.type \in {"Drain", "ForceDrain", "PollStatus", "RequestStatus",
                       "RequestWorkspaceStatus", "PostCancel"}
    /\ Consume
    /\ UNCHANGED <<task, reposted, ledger, posting, conductor>>

-----------------------------------------------------------------------------
(* Cancel.  dispatch takes the poller's lock, so it never splits a tick.   *)

PressStop ==
    /\ task = "up"
    /\ todo = <<>>
    /\ MayStop
    /\ reposted' = {}
    /\ Apply(Evidence("Cancel"), <<>>)
    /\ UNCHANGED <<task, ledger, posting, conductor>>

CancelAcknowledged ==
    /\ AtHead("PostCancel")
    /\ ~Stopped
    /\ Apply(Evidence("CancelAck"), Tail(todo))
    /\ UNCHANGED <<task, reposted, ledger, posting, conductor>>

(* A transport error is logged and nothing else.                           *)
CancelLost ==
    /\ AtHead("PostCancel")
    /\ ~Stopped
    /\ Consume
    /\ UNCHANGED <<task, reposted, ledger, posting, conductor>>

-----------------------------------------------------------------------------
(* The remaining actions.                                                  *)

Abandon ==
    /\ AtHead("AbandonPrompt")
    /\ \E p \in Head1.ids :
         /\ MarkRow(p, "abandoned")
         /\ todo' = Without(p)
    /\ UNCHANGED <<task, ctx, reposted, row, posting, conductor>>

Announce ==
    /\ task = "up" /\ todo # <<>>
    /\ Head1.type \in {"FinalizeDone", "FinalizeCancelled"}
    /\ todo' = Tail(todo)
    /\ UNCHANGED <<task, ctx, reposted, durable, posting, conductor>>

UnbindTopic ==
    /\ AtHead("UnbindTopic")
    /\ todo' = Tail(todo)
    /\ row' = [row EXCEPT !.bound = FALSE]
    /\ UNCHANGED <<task, ctx, reposted, ledger, posting,
                   conductor>>

SaveContext ==
    /\ AtHead("SaveContext")
    /\ todo' = Tail(todo)
    /\ row' = Saved(ctx)
    /\ UNCHANGED <<task, ctx, reposted, ledger, posting,
                   conductor>>

StopTask ==
    /\ task = "up"
    /\ todo = <<>>
    /\ ctx.state = "DEAD"
    /\ task' = "stopped"
    /\ ctx' = FreshContext
    /\ UNCHANGED <<todo, reposted, durable, posting, conductor>>

(* The process dies: the task and every handler with it.                   *)
Crash ==
    /\ MayCrash
    /\ task = "up"
    /\ task' = "down"
    /\ ctx' = FreshContext
    /\ todo' = <<>>
    /\ reposted' = {}
    /\ posting' = {}
    /\ UNCHANGED <<durable, conductor>>

-----------------------------------------------------------------------------
PollerStep ==
    \/ BootMachine \/ StartTick
    \/ AdoptPosted \/ AdoptPending
    \/ RePostSkipped \/ RePostSettled \/ RePostAccepted \/ RePostAmbiguous
    \/ RePostRefused
    \/ DrainDelta \/ DrainQuiet \/ DrainUnavailable
    \/ PollStatus
    \/ \E v \in SessionStatuses : SessionStatus(v)
    \/ SessionStatusUnavailable
    \/ \E s \in WsStatuses : WorkspaceStatus(s)
    \/ WorkspaceStatusUnavailable
    \/ SessionGone \/ SkipWhenStopped
    \/ CancelAcknowledged \/ CancelLost
    \/ Abandon \/ Announce \/ UnbindTopic \/ SaveContext \/ StopTask

HandlerStep(p) ==
    \/ SendPrompt(p) \/ HandlerPostLands(p) \/ HandlerPosted(p)
    \/ HandlerAmbiguous(p) \/ HandlerRefused(p)

Next ==
    \/ Spawn \/ ClockTick \/ PollerStep
    \/ \E p \in Prompts : HandlerStep(p)
    \/ PressStop \/ Crash \/ CrashInDrain

Spec == Init /\ [][Next]_vars

(* The tick is a loop of its task; the supervisor keeps spawning; time     *)
(* passes.  A transcript is quiet now and then, and /status answers        *)
(* something other than unknown now and then.                              *)
Fairness ==
    /\ WF_vars(PollerStep)
    /\ WF_vars(Spawn)
    /\ SF_vars(ClockTick)
    /\ SF_vars(AtHead("Drain") /\ DrainQuiet)
    /\ SF_vars(\E v \in SessionStatuses \ {"unknown"} : SessionStatus(v))
    /\ \A p \in Prompts : WF_vars(HandlerPosted(p) \/ HandlerAmbiguous(p)
                                     \/ HandlerRefused(p))

FairSpec == Spec /\ Fairness

-----------------------------------------------------------------------------
(* Every variable keeps to its type; state, evidence and actions are the   *)
(* ones ctb/turn/state.py enumerates and the machine handles.              *)
TypeOK ==
    /\ task \in {"down", "up", "stopped"}
    /\ ctx \in Contexts
    /\ \A i \in DOMAIN todo : todo[i] \in Items
    /\ reposted \subseteq Prompts
    /\ row \in [ctx: Contexts, bound: BOOLEAN]
    /\ ledger \in [Prompts -> [state: LedgerStates, age: Ages]]
    /\ posting \subseteq Prompts
    /\ accepted \subseteq Prompts
    /\ echoed \subseteq accepted

(* "While start_witnessed is false, idle means nothing" (state.py): a turn *)
(* comes to the states where idle counts towards its end, in memory and in *)
(* the row a restart loads, only when it was seen to start, or when a stop *)
(* request went unconfirmed, which hands the controls back unseen.         *)
Counting(c) == c.state \in {"WORKING", "DRAINING"}
Unseen(c) == Counting(c) /\ ~c.start_witnessed
IdleCountsOnlyOnceStarted ==
    [][ /\ Unseen(ctx') => \/ Unseen(ctx) \/ ctx.state = "CANCELLING"
                           \/ ctx' = Loaded
        /\ Unseen(row'.ctx) => \/ Unseen(row.ctx) \/ Unseen(ctx') ]_vars

(* A turn is finished as done (by either timer, by the drain check, or by  *)
(* the cursor-only fallback) only when no prompt younger than              *)
(* PROMPT_AGE_OUT is unwitnessed and the agent has no turn open that it    *)
(* was heard from within TURN_END_AGE_OUT.                                 *)
DoneOnlyWhenNothingIsRunning ==
    [][ /\ task = "up" /\ task' = "up"
        /\ ctx.state \in {"WORKING", "DRAINING"}
        /\ ctx'.state = "IDLE"
        => LiveOutstanding(ctx) = {} /\ ~TurnEndPending(ctx) ]_vars

(* The poller drops a prompt it waits for only because the transcript      *)
(* named it, because it gives it up in the ledger too, because the session *)
(* died, or because the task itself ended.                                 *)
PromptsAreNotForgotten ==
    [][ \A p \in ctx.pending \ ctx'.pending :
            \/ p \in echoed'
            \/ \E i \in DOMAIN todo' : /\ todo'[i].type = "AbandonPrompt"
                                       /\ p \in todo'[i].ids
            \/ ctx'.state = "DEAD"
            \/ task' # "up" ]_vars

(* A witnessed prompt stays witnessed unless its own handler, still        *)
(* waiting for the POST, reports it posted late: no poller path abandons   *)
(* or re-queues a prompt whose turn the transcript already shows.          *)
OnlyALateAnswerUnsettles ==
    [][ \A p \in Prompts :
            ledger[p].state = "witnessed" =>
                \/ ledger'[p].state = "witnessed"
                \/ ledger'[p].state = "posted" /\ p \in posting ]_vars

CalmsDown == <>[][~PressStop /\ ~Crash /\ ~CrashInDrain]_vars

(* No wait is for ever: a queued prompt starts or is given up, a waking    *)
(* workspace wakes or times out, a draining turn ends or resumes.          *)
WaitsEnd ==
    CalmsDown => \A s \in {"QUEUED", "WAKING", "DRAINING"} : []<>(ctx.state # s)

(* Every prompt the user was told is saved reaches an outcome: witnessed,  *)
(* failed or abandoned, unless the session is gone.                        *)
EveryPromptSettles ==
    CalmsDown =>
        \A p \in Prompts : []<>(ledger[p].state \notin Unsettled \/ ~row.bound)
=============================================================================
