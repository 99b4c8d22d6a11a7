---------------------------- MODULE PollerProofs ----------------------------
(***************************************************************************)
(* The turn machine under its poller, for any prompts, thresholds, crashes *)
(* and Conductor: each handler of the machine keeps to its contract        *)
(* (Handles), what a tick has left stays in order (Orderly), and so a turn *)
(* ends when it may, no prompt is forgotten or unsettled behind the        *)
(* transcript's back, and the finish line is sent once.                    *)
(***************************************************************************)
EXTENDS FinishLine, SequenceTheorems, TLAPS

Idles == 0 .. DRAIN_CONFIRMS
Failures == 0 .. STATUS_FAILURE_THRESHOLD

LEMMA ContextsAre ==
    Contexts = [state: TurnStates, start_witnessed: BOOLEAN, pending: SUBSET Prompts, prompt_age: [Prompts -> Ages],
                entered: Ages, quiet: OptAges, consecutive_idle: Idles, failures: Failures, cursor_only: BOOLEAN,
                ws_ready: BOOLEAN, error: Errors, open_turns: SUBSET TurnIds, marks_turn_end: BOOLEAN, cancel: OptAges]
BY DEF Contexts, Idles, Failures

LEMMA Given ==
    /\ AgeMax \in Nat /\ 0 \in Ages /\ Ages \subseteq Nat /\ Ages \subseteq OptAges
    /\ NoAge \in OptAges /\ 0 \in OptAges
    /\ DRAIN_CONFIRMS \in Nat \ {0} /\ CANCEL_CONFIRMS \in 1 .. DRAIN_CONFIRMS
    /\ STATUS_FAILURE_THRESHOLD \in Nat \ {0}
    /\ PROMPT_AGE_OUT \in 1 .. AgeMax /\ TURN_END_AGE_OUT \in 1 .. AgeMax
    /\ 0 \in Idles /\ 1 \in Idles /\ 0 \in Failures /\ Prompts \subseteq TurnIds
    /\ "none" \in Errors /\ "status" \in Errors /\ "timeout" \in Errors
BY ThresholdAssumption, ConfirmAssumption
   DEF Thresholds, Ages, OptAges, NoAge, TurnIds, Errors, Idles, Failures

LEMMA StatesAre ==
    /\ "IDLE" \in TurnStates /\ "QUEUED" \in TurnStates /\ "WAKING" \in TurnStates /\ "WORKING" \in TurnStates
    /\ "DRAINING" \in TurnStates /\ "CANCELLING" \in TurnStates /\ "ERROR" \in TurnStates /\ "DEAD" \in TurnStates
BY DEF TurnStates

-----------------------------------------------------------------------------
(* The elementary updates of a context.                                    *)
LEMMA Entered ==
    ASSUME NEW c \in Contexts, NEW s \in TurnStates
    PROVE  /\ Enter(c, s) \in Contexts
           /\ Enter(c, s).state = s /\ Enter(c, s).pending = c.pending
           /\ Enter(c, s).start_witnessed = c.start_witnessed
BY Given, ContextsAre DEF Enter

LEMMA PromptsDropped ==
    ASSUME NEW c \in Contexts, NEW ids \in SUBSET Prompts
    PROVE  /\ WithoutPrompts(c, ids) \in Contexts
           /\ WithoutPrompts(c, ids).pending = c.pending \ ids
           /\ WithoutPrompts(c, ids).state = c.state
           /\ WithoutPrompts(c, ids).start_witnessed = c.start_witnessed
           /\ \A p \in Prompts \ ids : WithoutPrompts(c, ids).prompt_age[p] = c.prompt_age[p]
           /\ WithoutPrompts(c, ids).quiet = c.quiet /\ WithoutPrompts(c, ids).entered = c.entered
           /\ WithoutPrompts(c, ids).open_turns = c.open_turns
           /\ WithoutPrompts(c, ids).marks_turn_end = c.marks_turn_end
<1> DEFINE ages == [p \in Prompts |-> IF p \in ids THEN 0 ELSE c.prompt_age[p]]
<1>1. ages \in [Prompts -> Ages] /\ \A p \in Prompts \ ids : ages[p] = c.prompt_age[p]
  BY Given, ContextsAre
<1>2. WithoutPrompts(c, ids) = [c EXCEPT !.pending = c.pending \ ids, !.prompt_age = ages]
  BY DEF WithoutPrompts, Contexts
<1> HIDE DEF ages
<1> QED BY <1>1, <1>2, ContextsAre

LEMMA PromptTaken ==
    ASSUME NEW c \in Contexts, NEW p \in Prompts, NEW age \in Ages
    PROVE  /\ WithPrompt(c, p, age) \in Contexts
           /\ WithPrompt(c, p, age).pending = c.pending \cup {p}
           /\ WithPrompt(c, p, age).state = c.state
           /\ WithPrompt(c, p, age).start_witnessed = c.start_witnessed
<1> DEFINE ages == [c.prompt_age EXCEPT ![p] = age]
<1>1. ages \in [Prompts -> Ages] /\ c.pending \cup {p} \in SUBSET Prompts
  BY ContextsAre
<1>2. WithPrompt(c, p, age) = [c EXCEPT !.pending = c.pending \cup {p}, !.prompt_age = ages]
  BY DEF WithPrompt, Contexts
<1> HIDE DEF ages
<1> QED BY <1>1, <1>2, ContextsAre

LEMMA TimeTyped ==
    ASSUME NEW c \in Contexts
    PROVE  /\ Older(c) \in Contexts
           /\ Older(c).state = c.state /\ Older(c).pending = c.pending
           /\ Older(c).start_witnessed = c.start_witnessed
<1>1. \A a \in Ages : OneOlder(a) \in Ages
  BY Given DEF OneOlder, Ages
<1>2. \A a \in OptAges : OptOlder(a) \in OptAges
  BY <1>1, Given DEF OptOlder, OptAges
<1> DEFINE ages == [p \in Prompts |-> IF p \in c.pending THEN OneOlder(c.prompt_age[p]) ELSE c.prompt_age[p]]
<1>3. ages \in [Prompts -> Ages]
  BY <1>1, ContextsAre
<1>4. Older(c) = [c EXCEPT !.entered = OneOlder(c.entered), !.quiet = OptOlder(c.quiet),
                           !.cancel = OptOlder(c.cancel), !.prompt_age = ages]
  BY DEF Older, Contexts
<1> HIDE DEF ages
<1>5. OneOlder(c.entered) \in Ages /\ OptOlder(c.quiet) \in OptAges /\ OptOlder(c.cancel) \in OptAges
  BY <1>1, <1>2, ContextsAre
<1> QED BY <1>3, <1>4, <1>5, ContextsAre

LEMMA TurnStarted ==
    ASSUME NEW c \in Contexts
    PROVE  /\ StartTurn(c) \in Contexts /\ StartTurn(c).state = "QUEUED"
           /\ StartTurn(c).pending = c.pending
<1> DEFINE e == [Enter(c, "QUEUED") EXCEPT !.start_witnessed = FALSE, !.quiet = NoAge]
           f == [e EXCEPT !.consecutive_idle = 0, !.open_turns = {}]
<1>1. e \in Contexts /\ e.state = "QUEUED" /\ e.pending = c.pending
  BY Given, StatesAre, ContextsAre DEF Enter
<1>2. StartTurn(c) = [f EXCEPT !.error = "none", !.cancel = NoAge]
  BY DEF StartTurn
<1> HIDE DEF e
<1>3. f \in Contexts /\ f.state = "QUEUED" /\ f.pending = c.pending
  BY <1>1, Given, ContextsAre
<1> HIDE DEF f
<1> QED BY <1>2, <1>3, Given, ContextsAre

LEMMA StartSeen ==
    ASSUME NEW c \in Contexts
    PROVE  /\ WitnessStart(c) \in Contexts /\ WitnessStart(c).state = "WORKING"
           /\ WitnessStart(c).start_witnessed /\ WitnessStart(c).pending = c.pending
BY Given, StatesAre, ContextsAre DEF WitnessStart, Enter

LEMMA ErrorEntered ==
    ASSUME NEW c \in Contexts, NEW m \in Errors
    PROVE  /\ EnterError(c, m) \in Contexts /\ EnterError(c, m).state = "ERROR"
           /\ EnterError(c, m).pending = c.pending
BY Given, StatesAre, ContextsAre DEF EnterError, Enter

LEMMA Finalized ==
    ASSUME NEW c \in Contexts, NEW kind
    PROVE  /\ Finalize(c, kind).ctx \in Contexts /\ Finalize(c, kind).ctx.state = "IDLE"
           /\ Finalize(c, kind).ctx.pending = {}
           /\ Finalize(c, kind).acts = ActOn("AbandonPrompt", c.pending) \o Act(kind)
<1> DEFINE d == WithoutPrompts(c, c.pending)
<1>1. d \in Contexts /\ d.pending = {}
  BY PromptsDropped DEF Contexts
<1>2. Finalize(c, kind).acts = ActOn("AbandonPrompt", c.pending) \o Act(kind)
  BY DEF Finalize, Result
<1> DEFINE e == [Enter(d, "IDLE") EXCEPT !.start_witnessed = FALSE, !.quiet = NoAge]
           f == [e EXCEPT !.consecutive_idle = 0, !.open_turns = {}]
<1>3. Finalize(c, kind).ctx = [f EXCEPT !.error = "none", !.cancel = NoAge]
  BY DEF Finalize, Result
<1> HIDE DEF d
<1>4. e \in Contexts /\ e.state = "IDLE" /\ e.pending = {}
  BY <1>1, Given, StatesAre, ContextsAre DEF Enter
<1> HIDE DEF e
<1>5. f \in Contexts /\ f.state = "IDLE" /\ f.pending = {}
  BY <1>4, Given, ContextsAre
<1> HIDE DEF f
<1> QED BY <1>2, <1>3, <1>5, Given, ContextsAre

-----------------------------------------------------------------------------
(* What is left of a tick.                                                 *)
Asks == {"Boot", "Drain", "ForceDrain", "PollStatus", "RequestStatus", "RequestWorkspaceStatus", "PostCancel"}
Finals == {"FinalizeDone", "FinalizeCancelled"}

Has(s, T) == \E i \in 1 .. Len(s) : s[i].type \in T
Only(s, T) == \A i \in 1 .. Len(s) : s[i].type \in T
Named(s) == {p \in Prompts : \E i \in 1 .. Len(s) : p \in s[i].ids}
GivenUp(s) == {p \in Prompts : \E i \in 1 .. Len(s) : s[i].type = "AbandonPrompt" /\ p \in s[i].ids}

\* Nothing about a prompt is left to do once Conductor has been asked something new.
PromptsFirst(s) == \A i, j \in 1 .. Len(s) : i < j /\ s[i].type \in Asks => s[j].ids = {}

\* A turn is announced as over before anything but the abandoning of its prompts.
FinalsNext(s) == \A i, j \in 1 .. Len(s) : j < i /\ s[i].type \in Finals => s[j].type = "AbandonPrompt"

Orderly(s) == PromptsFirst(s) /\ FinalsNext(s)

LEMMA ActionsAreItems == Actions \subseteq Items /\ Seq(Actions) \subseteq Seq(Items)
<1>1. Actions \subseteq Items
  BY DEF Actions, Items
<1> QED BY <1>1

LEMMA Joined ==
    ASSUME NEW s \in Seq(Items), NEW t \in Seq(Items)
    PROVE  /\ s \o t \in Seq(Items)
           /\ \A T : Has(s \o t, T) <=> Has(s, T) \/ Has(t, T)
           /\ \A T : Only(s \o t, T) <=> Only(s, T) /\ Only(t, T)
           /\ Named(s \o t) = Named(s) \cup Named(t)
           /\ GivenUp(s \o t) = GivenUp(s) \cup GivenUp(t)
<1> DEFINE u == s \o t
<1>1. Len(s) \in Nat /\ Len(t) \in Nat
  OBVIOUS
<1>2. /\ u \in Seq(Items) /\ Len(u) = Len(s) + Len(t)
      /\ \A i \in 1 .. Len(s) + Len(t) : u[i] = IF i <= Len(s) THEN s[i] ELSE t[i - Len(s)]
  BY ConcatProperties
<1> HIDE DEF u
<1>3. \A i \in 1 .. Len(s) : i \in 1 .. Len(u) /\ u[i] = s[i]
  BY <1>1, <1>2
<1>4. \A i \in 1 .. Len(t) : Len(s) + i \in 1 .. Len(u) /\ u[Len(s) + i] = t[i]
  <2> SUFFICES ASSUME NEW i \in 1 .. Len(t) PROVE Len(s) + i \in 1 .. Len(u) /\ u[Len(s) + i] = t[i]
    OBVIOUS
  <2>1. Len(s) + i \in 1 .. Len(u) /\ ~(Len(s) + i <= Len(s)) /\ (Len(s) + i) - Len(s) = i
    BY <1>1, <1>2
  <2> QED BY <1>2, <2>1
<1>5. \A i \in 1 .. Len(u) : \/ i \in 1 .. Len(s) /\ u[i] = s[i]
                             \/ i - Len(s) \in 1 .. Len(t) /\ u[i] = t[i - Len(s)]
  BY <1>1, <1>2
<1>6. \A T : Has(u, T) <=> Has(s, T) \/ Has(t, T)
  BY <1>3, <1>4, <1>5 DEF Has
<1>7. \A T : Only(u, T) <=> Only(s, T) /\ Only(t, T)
  BY <1>3, <1>4, <1>5 DEF Only
<1>8. Named(u) = Named(s) \cup Named(t)
  BY <1>3, <1>4, <1>5 DEF Named
<1>9. GivenUp(u) = GivenUp(s) \cup GivenUp(t)
  <2>1. ASSUME NEW p \in Prompts PROVE p \in GivenUp(u) <=> p \in GivenUp(s) \/ p \in GivenUp(t)
    <3> DEFINE Up(x) == x.type = "AbandonPrompt" /\ p \in x.ids
    <3>1. (\E i \in 1 .. Len(u) : Up(u[i])) <=> (\E i \in 1 .. Len(s) : Up(s[i])) \/ (\E i \in 1 .. Len(t) : Up(t[i]))
      <4> HIDE DEF Up
      <4> QED BY <1>3, <1>4, <1>5
    <3> QED BY <3>1 DEF GivenUp
  <2> QED BY <2>1 DEF GivenUp
<1> QED BY <1>2, <1>6, <1>7, <1>8, <1>9 DEF u

LEMMA JoinedInOrder ==
    ASSUME NEW s \in Seq(Items), NEW t \in Seq(Items), Orderly(s), Orderly(t),
           ~Has(s, Asks) \/ Named(t) = {}, Only(s, {"AbandonPrompt"}) \/ ~Has(t, Finals)
    PROVE  Orderly(s \o t)
<1> DEFINE u == s \o t
<1>1. Len(s) \in Nat /\ Len(t) \in Nat
  OBVIOUS
<1>2. /\ u \in Seq(Items) /\ Len(u) = Len(s) + Len(t)
      /\ \A i \in 1 .. Len(s) + Len(t) : u[i] = IF i <= Len(s) THEN s[i] ELSE t[i - Len(s)]
  BY ConcatProperties
<1> HIDE DEF u
<1>3. \A i \in 1 .. Len(u) : \/ i \in 1 .. Len(s) /\ u[i] = s[i]
                             \/ i > Len(s) /\ i - Len(s) \in 1 .. Len(t) /\ u[i] = t[i - Len(s)]
  BY <1>1, <1>2
<1>4. Named(t) = {} => \A i \in 1 .. Len(t) : t[i].ids = {}
  <2> SUFFICES ASSUME Named(t) = {}, NEW i \in 1 .. Len(t) PROVE t[i].ids = {}
    OBVIOUS
  <2>1. t[i] \in Items
    OBVIOUS
  <2>2. t[i].ids \subseteq Prompts
    BY <2>1 DEF Items
  <2> QED BY <2>2 DEF Named
<1>5. PromptsFirst(u)
  <2> SUFFICES ASSUME NEW i \in 1 .. Len(u), NEW j \in 1 .. Len(u), i < j, u[i].type \in Asks PROVE u[j].ids = {}
    BY DEF PromptsFirst
  <2>1. CASE i \in 1 .. Len(s) /\ u[i] = s[i]
    <3>1. Has(s, Asks)
      BY <2>1 DEF Has
    <3>2. CASE j \in 1 .. Len(s) /\ u[j] = s[j]
      BY <2>1, <3>2 DEF Orderly, PromptsFirst
    <3> QED BY <1>3, <1>4, <3>1, <3>2
  <2>2. CASE i > Len(s) /\ i - Len(s) \in 1 .. Len(t) /\ u[i] = t[i - Len(s)]
    <3>1. j > Len(s) /\ j - Len(s) \in 1 .. Len(t) /\ u[j] = t[j - Len(s)] /\ i - Len(s) < j - Len(s)
      BY <1>1, <1>2, <1>3, <2>2
    <3> QED BY <2>2, <3>1 DEF Orderly, PromptsFirst
  <2> QED BY <1>3, <2>1, <2>2
<1>6. FinalsNext(u)
  <2> SUFFICES ASSUME NEW i \in 1 .. Len(u), NEW j \in 1 .. Len(u), j < i, u[i].type \in Finals
               PROVE  u[j].type = "AbandonPrompt"
    BY DEF FinalsNext
  <2>1. CASE i \in 1 .. Len(s) /\ u[i] = s[i]
    <3>1. j \in 1 .. Len(s) /\ u[j] = s[j]
      BY <1>1, <1>2, <1>3, <2>1
    <3> QED BY <2>1, <3>1 DEF Orderly, FinalsNext
  <2>2. CASE i > Len(s) /\ i - Len(s) \in 1 .. Len(t) /\ u[i] = t[i - Len(s)]
    <3>1. Has(t, Finals)
      BY <2>2 DEF Has
    <3>2. CASE j \in 1 .. Len(s) /\ u[j] = s[j]
      BY <3>1, <3>2 DEF Only
    <3>3. CASE j > Len(s) /\ j - Len(s) \in 1 .. Len(t) /\ u[j] = t[j - Len(s)]
      <4>1. j - Len(s) < i - Len(s)
        BY <1>1, <1>2
      <4> QED BY <2>2, <3>3, <4>1 DEF Orderly, FinalsNext
    <3> QED BY <1>3, <3>2, <3>3
  <2> QED BY <1>3, <2>1, <2>2
<1> QED BY <1>5, <1>6 DEF u, Orderly

\* Sequences of one item, and of none.
LEMMA NoneLeft ==
    /\ <<>> \in Seq(Items) /\ <<>> \in Seq(Actions) /\ Orderly(<<>>) /\ Named(<<>>) = {} /\ GivenUp(<<>>) = {}
    /\ \A T : ~Has(<<>>, T) /\ Only(<<>>, T)
BY DEF Orderly, PromptsFirst, FinalsNext, Named, GivenUp, Has, Only

LEMMA OneLeft ==
    ASSUME NEW x \in Items
    PROVE  /\ <<x>> \in Seq(Items) /\ Orderly(<<x>>) /\ Named(<<x>>) = x.ids
           /\ GivenUp(<<x>>) = IF x.type = "AbandonPrompt" THEN x.ids ELSE {}
           /\ \A T : Has(<<x>>, T) <=> x.type \in T
           /\ \A T : Only(<<x>>, T) <=> x.type \in T
<1> DEFINE s == <<x>>
<1>1. s \in Seq(Items) /\ Len(s) = 1 /\ s[1] = x
  OBVIOUS
<1>2. \A i : i \in 1 .. Len(s) <=> i = 1
  BY <1>1
<1>3. x.ids \subseteq Prompts
  BY DEF Items
<1> HIDE DEF s
<1>4. Orderly(s)
  BY <1>2 DEF Orderly, PromptsFirst, FinalsNext
<1>5. Named(s) = x.ids /\ GivenUp(s) = IF x.type = "AbandonPrompt" THEN x.ids ELSE {}
  BY <1>1, <1>2, <1>3 DEF Named, GivenUp
<1>6. \A T : (Has(s, T) <=> x.type \in T) /\ (Only(s, T) <=> x.type \in T)
  BY <1>1, <1>2 DEF Has, Only
<1> QED BY <1>1, <1>4, <1>5, <1>6 DEF s

-----------------------------------------------------------------------------
(* What a handler of the machine does, beyond its types.                   *)
Handles(c, ids, seen, r) ==
    /\ r.ctx \in Contexts /\ r.acts \in Seq(Actions) /\ Orderly(r.acts)
    /\ Named(r.acts) \subseteq c.pending \cup ids /\ r.ctx.pending \subseteq c.pending \cup ids
    /\ Unseen(r.ctx) => Unseen(c) \/ c.state = "CANCELLING"
    /\ Counting(c) /\ r.ctx.state = "IDLE" => LiveOutstanding(c) = {} /\ ~TurnEndPending(c)
    /\ c.pending \ r.ctx.pending \subseteq GivenUp(r.acts) \cup seen \/ r.ctx.state = "DEAD"
    /\ Has(r.acts, Finals) => c.state # "IDLE" /\ r.ctx.state = "IDLE"
    /\ Has(r.acts, {"UnbindTopic"}) => r.ctx.state = "DEAD"

LEMMA OneAct ==
    ASSUME NEW t \in ActionTypes
    PROVE  /\ Act(t) \in Seq(Actions) /\ Orderly(Act(t)) /\ Named(Act(t)) = {} /\ GivenUp(Act(t)) = {}
           /\ \A T : (Has(Act(t), T) <=> t \in T) /\ (Only(Act(t), T) <=> t \in T)
<1> DEFINE x == [type |-> t, ids |-> {}]
<1>1. x \in Actions /\ x.type = t /\ x.ids = {}
  BY DEF Actions
<1>2. Act(t) = <<x>>
  BY DEF Act
<1>3. x \in Items
  BY <1>1, ActionsAreItems
<1> HIDE DEF x
<1> QED BY <1>1, <1>2, <1>3, OneLeft

LEMMA ActsOn ==
    ASSUME NEW t \in ActionTypes, NEW ids \in SUBSET Prompts
    PROVE  /\ ActOn(t, ids) \in Seq(Actions) /\ Orderly(ActOn(t, ids)) /\ Named(ActOn(t, ids)) = ids
           /\ GivenUp(ActOn(t, ids)) = (IF t = "AbandonPrompt" THEN ids ELSE {})
           /\ Only(ActOn(t, ids), {t})
           /\ \A T : t \notin T => ~Has(ActOn(t, ids), T)
<1>1. CASE ids = {}
  BY <1>1, NoneLeft DEF ActOn
<1>2. CASE ids # {}
  <2> DEFINE x == [type |-> t, ids |-> ids]
  <2>1. x \in Actions /\ x.type = t /\ x.ids = ids
    BY DEF Actions
  <2>2. ActOn(t, ids) = <<x>>
    BY <1>2 DEF ActOn
  <2>3. x \in Items
    BY <2>1, ActionsAreItems
  <2> HIDE DEF x
  <2> QED BY <2>1, <2>2, <2>3, OneLeft
<1> QED BY <1>1, <1>2

\* One sequence of actions after another.
LEMMA ActsJoined ==
    ASSUME NEW s \in Seq(Actions), NEW t \in Seq(Actions), Orderly(s), Orderly(t),
           ~Has(s, Asks) \/ Named(t) = {}, Only(s, {"AbandonPrompt"}) \/ ~Has(t, Finals)
    PROVE  /\ s \o t \in Seq(Actions) /\ Orderly(s \o t)
           /\ Named(s \o t) = Named(s) \cup Named(t) /\ GivenUp(s \o t) = GivenUp(s) \cup GivenUp(t)
           /\ \A T : Has(s \o t, T) <=> Has(s, T) \/ Has(t, T)
           /\ \A T : Only(s \o t, T) <=> Only(s, T) /\ Only(t, T)
<1>1. s \in Seq(Items) /\ t \in Seq(Items)
  BY ActionsAreItems
<1>2. s \o t \in Seq(Actions)
  BY ConcatProperties
<1> QED BY <1>1, <1>2, Joined, JoinedInOrder

LEMMA Silently ==
    ASSUME NEW c \in Contexts, NEW d \in Contexts, NEW ids, NEW seen,
           d.pending \subseteq c.pending \cup ids, c.pending \ d.pending \subseteq seen \/ d.state = "DEAD",
           Unseen(d) => Unseen(c) \/ c.state = "CANCELLING",
           Counting(c) /\ d.state = "IDLE" => LiveOutstanding(c) = {} /\ ~TurnEndPending(c)
    PROVE  Handles(c, ids, seen, Result(d, <<>>))
<1>1. Result(d, <<>>).ctx = d /\ Result(d, <<>>).acts = <<>>
  BY DEF Result
<1> QED BY <1>1, NoneLeft DEF Handles

\* The turn is over, with what was dropped before it was.
LEMMA EndsWith ==
    ASSUME NEW c \in Contexts, NEW d \in Contexts, NEW drop \in SUBSET Prompts, NEW kind \in Finals,
           c.pending = d.pending \cup drop, c.state # "IDLE",
           Counting(c) => LiveOutstanding(c) = {} /\ ~TurnEndPending(c)
    PROVE  /\ Handles(c, {}, {}, Result(Finalize(d, kind).ctx, ActOn("AbandonPrompt", drop) \o Finalize(d, kind).acts))
           /\ drop = {} => Handles(c, {}, {}, Finalize(d, kind))
<1>1. d.pending \in SUBSET Prompts /\ kind \in ActionTypes /\ "AbandonPrompt" \in ActionTypes /\ kind # "AbandonPrompt"
      /\ kind # "UnbindTopic"
  BY ContextsAre DEF Finals, ActionTypes
<1> DEFINE a == ActOn("AbandonPrompt", d.pending)
           b == ActOn("AbandonPrompt", drop)
           k == Act(kind)
<1>2. /\ a \in Seq(Actions) /\ Orderly(a) /\ Named(a) = d.pending /\ GivenUp(a) = d.pending
      /\ Only(a, {"AbandonPrompt"}) /\ ~Has(a, Asks) /\ ~Has(a, {"UnbindTopic"})
  BY <1>1, ActsOn DEF Asks
<1>3. /\ b \in Seq(Actions) /\ Orderly(b) /\ Named(b) = drop /\ GivenUp(b) = drop
      /\ Only(b, {"AbandonPrompt"}) /\ ~Has(b, Asks) /\ ~Has(b, {"UnbindTopic"})
  BY <1>1, ActsOn DEF Asks
<1>4. /\ k \in Seq(Actions) /\ Orderly(k) /\ Named(k) = {} /\ GivenUp(k) = {} /\ ~Has(k, {"UnbindTopic"})
  BY <1>1, OneAct
<1> HIDE DEF a, b, k
<1> DEFINE s == a \o k
           t == b \o s
<1>5. /\ s \in Seq(Actions) /\ Orderly(s) /\ Named(s) = d.pending /\ GivenUp(s) = d.pending
      /\ ~Has(s, {"UnbindTopic"})
  <2>1. /\ s \in Seq(Actions) /\ Orderly(s)
        /\ Named(s) = Named(a) \cup Named(k) /\ GivenUp(s) = GivenUp(a) \cup GivenUp(k)
        /\ Has(s, {"UnbindTopic"}) <=> Has(a, {"UnbindTopic"}) \/ Has(k, {"UnbindTopic"})
    BY <1>2, <1>4, ActsJoined
  <2> HIDE DEF s
  <2> QED BY <1>2, <1>4, <2>1
<1> HIDE DEF s
<1>6. /\ t \in Seq(Actions) /\ Orderly(t) /\ Named(t) = c.pending /\ GivenUp(t) = c.pending
      /\ ~Has(t, {"UnbindTopic"})
  BY <1>3, <1>5, ActsJoined
<1> HIDE DEF t
<1> DEFINE f == Finalize(d, kind)
<1>7. f.ctx \in Contexts /\ f.ctx.state = "IDLE" /\ f.ctx.pending = {} /\ f.acts = s
  BY Finalized DEF a, k, s
<1>8. Result(f.ctx, b \o f.acts).ctx = f.ctx /\ Result(f.ctx, b \o f.acts).acts = t
  BY <1>7 DEF Result, t
<1>9. ~Unseen(f.ctx)
  BY <1>7 DEF Unseen, Counting
<1> HIDE DEF f
<1>10. Handles(c, {}, {}, Result(f.ctx, b \o f.acts))
  BY <1>6, <1>7, <1>8, <1>9 DEF Handles
<1>11. drop = {} => Handles(c, {}, {}, f)
  BY <1>5, <1>7, <1>9 DEF Handles
<1> QED BY <1>10, <1>11 DEF b, f

\* What the conclusions about a turn depend on.
Alike(c, d) ==
    /\ d.state = c.state /\ d.start_witnessed = c.start_witnessed /\ d.pending = c.pending
    /\ d.prompt_age = c.prompt_age /\ d.quiet = c.quiet /\ d.entered = c.entered
    /\ d.open_turns = c.open_turns /\ d.marks_turn_end = c.marks_turn_end

LEMMA AlikeHandled ==
    ASSUME NEW c, NEW d, Alike(c, d), NEW ids, NEW seen, NEW r, Handles(d, ids, seen, r)
    PROVE  Handles(c, ids, seen, r)
<1>1. LiveOutstanding(c) = LiveOutstanding(d) /\ (TurnEndPending(c) <=> TurnEndPending(d))
  BY DEF Alike, LiveOutstanding, AgedOut, TurnEndPending, QuietFor
<1>2. (Unseen(c) <=> Unseen(d)) /\ (Counting(c) <=> Counting(d)) /\ c.state = d.state /\ c.pending = d.pending
  BY DEF Alike, Unseen, Counting
<1> QED BY <1>1, <1>2 DEF Handles

\* Dropping the prompts that aged out changes no conclusion.
LEMMA AgedDropped ==
    ASSUME NEW c \in Contexts
    PROVE  LET d == WithoutPrompts(c, AgedPrompts(c)) IN
           /\ d \in Contexts /\ AgedPrompts(c) \in SUBSET Prompts /\ AgedPrompts(c) \subseteq c.pending
           /\ d.pending = c.pending \ AgedPrompts(c) /\ d.state = c.state /\ d.start_witnessed = c.start_witnessed
           /\ LiveOutstanding(d) = LiveOutstanding(c) /\ (TurnEndPending(d) <=> TurnEndPending(c))
<1> DEFINE d == WithoutPrompts(c, AgedPrompts(c))
<1>1. AgedPrompts(c) \in SUBSET Prompts /\ c.pending \subseteq Prompts /\ AgedPrompts(c) \subseteq c.pending
  BY ContextsAre DEF AgedPrompts
<1>2. /\ d \in Contexts /\ d.pending = c.pending \ AgedPrompts(c) /\ d.state = c.state
      /\ d.start_witnessed = c.start_witnessed
      /\ \A p \in Prompts \ AgedPrompts(c) : d.prompt_age[p] = c.prompt_age[p]
      /\ d.quiet = c.quiet /\ d.entered = c.entered /\ d.open_turns = c.open_turns
      /\ d.marks_turn_end = c.marks_turn_end
  BY <1>1, PromptsDropped
<1> HIDE DEF d
<1>3. LiveOutstanding(d) = LiveOutstanding(c)
  BY <1>1, <1>2 DEF LiveOutstanding, AgedOut, AgedPrompts
<1>4. TurnEndPending(d) <=> TurnEndPending(c)
  BY <1>2 DEF TurnEndPending, QuietFor
<1> QED BY <1>1, <1>2, <1>3, <1>4 DEF d

-----------------------------------------------------------------------------
(* The handlers.                                                           *)
LEMMA Accepted ==
    ASSUME NEW c \in Contexts
    PROVE  /\ AcceptPrompt(c) \in Contexts /\ AcceptPrompt(c).pending = c.pending
           /\ Unseen(AcceptPrompt(c)) => Unseen(c)
           /\ AcceptPrompt(c).state # "IDLE"
<1>1. CASE c.state \in {"WORKING", "QUEUED", "WAKING", "CANCELLING"}
  BY <1>1 DEF AcceptPrompt
<1>2. CASE c.state = "DRAINING"
  <2>1. AcceptPrompt(c) = [Enter(c, "QUEUED") EXCEPT !.start_witnessed = FALSE, !.consecutive_idle = 0]
    BY <1>2 DEF AcceptPrompt
  <2>2. AcceptPrompt(c) \in Contexts /\ AcceptPrompt(c).pending = c.pending /\ AcceptPrompt(c).state = "QUEUED"
    BY <2>1, Given, StatesAre, ContextsAre DEF Enter
  <2> QED BY <2>2 DEF Unseen, Counting
<1>3. CASE c.state \notin {"WORKING", "QUEUED", "WAKING", "CANCELLING", "DRAINING"}
  <2>1. AcceptPrompt(c) = StartTurn(c)
    BY <1>3 DEF AcceptPrompt
  <2> QED BY <2>1, TurnStarted DEF Unseen, Counting
<1> QED BY <1>1, <1>2, <1>3

LEMMA Tracked ==
    ASSUME NEW c \in Contexts, NEW p \in Prompts
    PROVE  /\ TrackPrompt(c, p) \in Contexts /\ TrackPrompt(c, p).pending = c.pending \cup {p}
           /\ Unseen(TrackPrompt(c, p)) <=> Unseen(c)
<1>1. CASE p \in c.pending
  BY <1>1 DEF TrackPrompt
<1>2. CASE p \notin c.pending
  BY <1>2, PromptTaken, Given DEF TrackPrompt, Unseen, Counting
<1> QED BY <1>1, <1>2

LEMMA PostOkHandled ==
    ASSUME NEW c \in Contexts, NEW p \in Prompts
    PROVE  Handles(c, {p}, {}, OnPostOk(c, p)) /\ OnPostOk(c, p).acts = <<>> /\ OnPostOk(c, p).ctx.state # "IDLE"
<1> DEFINE d == AcceptPrompt(TrackPrompt(c, p))
<1>1. d \in Contexts /\ d.pending = c.pending \cup {p} /\ (Unseen(d) => Unseen(c)) /\ d.state # "IDLE"
  BY Tracked, Accepted
<1>2. OnPostOk(c, p) = Result(d, <<>>)
  BY DEF OnPostOk
<1> HIDE DEF d
<1> QED BY <1>1, <1>2, Silently DEF Result

LEMMA PostAmbiguousHandled ==
    ASSUME NEW c \in Contexts, NEW p \in Prompts
    PROVE  /\ Handles(c, {p}, {}, OnPostAmbiguous(c, p)) /\ ~Has(OnPostAmbiguous(c, p).acts, Asks)
           /\ ~Has(OnPostAmbiguous(c, p).acts, {"UnbindTopic"}) /\ OnPostAmbiguous(c, p).ctx.state # "IDLE"
<1> DEFINE d == AcceptPrompt(TrackPrompt(c, p))
           a == ActOn("RePost", {p})
<1>1. d \in Contexts /\ d.pending = c.pending \cup {p} /\ (Unseen(d) => Unseen(c)) /\ d.state # "IDLE"
  BY Tracked, Accepted
<1>2. OnPostAmbiguous(c, p).ctx = d /\ OnPostAmbiguous(c, p).acts = a
  BY DEF OnPostAmbiguous, Result
<1>3. "RePost" \in ActionTypes /\ {p} \in SUBSET Prompts
  BY DEF ActionTypes
<1>4. /\ a \in Seq(Actions) /\ Orderly(a) /\ Named(a) = {p} /\ GivenUp(a) = {}
      /\ ~Has(a, Asks) /\ ~Has(a, Finals) /\ ~Has(a, {"UnbindTopic"})
  BY <1>3, ActsOn DEF Asks, Finals
<1> HIDE DEF d, a
<1> QED BY <1>1, <1>2, <1>4 DEF Handles

\* Asking Conductor something: no prompt, no end, no death.
Asking(s) == s \in Seq(Actions) /\ Orderly(s) /\ Named(s) = {} /\ ~Has(s, Finals) /\ ~Has(s, {"UnbindTopic"})

LEMMA AskingOne == ASSUME NEW t \in ActionTypes \ (Finals \cup {"UnbindTopic"}) PROVE Asking(Act(t))
BY OneAct DEF Asking

LEMMA AskingMore ==
    ASSUME NEW s, NEW t, Asking(s), Asking(t) PROVE Asking(s \o t)
<1>1. /\ s \o t \in Seq(Actions) /\ Orderly(s \o t) /\ Named(s \o t) = Named(s) \cup Named(t)
      /\ \A T : Has(s \o t, T) <=> Has(s, T) \/ Has(t, T)
  BY ActsJoined DEF Asking
<1> QED BY <1>1 DEF Asking

LEMMA Asks1 ==
    ASSUME NEW c \in Contexts, NEW d \in Contexts, NEW s, Asking(s), d.pending = c.pending,
           Unseen(d) => Unseen(c) \/ c.state = "CANCELLING", Counting(c) => d.state # "IDLE"
    PROVE  Handles(c, {}, {}, Result(d, s))
<1>1. Result(d, s).ctx = d /\ Result(d, s).acts = s
  BY DEF Result
<1> QED BY <1>1 DEF Handles, Asking

LEMMA BootHandled == ASSUME NEW c \in Contexts PROVE Handles(c, {}, {}, OnBoot(c))
<1> DEFINE s == Act("ForceDrain") \o Act("RequestStatus") \o Act("RequestWorkspaceStatus")
           ages == [p \in Prompts |-> 0]
           e == [c EXCEPT !.entered = 0, !.quiet = NoAge, !.prompt_age = ages]
           d == [e EXCEPT !.consecutive_idle = 0, !.failures = 0, !.cursor_only = FALSE]
<1>1. Asking(s)
  <2>1. Asking(Act("ForceDrain")) /\ Asking(Act("RequestStatus")) /\ Asking(Act("RequestWorkspaceStatus"))
    BY AskingOne DEF ActionTypes, Finals
  <2> QED BY <2>1, AskingMore
<1>2. OnBoot(c) = Result(d, s)
  BY DEF OnBoot, RebaseClock
<1> HIDE DEF s
<1>3. ages \in [Prompts -> Ages]
  BY Given
<1> HIDE DEF ages
<1>4. e \in Contexts /\ e.state = c.state /\ e.pending = c.pending /\ e.start_witnessed = c.start_witnessed
  BY <1>3, Given, ContextsAre
<1> HIDE DEF e
<1>5. d \in Contexts /\ d.state = c.state /\ d.pending = c.pending /\ d.start_witnessed = c.start_witnessed
  BY <1>4, Given, ContextsAre
<1> HIDE DEF d
<1> QED BY <1>1, <1>2, <1>5, Asks1 DEF Unseen, Counting

LEMMA CancelHandled ==
    ASSUME NEW c \in Contexts PROVE Handles(c, {}, {}, OnCancel(c)) /\ Handles(c, {}, {}, OnCancelAck(c))
<1> DEFINE d == EnterCancelling(c)
<1>1. d \in Contexts /\ d.state = "CANCELLING" /\ d.pending = c.pending
  BY Given, StatesAre, ContextsAre DEF EnterCancelling, Enter
<1>2. OnCancel(c) = Result(d, Act("PostCancel")) /\ OnCancelAck(c) \in {Result(c, <<>>), Result(d, <<>>)}
  BY DEF OnCancel, OnCancelAck
<1> HIDE DEF d
<1>3. Asking(Act("PostCancel"))
  BY AskingOne DEF ActionTypes, Finals
<1>4. ~Unseen(d) /\ d.state # "IDLE"
  BY <1>1 DEF Unseen, Counting
<1>5. Handles(c, {}, {}, Result(d, Act("PostCancel")))
  BY <1>1, <1>3, <1>4, Asks1
<1>6. Handles(c, {}, {}, Result(d, <<>>))
  BY <1>1, <1>4, Silently
<1>7. Handles(c, {}, {}, Result(c, <<>>))
  BY Silently DEF Counting
<1> QED BY <1>2, <1>5, <1>6, <1>7

LEMMA DeathHandled == ASSUME NEW c \in Contexts PROVE Handles(c, {}, {}, Die(c)) /\ Die(c).ctx.state = "DEAD"
<1> DEFINE d == WithoutPrompts(c, c.pending)
           e == [Enter(d, "DEAD") EXCEPT !.consecutive_idle = 0, !.start_witnessed = FALSE]
           f == [e EXCEPT !.quiet = NoAge, !.failures = 0, !.cursor_only = FALSE]
           g == [f EXCEPT !.ws_ready = TRUE, !.error = "none", !.open_turns = {}, !.cancel = NoAge]
<1>1. d \in Contexts /\ d.pending = {}
  BY PromptsDropped, ContextsAre
<1>2. Die(c).ctx = g /\ Die(c).acts = Act("UnbindTopic")
  BY DEF Die, Result
<1> HIDE DEF d
<1>3. e \in Contexts /\ e.state = "DEAD" /\ e.pending = {}
  BY <1>1, Given, StatesAre, ContextsAre DEF Enter
<1> HIDE DEF e
<1>4. f \in Contexts /\ f.state = "DEAD" /\ f.pending = {}
  BY <1>3, Given, ContextsAre
<1> HIDE DEF f
<1>5. g \in Contexts /\ g.state = "DEAD" /\ g.pending = {}
  BY <1>4, Given, ContextsAre
<1> HIDE DEF g
<1>6. /\ Act("UnbindTopic") \in Seq(Actions) /\ Orderly(Act("UnbindTopic")) /\ Named(Act("UnbindTopic")) = {}
      /\ ~Has(Act("UnbindTopic"), Finals)
  BY OneAct DEF ActionTypes, Finals
<1>7. ~Unseen(g)
  BY <1>5 DEF Unseen, Counting
<1> QED BY <1>2, <1>5, <1>6, <1>7 DEF Handles

LEMMA LooksQuiet ==
    ASSUME NEW c \in Contexts, NEW d \in Contexts, d.pending = c.pending, d.state # "IDLE", ~Unseen(d)
    PROVE  Handles(c, {}, {}, Result(d, <<>>))
BY Silently

\* What an idle status does to the count of idle statuses.
LEMMA IdleCounted ==
    ASSUME NEW c \in Contexts
    PROVE  MoreIdle(c) \in Contexts /\ Alike(c, MoreIdle(c))
<1> DEFINE n == IF c.consecutive_idle < DRAIN_CONFIRMS THEN c.consecutive_idle + 1 ELSE c.consecutive_idle
<1>1. n \in Idles
  BY Given, ContextsAre DEF Idles
<1>2. MoreIdle(c) = [c EXCEPT !.consecutive_idle = n]
  BY DEF MoreIdle
<1> HIDE DEF n
<1> QED BY <1>1, <1>2, ContextsAre DEF Alike

LEMMA ErrorHandled ==
    ASSUME NEW c \in Contexts, NEW m \in Errors, NEW s, Asking(s)
    PROVE  Handles(c, {}, {}, Result(EnterError(c, m), s))
<1> DEFINE d == EnterError(c, m)
<1>1. d \in Contexts /\ d.state = "ERROR" /\ d.pending = c.pending
  BY ErrorEntered
<1> HIDE DEF d
<1>2. ~Unseen(d) /\ d.state # "IDLE"
  BY <1>1 DEF Unseen, Counting
<1> QED BY <1>1, <1>2, Asks1 DEF d

LEMMA NothingDone == ASSUME NEW c \in Contexts PROVE Handles(c, {}, {}, Result(c, <<>>))
BY Silently DEF Counting

LEMMA DrainHandled ==
    ASSUME NEW c \in Contexts, c.state = "DRAINING"
    PROVE  Handles(c, {}, {}, DrainCheck(c))
<1> DEFINE drop == AgedPrompts(c)
           d == WithoutPrompts(c, drop)
           a == ActOn("AbandonPrompt", drop)
<1>1. /\ d \in Contexts /\ drop \in SUBSET Prompts /\ drop \subseteq c.pending
      /\ d.pending = c.pending \ drop /\ d.state = c.state /\ d.start_witnessed = c.start_witnessed
      /\ LiveOutstanding(d) = LiveOutstanding(c) /\ (TurnEndPending(d) <=> TurnEndPending(c))
  BY AgedDropped
<1>2. c.pending = d.pending \cup drop
  BY <1>1
<1>3. "AbandonPrompt" \in ActionTypes
  BY DEF ActionTypes
<1>4. /\ a \in Seq(Actions) /\ Orderly(a) /\ Named(a) = drop /\ GivenUp(a) = drop
      /\ ~Has(a, Finals) /\ ~Has(a, {"UnbindTopic"})
  BY <1>1, <1>3, ActsOn DEF Finals
<1>5. DrainCheck(c) = IF c.consecutive_idle < DRAIN_CONFIRMS THEN Result(c, <<>>)
                      ELSE IF LiveOutstanding(d) # {} \/ TurnEndPending(d) THEN Result(d, a)
                      ELSE Result(Finalize(d, "FinalizeDone").ctx, a \o Finalize(d, "FinalizeDone").acts)
  BY DEF DrainCheck
<1>6. Handles(c, {}, {}, Result(c, <<>>))
  BY NothingDone
<1>7. Handles(c, {}, {}, Result(d, a))
  <2>1. Result(d, a).ctx = d /\ Result(d, a).acts = a
    BY DEF Result
  <2>2. Unseen(d) => Unseen(c)
    BY <1>1 DEF Unseen, Counting
  <2> HIDE DEF d, a, drop
  <2> QED BY <1>1, <1>2, <1>4, <2>1, <2>2 DEF Handles
<1>8. ASSUME ~(LiveOutstanding(d) # {} \/ TurnEndPending(d))
      PROVE  Handles(c, {}, {}, Result(Finalize(d, "FinalizeDone").ctx, a \o Finalize(d, "FinalizeDone").acts))
  <2>1. LiveOutstanding(c) = {} /\ ~TurnEndPending(c) /\ c.state # "IDLE" /\ "FinalizeDone" \in Finals
    BY <1>1, <1>8 DEF Finals
  <2> HIDE DEF d, drop
  <2> QED BY <1>1, <1>2, <2>1, EndsWith
<1> HIDE DEF d, a, drop
<1> QED BY <1>5, <1>6, <1>7, <1>8

LEMMA CancelChecked ==
    ASSUME NEW c \in Contexts, c.state = "CANCELLING"
    PROVE  Handles(c, {}, {}, CancelCheck(c)) /\ Handles(c, {}, {}, Finalize(c, "FinalizeCancelled"))
<1>1. c.pending = c.pending \cup {} /\ {} \in SUBSET Prompts /\ ~Counting(c) /\ "FinalizeCancelled" \in Finals
  BY DEF Counting, Finals
<1>2. Handles(c, {}, {}, Finalize(c, "FinalizeCancelled"))
  BY <1>1, EndsWith
<1> QED BY <1>2, NothingDone DEF CancelCheck

LEMMA IdleHandled ==
    ASSUME NEW c \in Contexts PROVE Handles(c, {}, {}, StatusIdle(c))
<1>1. CASE c.state = "WORKING"
  <2> DEFINE d == [Enter(c, "DRAINING") EXCEPT !.consecutive_idle = 1]
  <2>1. StatusIdle(c) = Result(d, <<>>)
    BY <1>1 DEF StatusIdle
  <2>2. d \in Contexts /\ d.state = "DRAINING" /\ d.pending = c.pending /\ d.start_witnessed = c.start_witnessed
    BY Given, StatesAre, ContextsAre DEF Enter
  <2> HIDE DEF d
  <2>3. Unseen(d) => Unseen(c)
    BY <1>1, <2>2 DEF Unseen, Counting
  <2> QED BY <2>1, <2>2, <2>3, Silently
<1>2. CASE c.state = "DRAINING"
  <2>1. StatusIdle(c) = DrainCheck(MoreIdle(c))
    BY <1>2 DEF StatusIdle
  <2>2. MoreIdle(c) \in Contexts /\ Alike(c, MoreIdle(c)) /\ MoreIdle(c).state = "DRAINING"
    BY <1>2, IdleCounted DEF Alike
  <2> QED BY <2>1, <2>2, DrainHandled, AlikeHandled
<1>3. CASE c.state = "CANCELLING"
  <2>1. StatusIdle(c) = CancelCheck(MoreIdle(c))
    BY <1>3 DEF StatusIdle
  <2>2. MoreIdle(c) \in Contexts /\ Alike(c, MoreIdle(c)) /\ MoreIdle(c).state = "CANCELLING"
    BY <1>3, IdleCounted DEF Alike
  <2> QED BY <2>1, <2>2, CancelChecked, AlikeHandled
<1>4. CASE c.state = "ERROR"
  <2> DEFINE s == IF LiveOutstanding(c) # {} THEN "QUEUED" ELSE "IDLE"
             d == [Enter(c, s) EXCEPT !.error = "none", !.consecutive_idle = 0]
  <2>1. StatusIdle(c) = Result(d, <<>>)
    BY <1>4 DEF StatusIdle, IdleInError
  <2>2. s \in TurnStates /\ s \in {"QUEUED", "IDLE"}
    BY StatesAre
  <2> HIDE DEF s
  <2>3. d \in Contexts /\ d.state = s /\ d.pending = c.pending
    BY <2>2, Given, ContextsAre DEF Enter
  <2> HIDE DEF d
  <2>4. ~Unseen(d) /\ ~Counting(c)
    BY <1>4, <2>2, <2>3 DEF Unseen, Counting
  <2> QED BY <2>1, <2>3, <2>4, Silently
<1>5. CASE c.state \notin {"WORKING", "DRAINING", "CANCELLING", "ERROR"}
  <2>1. StatusIdle(c) = Result(c, <<>>)
    BY <1>5 DEF StatusIdle
  <2> QED BY <2>1, NothingDone
<1> QED BY <1>1, <1>2, <1>3, <1>4, <1>5

LEMMA WorkingHandled ==
    ASSUME NEW c \in Contexts, c.state # "DEAD" PROVE Handles(c, {}, {}, Result(StatusWorking(c), <<>>))
<1>1. CASE c.state \in {"IDLE", "QUEUED", "WAKING"}
  <2>1. StatusWorking(c) = WitnessStart(c)
    BY <1>1 DEF StatusWorking
  <2> QED BY <2>1, StartSeen, LooksQuiet DEF Unseen
<1>2. CASE c.state = "DRAINING"
  <2> DEFINE d == [Enter(c, "WORKING") EXCEPT !.consecutive_idle = 0]
  <2>1. StatusWorking(c) = d
    BY <1>2 DEF StatusWorking
  <2>2. d \in Contexts /\ d.state = "WORKING" /\ d.pending = c.pending /\ d.start_witnessed = c.start_witnessed
    BY Given, StatesAre, ContextsAre DEF Enter
  <2> HIDE DEF d
  <2>3. Unseen(d) => Unseen(c)
    BY <1>2, <2>2 DEF Unseen, Counting
  <2> QED BY <2>1, <2>2, <2>3, Silently
<1>3. CASE c.state = "ERROR"
  <2> DEFINE d == [c EXCEPT !.error = "none"]
  <2>1. StatusWorking(c) = WitnessStart(d)
    BY <1>3 DEF StatusWorking
  <2>2. d \in Contexts /\ d.pending = c.pending
    BY Given, ContextsAre
  <2> HIDE DEF d
  <2> QED BY <2>1, <2>2, StartSeen, LooksQuiet DEF Unseen
<1>4. CASE c.state \notin {"IDLE", "QUEUED", "WAKING", "DRAINING", "ERROR"}
  <2> DEFINE d == [c EXCEPT !.consecutive_idle = 0]
  <2>1. StatusWorking(c) = d
    BY <1>4 DEF StatusWorking
  <2>2. d \in Contexts /\ d.state = c.state /\ d.pending = c.pending /\ d.start_witnessed = c.start_witnessed
    BY Given, ContextsAre
  <2> HIDE DEF d
  <2>3. (Unseen(d) => Unseen(c)) /\ d.state # "IDLE"
    BY <1>4, <2>2 DEF Unseen, Counting
  <2> QED BY <2>1, <2>2, <2>3, Silently
<1> QED BY <1>1, <1>2, <1>3, <1>4

LEMMA StatusHandled ==
    ASSUME NEW c \in Contexts, NEW v, c.state # "DEAD" PROVE Handles(c, {}, {}, OnStatus(c, v))
<1> DEFINE h == [c EXCEPT !.failures = 0, !.cursor_only = FALSE]
<1>1. h \in Contexts /\ Alike(c, h) /\ h.state # "DEAD"
  BY Given, ContextsAre DEF Alike
<1>2. OnStatus(c, v) \in {StatusIdle(h), Result(StatusWorking(h), <<>>), StatusError(h), Result(h, <<>>)}
  <2>1. CASE v = "idle"
    BY <2>1 DEF OnStatus
  <2>2. CASE v = "working"
    BY <2>2 DEF OnStatus
  <2>3. CASE v = "error"
    BY <2>3 DEF OnStatus
  <2>4. CASE v \notin {"idle", "working", "error"}
    BY <2>4 DEF OnStatus
  <2> QED BY <2>1, <2>2, <2>3, <2>4
<1> HIDE DEF h
<1>3. Handles(h, {}, {}, StatusIdle(h)) /\ Handles(h, {}, {}, Result(StatusWorking(h), <<>>))
  BY <1>1, IdleHandled, WorkingHandled
<1>4. Handles(h, {}, {}, Result(h, <<>>))
  BY <1>1, NothingDone
<1>5. Handles(h, {}, {}, StatusError(h))
  <2>1. Asking(Act("ForceDrain")) /\ "status" \in Errors
    BY AskingOne DEF ActionTypes, Finals, Errors
  <2>2. Handles(h, {}, {}, Result(EnterError(h, "status"), Act("ForceDrain")))
    BY <1>1, <2>1, ErrorHandled
  <2> QED BY <1>4, <2>2 DEF StatusError
<1> QED BY <1>1, <1>2, <1>3, <1>4, <1>5, AlikeHandled

LEMMA UnavailableHandled ==
    ASSUME NEW c \in Contexts PROVE Handles(c, {}, {}, OnStatusUnavailable(c))
<1> DEFINE n == IF c.failures < STATUS_FAILURE_THRESHOLD THEN c.failures + 1 ELSE c.failures
           f == [c EXCEPT !.failures = n]
           b == f.cursor_only \/ f.failures = STATUS_FAILURE_THRESHOLD
           d == [f EXCEPT !.cursor_only = b]
<1>1. n \in Failures
  BY Given, ContextsAre DEF Failures
<1>2. OnStatusUnavailable(c) = Result(d, <<>>)
  BY DEF OnStatusUnavailable
<1> HIDE DEF n
<1>3. f \in Contexts /\ Alike(c, f)
  BY <1>1, ContextsAre DEF Alike
<1> HIDE DEF f
<1>4. b \in BOOLEAN
  BY <1>3, ContextsAre
<1> HIDE DEF b
<1>5. d \in Contexts /\ Alike(f, d)
  BY <1>3, <1>4, ContextsAre DEF Alike
<1> HIDE DEF d
<1> QED BY <1>2, <1>3, <1>5, NothingDone, AlikeHandled

LEMMA DeltaHandled ==
    ASSUME NEW c \in Contexts, NEW d \in Deltas
    PROVE  /\ Handles(c, {}, d.echoed \cup d.turns, OnDelta(c, d)) /\ OnDelta(c, d).acts = <<>>
           /\ OnDelta(c, d).ctx.pending = c.pending \ (d.echoed \cup d.turns)
<1> DEFINE seen == d.echoed \cup d.turns
           w == WithoutPrompts(c, c.pending \intersect seen)
           o == OpenTurns(c, d)
           m == c.marks_turn_end \/ d.ended # {} \/ d.untagged_end
           e == [w EXCEPT !.quiet = 0, !.consecutive_idle = 0, !.open_turns = o, !.marks_turn_end = m]
<1>1. /\ w \in Contexts /\ w.pending = c.pending \ seen /\ w.state = c.state
      /\ w.start_witnessed = c.start_witnessed /\ w.marks_turn_end = c.marks_turn_end
  <2>1. c.pending \intersect seen \in SUBSET Prompts
    BY ContextsAre
  <2> HIDE DEF seen
  <2>2. /\ w \in Contexts /\ w.pending = c.pending \ (c.pending \intersect seen) /\ w.state = c.state
        /\ w.start_witnessed = c.start_witnessed /\ w.marks_turn_end = c.marks_turn_end
    BY <2>1, PromptsDropped
  <2> QED BY <2>2
<1>2. o \in SUBSET TurnIds /\ m \in BOOLEAN
  BY ContextsAre DEF OpenTurns, Deltas
<1>3. RecordDelta(c, d) = e
  BY <1>1 DEF RecordDelta
<1> HIDE DEF w, o, m
<1>4. e \in Contexts /\ e.pending = c.pending \ seen /\ e.state = c.state /\ e.start_witnessed = c.start_witnessed
  BY <1>1, <1>2, Given, ContextsAre
<1> HIDE DEF e
<1>5. DeltaRule(e, d) \in {WitnessStart(e), e} \/ (e.state = "DRAINING" /\ DeltaRule(e, d) = Enter(e, "WORKING"))
  <2>1. CASE e.state = "QUEUED" /\ DeltaStarted(d)
    BY <2>1 DEF DeltaRule
  <2>2. CASE e.state \in {"IDLE", "WAKING"} /\ d.agent
    BY <2>2 DEF DeltaRule
  <2>3. CASE e.state = "DRAINING"
    BY <2>3 DEF DeltaRule
  <2>4. CASE /\ ~(e.state = "QUEUED" /\ DeltaStarted(d)) /\ ~(e.state \in {"IDLE", "WAKING"} /\ d.agent)
             /\ e.state # "DRAINING"
    BY <2>4 DEF DeltaRule
  <2> QED BY <2>1, <2>2, <2>3, <2>4
<1> DEFINE f == DeltaRule(e, d)
<1>6. /\ f \in Contexts /\ f.pending = c.pending \ seen /\ (Unseen(f) => Unseen(c))
      /\ Counting(c) => f.state # "IDLE"
  <2>1. CASE f = WitnessStart(e)
    BY <2>1, <1>4, StartSeen DEF Unseen, Counting
  <2>2. CASE f = e
    BY <2>2, <1>4 DEF Unseen, Counting
  <2>3. CASE e.state = "DRAINING" /\ f = Enter(e, "WORKING")
    <3> DEFINE n == Enter(e, "WORKING")
    <3>0. /\ n \in Contexts /\ n.state = "WORKING" /\ n.pending = e.pending
          /\ n.start_witnessed = e.start_witnessed
      BY <1>4, Entered, StatesAre
    <3> HIDE DEF n
    <3>4. f = n
      BY <2>3 DEF n
    <3> HIDE DEF f
    <3>1. /\ f \in Contexts /\ f.state = "WORKING" /\ f.pending = e.pending
          /\ f.start_witnessed = e.start_witnessed
      BY <3>0, <3>4
    <3>2. c.state = "DRAINING" /\ f.start_witnessed = c.start_witnessed
      BY <2>3, <1>4, <3>1
    <3> QED BY <1>4, <3>1, <3>2 DEF Unseen, Counting
  <2> HIDE DEF f
  <2> QED BY <1>5, <2>1, <2>2, <2>3 DEF f
<1>7. OnDelta(c, d) = Result(f, <<>>)
  BY <1>3 DEF OnDelta
<1> HIDE DEF f, seen
<1>8. f.pending \subseteq c.pending \cup {} /\ c.pending \ f.pending \subseteq seen
  BY <1>6
<1>9. Handles(c, {}, seen, Result(f, <<>>))
  BY <1>6, <1>8, Silently
<1>10. OnDelta(c, d).acts = <<>> /\ OnDelta(c, d).ctx.pending = c.pending \ seen
  BY <1>6, <1>7 DEF Result
<1> QED BY <1>7, <1>9, <1>10 DEF seen

LEMMA WsHandled ==
    ASSUME NEW c \in Contexts, NEW v, c.state # "DEAD" PROVE Handles(c, {}, {}, OnWs(c, v))
<1> DEFINE h == [c EXCEPT !.ws_ready = WsUsable(v)]
<1>1. h \in Contexts /\ Alike(c, h)
  <2>1. WsUsable(v) \in BOOLEAN
    BY DEF WsUsable
  <2> QED BY <2>1, ContextsAre DEF Alike
<1> DEFINE waking == [Enter(h, "WAKING") EXCEPT !.consecutive_idle = 0]
<1>2. \/ OnWs(c, v) = Die(h) \/ (h.state = "WAKING" /\ OnWs(c, v) = Result(ToIdle(h), <<>>))
      \/ OnWs(c, v) = Result(waking, <<>>) \/ (h.state = "WAKING" /\ OnWs(c, v) = WsReady(h))
      \/ OnWs(c, v) = Result(h, <<>>)
  <2> DEFINE g1 == WsGone(v)
             g2 == AtRest(h, v) /\ h.state = "WAKING"
             g3 == WsWaking(v) /\ (h.state = "QUEUED" \/ (h.state = "IDLE" /\ ~AtRest(h, v)))
             g4 == WsUsable(v) /\ h.state = "WAKING"
  <2>1. OnWs(c, v) = CASE g1 -> Die(h) [] g2 -> Result(ToIdle(h), <<>>) [] g3 -> Result(waking, <<>>)
                       [] g4 -> WsReady(h) [] OTHER -> Result(h, <<>>)
    BY DEF OnWs
  <2>2. g2 => h.state = "WAKING"
    OBVIOUS
  <2>3. g4 => h.state = "WAKING"
    OBVIOUS
  <2>4. /\ ~(g1 /\ g2) /\ ~(g1 /\ g3) /\ ~(g1 /\ g4) /\ ~(g2 /\ g3) /\ ~(g2 /\ g4) /\ ~(g3 /\ g4)
    BY DEF WsGone, AtRest, WsWaking, WsUsable
  <2> HIDE DEF g1, g2, g3, g4, h, waking
  <2> QED BY <2>1, <2>2, <2>3, <2>4
<1> HIDE DEF h
<1>3. Handles(h, {}, {}, Die(h)) /\ Handles(h, {}, {}, Result(h, <<>>))
  BY <1>1, DeathHandled, NothingDone
<1>4. ASSUME h.state = "WAKING" PROVE Handles(h, {}, {}, Result(ToIdle(h), <<>>)) /\ Handles(h, {}, {}, WsReady(h))
  <2> DEFINE i == ToIdle(h)
             q == [Enter(h, "QUEUED") EXCEPT !.consecutive_idle = 0, !.start_witnessed = FALSE]
             a == ActOn("RePost", h.pending)
  <2>1. /\ i \in Contexts /\ i.state = "IDLE" /\ i.pending = h.pending
        /\ q \in Contexts /\ q.state = "QUEUED" /\ q.pending = h.pending
    BY <1>1, Given, StatesAre, ContextsAre DEF ToIdle, Enter
  <2>2. WsReady(h) \in {Result(q, a), Result(i, <<>>)}
    BY DEF WsReady
  <2>3. "RePost" \in ActionTypes /\ h.pending \in SUBSET Prompts
    BY <1>1, ContextsAre DEF ActionTypes
  <2>4. /\ a \in Seq(Actions) /\ Orderly(a) /\ Named(a) = h.pending /\ GivenUp(a) = {}
        /\ ~Has(a, Finals) /\ ~Has(a, {"UnbindTopic"})
    BY <2>3, ActsOn DEF Finals
  <2> HIDE DEF i, q, a
  <2>5. ~Unseen(i) /\ ~Unseen(q) /\ ~Counting(h)
    BY <1>4, <2>1 DEF Unseen, Counting
  <2>6. Handles(h, {}, {}, Result(i, <<>>))
    BY <1>1, <2>1, <2>5, Silently
  <2>7. Result(q, a).ctx = q /\ Result(q, a).acts = a
    BY DEF Result
  <2>8. Handles(h, {}, {}, Result(q, a))
    BY <2>1, <2>4, <2>5, <2>7 DEF Handles
  <2> QED BY <2>2, <2>6, <2>8 DEF i
<1>5. Handles(h, {}, {}, Result(waking, <<>>))
  <2>1. waking \in Contexts /\ waking.state = "WAKING" /\ waking.pending = h.pending
    BY <1>1, Given, StatesAre, ContextsAre DEF Enter
  <2> HIDE DEF waking
  <2> QED BY <1>1, <2>1, LooksQuiet DEF Unseen, Counting
<1> HIDE DEF waking
<1> QED BY <1>1, <1>2, <1>3, <1>4, <1>5, AlikeHandled

\* A rule of the machine after the prompts that aged out were dropped.
LEMMA DroppedFirst ==
    ASSUME NEW c \in Contexts, NEW d \in Contexts, NEW drop \in SUBSET Prompts, NEW r,
           c.pending = d.pending \cup drop, c.state = d.state, c.start_witnessed <=> d.start_witnessed,
           LiveOutstanding(c) = LiveOutstanding(d), TurnEndPending(c) <=> TurnEndPending(d),
           Handles(d, {}, {}, r)
    PROVE  Handles(c, {}, {}, Result(r.ctx, ActOn("AbandonPrompt", drop) \o r.acts))
<1> DEFINE a == ActOn("AbandonPrompt", drop)
           t == a \o r.acts
<1>1. "AbandonPrompt" \in ActionTypes
  BY DEF ActionTypes
<1>2. /\ a \in Seq(Actions) /\ Orderly(a) /\ Named(a) = drop /\ GivenUp(a) = drop
      /\ Only(a, {"AbandonPrompt"}) /\ ~Has(a, Asks) /\ ~Has(a, Finals) /\ ~Has(a, {"UnbindTopic"})
  BY <1>1, ActsOn DEF Asks, Finals
<1>3. r.acts \in Seq(Actions) /\ Orderly(r.acts)
  BY DEF Handles
<1> HIDE DEF a
<1>4. /\ t \in Seq(Actions) /\ Orderly(t)
      /\ Named(t) = drop \cup Named(r.acts) /\ GivenUp(t) = drop \cup GivenUp(r.acts)
      /\ (Has(t, Finals) <=> Has(r.acts, Finals))
      /\ (Has(t, {"UnbindTopic"}) <=> Has(r.acts, {"UnbindTopic"}))
  BY <1>2, <1>3, ActsJoined
<1>5. Result(r.ctx, t).ctx = r.ctx /\ Result(r.ctx, t).acts = t
  BY DEF Result
<1> HIDE DEF t
<1>6. (Unseen(c) <=> Unseen(d)) /\ (Counting(c) <=> Counting(d))
  BY DEF Unseen, Counting
<1>7. Handles(c, {}, {}, Result(r.ctx, t))
  BY <1>4, <1>5, <1>6 DEF Handles
<1> QED BY <1>7 DEF t, a

LEMMA TimerRuleHandled ==
    ASSUME NEW c \in Contexts PROVE Handles(c, {}, {}, TimerRule(c))
<1>1. Handles(c, {}, {}, Result(c, <<>>))
  BY NothingDone
<1>2. c.pending = c.pending \cup {} /\ {} \in SUBSET Prompts /\ "FinalizeDone" \in Finals
  BY DEF Finals
<1>3. ASSUME c.state # "IDLE", LiveOutstanding(c) = {}, ~TurnEndPending(c)
      PROVE  Handles(c, {}, {}, Finalize(c, "FinalizeDone"))
  BY <1>2, <1>3, EndsWith
<1>4. CASE c.state = "QUEUED"
  <2> DEFINE d == WithoutPrompts(c, c.pending)
             e == EnterError(d, "timeout")
             a == ActOn("AbandonPrompt", c.pending)
  <2>1. TimerRule(c) \in {Result(e, a), Result(c, <<>>)}
    BY <1>4 DEF TimerRule, TimerInQueued
  <2>2. d \in Contexts /\ c.pending \in SUBSET Prompts /\ "AbandonPrompt" \in ActionTypes /\ d.pending = {}
    BY PromptsDropped, ContextsAre DEF ActionTypes
  <2>3. e \in Contexts /\ e.state = "ERROR" /\ e.pending = {}
    BY <2>2, ErrorEntered, Given
  <2>4. /\ a \in Seq(Actions) /\ Orderly(a) /\ Named(a) = c.pending /\ GivenUp(a) = c.pending
        /\ ~Has(a, Finals) /\ ~Has(a, {"UnbindTopic"})
    BY <2>2, ActsOn DEF Finals
  <2>5. Result(e, a).ctx = e /\ Result(e, a).acts = a
    BY DEF Result
  <2> HIDE DEF d, e, a
  <2>6. ~Unseen(e)
    BY <2>3 DEF Unseen, Counting
  <2>7. Handles(c, {}, {}, Result(e, a))
    BY <2>3, <2>4, <2>5, <2>6 DEF Handles
  <2> QED BY <1>1, <2>1, <2>7
<1>5. CASE c.state = "WAKING"
  <2>1. TimerRule(c) \in {Result(EnterError(c, "timeout"), <<>>), Result(c, <<>>)}
    BY <1>5 DEF TimerRule
  <2>2. Asking(<<>>)
    BY NoneLeft DEF Asking
  <2>3. Handles(c, {}, {}, Result(EnterError(c, "timeout"), <<>>))
    BY <2>2, ErrorHandled, Given
  <2> QED BY <1>1, <2>1, <2>3
<1>6. CASE c.state = "WORKING"
  <2>1. TimerRule(c) = IF CursorOnlyFinalize(c) THEN Finalize(c, "FinalizeDone") ELSE Result(c, <<>>)
    BY <1>6 DEF TimerRule
  <2>2. CursorOnlyFinalize(c) => LiveOutstanding(c) = {} /\ ~TurnEndPending(c)
    BY DEF CursorOnlyFinalize
  <2> QED BY <1>1, <1>3, <1>6, <2>1, <2>2
<1>7. CASE c.state = "DRAINING"
  <2>1. TimerRule(c) = TimerInDraining(c)
    BY <1>7 DEF TimerRule
  <2>2. CASE LiveOutstanding(c) = {} /\ ~TurnEndPending(c)
    <3>1. TimerInDraining(c) \in {Finalize(c, "FinalizeDone"), Result(c, <<>>)}
      BY DEF TimerInDraining
    <3> QED BY <1>1, <1>3, <1>7, <2>1, <2>2, <3>1
  <2>3. CASE ~(LiveOutstanding(c) = {} /\ ~TurnEndPending(c))
    <3>1. TimerInDraining(c) = Result(c, <<>>)
      BY <2>3 DEF TimerInDraining, CursorOnlyFinalize
    <3> QED BY <1>1, <2>1, <3>1
  <2> QED BY <2>2, <2>3
<1>8. CASE c.state = "CANCELLING"
  <2> DEFINE d == [Enter(c, "WORKING") EXCEPT !.consecutive_idle = 0, !.cancel = NoAge]
  <2>1. TimerRule(c) = TimerInCancelling(c)
    BY <1>8 DEF TimerRule
  <2>2. TimerInCancelling(c) \in {Finalize(c, "FinalizeCancelled"), Result(d, <<>>), Result(c, <<>>)}
    BY DEF TimerInCancelling
  <2>3. d \in Contexts /\ d.state = "WORKING" /\ d.pending = c.pending
    BY Given, StatesAre, ContextsAre DEF Enter
  <2> HIDE DEF d
  <2>4. Handles(c, {}, {}, Result(d, <<>>))
    BY <1>8, <2>3, Silently DEF Counting
  <2>5. Handles(c, {}, {}, Finalize(c, "FinalizeCancelled"))
    BY <1>8, CancelChecked
  <2> QED BY <1>1, <2>1, <2>2, <2>4, <2>5
<1>9. CASE c.state \notin {"QUEUED", "WAKING", "WORKING", "DRAINING", "CANCELLING"}
  <2>1. TimerRule(c) = Result(c, <<>>)
    BY <1>9 DEF TimerRule
  <2> QED BY <1>1, <2>1
<1> QED BY <1>4, <1>5, <1>6, <1>7, <1>8, <1>9

LEMMA TimerHandled ==
    ASSUME NEW c \in Contexts PROVE Handles(c, {}, {}, OnTimer(c))
<1> DEFINE drop == AgedPrompts(c)
           d == WithoutPrompts(c, drop)
           r == TimerRule(d)
<1>1. /\ d \in Contexts /\ drop \in SUBSET Prompts /\ drop \subseteq c.pending
      /\ d.pending = c.pending \ drop /\ d.state = c.state /\ d.start_witnessed = c.start_witnessed
      /\ LiveOutstanding(d) = LiveOutstanding(c) /\ (TurnEndPending(d) <=> TurnEndPending(c))
  BY AgedDropped
<1>2. Handles(d, {}, {}, r)
  BY <1>1, TimerRuleHandled
<1>3. OnTimer(c) = Result(r.ctx, ActOn("AbandonPrompt", drop) \o r.acts)
  BY DEF OnTimer
<1> HIDE DEF drop, d, r
<1>4. c.pending = d.pending \cup drop
  BY <1>1
<1> QED BY <1>1, <1>2, <1>3, <1>4, DroppedFirst

\* One piece of evidence: the prompts it brings in, the prompts the transcript shows in it.
Tells(e, ids, seen) ==
    \/ e.type \in {"PostOk", "PostAmbiguous"} /\ e.id \in Prompts /\ ids = {e.id} /\ seen = {}
    \/ e.type = "Delta" /\ e.page \in Deltas /\ ids = {} /\ seen = e.page.echoed \cup e.page.turns
    \/ /\ e.type \in {"Boot", "Status", "StatusUnavailable", "Ws", "Cancel", "CancelAck", "E404", "Timer"}
       /\ ids = {} /\ seen = {}

LEMMA StepHandled ==
    ASSUME NEW c \in Contexts, NEW e, NEW ids, NEW seen, Tells(e, ids, seen)
    PROVE  /\ Handles(c, ids, seen, Step(c, e))
           /\ e.type = "Delta" => Step(c, e).acts = <<>>
           /\ e.type = "Delta" /\ c.state # "DEAD" => Step(c, e).ctx.pending \cap seen = {}
           /\ e.type \in {"PostOk", "PostAmbiguous"} =>
                  /\ ~Has(Step(c, e).acts, Asks) /\ ~Has(Step(c, e).acts, {"UnbindTopic"})
                  /\ Step(c, e).ctx.state # "IDLE"
<1>1. CASE c.state = "DEAD"
  <2>1. Step(c, e) = Result(c, <<>>)
    BY <1>1 DEF Step
  <2>2. Handles(c, ids, seen, Result(c, <<>>))
    <3>1. c.pending \subseteq c.pending \cup ids /\ c.pending \ c.pending \subseteq seen
      OBVIOUS
    <3> QED BY <1>1, <3>1, Silently DEF Unseen, Counting
  <2>3. Result(c, <<>>).acts = <<>> /\ Result(c, <<>>).ctx = c
    BY DEF Result
  <2> QED BY <1>1, <2>1, <2>2, <2>3, NoneLeft
<1>2. CASE c.state # "DEAD" /\ e.type = "PostOk"
  <2>1. Step(c, e) = OnPostOk(c, e.id) /\ e.id \in Prompts /\ ids = {e.id} /\ seen = {}
    BY <1>2 DEF Step, Tells
  <2> QED BY <1>2, <2>1, PostOkHandled, NoneLeft
<1>3. CASE c.state # "DEAD" /\ e.type = "PostAmbiguous"
  <2>1. Step(c, e) = OnPostAmbiguous(c, e.id) /\ e.id \in Prompts /\ ids = {e.id} /\ seen = {}
    BY <1>3 DEF Step, Tells
  <2> QED BY <1>3, <2>1, PostAmbiguousHandled
<1>4. CASE c.state # "DEAD" /\ e.type = "Delta"
  <2>1. Step(c, e) = OnDelta(c, e.page) /\ e.page \in Deltas /\ ids = {} /\ seen = e.page.echoed \cup e.page.turns
    BY <1>4 DEF Step, Tells
  <2> QED BY <1>4, <2>1, DeltaHandled
<1>5. CASE c.state # "DEAD" /\ e.type \notin {"PostOk", "PostAmbiguous", "Delta"}
  <2>1. ids = {} /\ seen = {}
    BY <1>5 DEF Tells
  <2>2. Handles(c, {}, {}, Step(c, e))
    <3>1. CASE e.type = "Boot"
      <4>1. Step(c, e) = OnBoot(c)
        BY <1>5, <3>1 DEF Step
      <4> QED BY <4>1, BootHandled
    <3>2. CASE e.type = "Status"
      <4>1. Step(c, e) = OnStatus(c, e.value)
        BY <1>5, <3>2 DEF Step
      <4> QED BY <1>5, <4>1, StatusHandled
    <3>3. CASE e.type = "StatusUnavailable"
      <4>1. Step(c, e) = OnStatusUnavailable(c)
        BY <1>5, <3>3 DEF Step
      <4> QED BY <4>1, UnavailableHandled
    <3>4. CASE e.type = "Ws"
      <4>1. Step(c, e) = OnWs(c, e.value)
        BY <1>5, <3>4 DEF Step
      <4> QED BY <1>5, <4>1, WsHandled
    <3>5. CASE e.type = "Cancel"
      <4>1. Step(c, e) = OnCancel(c)
        BY <1>5, <3>5 DEF Step
      <4> QED BY <4>1, CancelHandled
    <3>6. CASE e.type = "CancelAck"
      <4>1. Step(c, e) = OnCancelAck(c)
        BY <1>5, <3>6 DEF Step
      <4> QED BY <4>1, CancelHandled
    <3>7. CASE e.type = "E404"
      <4>1. Step(c, e) = Die(c)
        BY <1>5, <3>7 DEF Step
      <4> QED BY <4>1, DeathHandled
    <3>8. CASE e.type = "Timer"
      <4>1. Step(c, e) = OnTimer(c)
        BY <1>5, <3>8 DEF Step
      <4> QED BY <4>1, TimerHandled
    <3> QED BY <1>5, <3>1, <3>2, <3>3, <3>4, <3>5, <3>6, <3>7, <3>8 DEF Tells
  <2> QED BY <1>5, <2>1, <2>2
<1> QED BY <1>1, <1>2, <1>3, <1>4, <1>5

\* The same with the prompt a ledger row brings along.
LEMMA AdoptHandled ==
    ASSUME NEW c \in Contexts, NEW p \in Prompts, NEW age \in Ages, NEW e, Tells(e, {p}, {}),
           e.type \in {"PostOk", "PostAmbiguous"}
    PROVE  LET r == Step(WithPrompt(c, p, age), e) IN
           Handles(c, {p}, {}, r) /\ ~Has(r.acts, Asks) /\ ~Has(r.acts, {"UnbindTopic"}) /\ r.ctx.state # "IDLE"
<1> DEFINE d == WithPrompt(c, p, age)
           r == Step(d, e)
<1>1. d \in Contexts /\ d.pending = c.pending \cup {p} /\ d.state = c.state /\ d.start_witnessed = c.start_witnessed
  BY PromptTaken
<1>2. Handles(d, {p}, {}, r) /\ ~Has(r.acts, Asks) /\ ~Has(r.acts, {"UnbindTopic"}) /\ r.ctx.state # "IDLE"
  BY <1>1, StepHandled
<1>3. (Unseen(d) <=> Unseen(c)) /\ d.state = c.state
  BY <1>1 DEF Unseen, Counting
<1> HIDE DEF d, r
<1>4. Handles(c, {p}, {}, r)
  BY <1>1, <1>2, <1>3 DEF Handles
<1> QED BY <1>2, <1>4 DEF d, r

-----------------------------------------------------------------------------
(* The rest of a tick.                                                     *)
Types == ActionTypes \cup WorkTypes

LEMMA OneItem ==
    ASSUME NEW t \in Types
    PROVE  /\ Act(t) \in Seq(Items) /\ Orderly(Act(t)) /\ Named(Act(t)) = {}
           /\ \A T : Has(Act(t), T) <=> t \in T
<1> DEFINE x == [type |-> t, ids |-> {}]
<1>1. x \in Items /\ x.type = t /\ x.ids = {}
  BY DEF Items, Types
<1>2. Act(t) = <<x>>
  BY DEF Act
<1> HIDE DEF x
<1> QED BY <1>1, <1>2, OneLeft

LEMMA ItemsOn ==
    ASSUME NEW t \in Types, NEW ids \in SUBSET Prompts
    PROVE  /\ ActOn(t, ids) \in Seq(Items) /\ Orderly(ActOn(t, ids)) /\ Named(ActOn(t, ids)) = ids
           /\ \A T : t \notin T => ~Has(ActOn(t, ids), T)
<1>1. CASE ids = {}
  BY <1>1, NoneLeft DEF ActOn
<1>2. CASE ids # {}
  <2> DEFINE x == [type |-> t, ids |-> ids]
  <2>1. x \in Items /\ x.type = t /\ x.ids = ids
    BY DEF Items, Types
  <2>2. ActOn(t, ids) = <<x>>
    BY <1>2 DEF ActOn
  <2> HIDE DEF x
  <2> QED BY <2>1, <2>2, OneLeft
<1> QED BY <1>1, <1>2

LEMMA TailLeft ==
    ASSUME NEW s \in Seq(Items), s # <<>>, Orderly(s)
    PROVE  /\ s[1] \in Items /\ s[1].ids \subseteq Named(s)
           /\ Tail(s) \in Seq(Items) /\ Orderly(Tail(s)) /\ Named(Tail(s)) \subseteq Named(s)
           /\ GivenUp(s) \subseteq GivenUp(Tail(s)) \cup s[1].ids
           /\ \A T : s[1].type \in T => Has(s, T)
           /\ \A T : Has(Tail(s), T) => Has(s, T)
           /\ s[1].type \in Asks => Named(Tail(s)) = {}
           /\ s[1].type # "AbandonPrompt" => ~Has(Tail(s), Finals)
           /\ ~(s[1].type \in Finals \cup {"AbandonPrompt"}) => ~Has(s, Finals)
           /\ Tail(s) # s
<1> DEFINE u == Tail(s)
<1>1. Len(s) \in Nat \ {0} /\ s \in Seq(Items)
  OBVIOUS
<1>2. u \in Seq(Items) /\ Len(u) = Len(s) - 1 /\ \A i \in 1 .. Len(u) : u[i] = s[i + 1]
  BY HeadTailProperties
<1> HIDE DEF u
<1>3. 1 \in 1 .. Len(s) /\ s[1] \in Items
  BY <1>1
<1>4. \A i \in 1 .. Len(u) : i + 1 \in 1 .. Len(s) /\ u[i] = s[i + 1] /\ 1 < i + 1
  BY <1>1, <1>2
<1>5. \A i \in 1 .. Len(s) : i = 1 \/ (i - 1 \in 1 .. Len(u) /\ u[i - 1] = s[i])
  BY <1>1, <1>2
<1>6. s[1].ids \subseteq Named(s)
  <2>1. s[1].ids \subseteq Prompts
    BY <1>3 DEF Items
  <2> QED BY <1>3, <2>1 DEF Named
<1>7. Named(u) \subseteq Named(s)
  BY <1>4 DEF Named
<1>8. GivenUp(s) \subseteq GivenUp(u) \cup s[1].ids
  BY <1>5 DEF GivenUp
<1>9. \A T : (s[1].type \in T => Has(s, T)) /\ (Has(u, T) => Has(s, T))
  BY <1>3, <1>4 DEF Has
<1>10. PromptsFirst(u) /\ FinalsNext(u)
  <2>1. ASSUME NEW i \in 1 .. Len(u), NEW j \in 1 .. Len(u), i < j, u[i].type \in Asks PROVE u[j].ids = {}
    <3>1. i + 1 < j + 1
      BY <1>1, <1>2, <2>1
    <3> QED BY <1>4, <2>1, <3>1 DEF Orderly, PromptsFirst
  <2>2. ASSUME NEW i \in 1 .. Len(u), NEW j \in 1 .. Len(u), j < i, u[i].type \in Finals
        PROVE  u[j].type = "AbandonPrompt"
    <3>1. j + 1 < i + 1
      BY <1>1, <1>2, <2>2
    <3> QED BY <1>4, <2>2, <3>1 DEF Orderly, FinalsNext
  <2> QED BY <2>1, <2>2 DEF PromptsFirst, FinalsNext
<1>11. s[1].type \in Asks => Named(u) = {}
  BY <1>3, <1>4 DEF Orderly, PromptsFirst, Named
<1>12. s[1].type # "AbandonPrompt" => ~Has(u, Finals)
  BY <1>3, <1>4 DEF Orderly, FinalsNext, Has
<1>13. ~(s[1].type \in Finals \cup {"AbandonPrompt"}) => ~Has(s, Finals)
  BY <1>3, <1>4, <1>5 DEF Orderly, FinalsNext, Has
<1>14. u # s
  BY <1>1, <1>2
<1> QED BY <1>2, <1>3, <1>6, <1>7, <1>8, <1>9, <1>10, <1>11, <1>12, <1>13, <1>14 DEF u, Orderly

\* The head with one of its prompts dealt with.
Lessened(s, p) == IF s[1].ids = {p} THEN Tail(s) ELSE <<[s[1] EXCEPT !.ids = s[1].ids \ {p}]>> \o Tail(s)

LEMMA OneLess ==
    ASSUME NEW s \in Seq(Items), s # <<>>, Orderly(s), NEW p \in s[1].ids, s[1].type \notin Asks \cup Finals
    PROVE  /\ Lessened(s, p) \in Seq(Items) /\ Orderly(Lessened(s, p)) /\ Named(Lessened(s, p)) \subseteq Named(s)
           /\ \A T : Has(Lessened(s, p), T) => Has(s, T)
           /\ s[1].type # "AbandonPrompt" => ~Has(Lessened(s, p), Finals)
           /\ p \in Prompts /\ p \in Named(s)
<1> DEFINE u == Tail(s)
<1>1. /\ s[1] \in Items /\ s[1].ids \subseteq Named(s)
      /\ u \in Seq(Items) /\ Orderly(u) /\ Named(u) \subseteq Named(s)
      /\ \A T : s[1].type \in T => Has(s, T)
      /\ \A T : Has(u, T) => Has(s, T)
      /\ s[1].type # "AbandonPrompt" => ~Has(u, Finals)
  BY TailLeft
<1> HIDE DEF u
<1> DEFINE x == [s[1] EXCEPT !.ids = s[1].ids \ {p}]
<1>2. x \in Items /\ x.type = s[1].type /\ x.ids \subseteq s[1].ids
  BY <1>1 DEF Items
<1> HIDE DEF x
<1>3. /\ <<x>> \in Seq(Items) /\ Orderly(<<x>>) /\ Named(<<x>>) = x.ids
      /\ \A T : Has(<<x>>, T) <=> s[1].type \in T
      /\ \A T : Only(<<x>>, T) <=> s[1].type \in T
  BY <1>2, OneLeft
<1> DEFINE o == <<x>>
           t == o \o u
<1> HIDE DEF o
<1>4. ~Has(o, Asks) /\ (Only(o, {"AbandonPrompt"}) \/ ~Has(u, Finals))
  BY <1>1, <1>3 DEF o
<1>5. /\ t \in Seq(Items) /\ Orderly(t) /\ Named(t) = x.ids \cup Named(u)
      /\ \A T : Has(t, T) <=> s[1].type \in T \/ Has(u, T)
  BY <1>1, <1>3, <1>4, Joined, JoinedInOrder DEF o
<1>6. Lessened(s, p) = u \/ Lessened(s, p) = t
  BY DEF Lessened, o, x, u
<1> HIDE DEF t
<1>7. p \in Prompts /\ p \in Named(s)
  BY <1>1 DEF Named
<1> QED BY <1>1, <1>2, <1>5, <1>6, <1>7

-----------------------------------------------------------------------------
(* What the row keeps of a context, and what a task starts with.           *)
LEMMA RestContexts ==
    /\ FreshContext \in Contexts /\ FreshContext.state = "IDLE" /\ FreshContext.pending = {} /\ ~Unseen(FreshContext)
<1>1. [p \in Prompts |-> 0] \in [Prompts -> Ages] /\ AgentMarksTurnEnd \in BOOLEAN
  BY Given, SwitchAssumption
<1> DEFINE z == [p \in Prompts |-> 0]
<1> HIDE DEF z
<1>2. FreshContext = [state |-> "IDLE", start_witnessed |-> FALSE, pending |-> {},
                      prompt_age |-> z, entered |-> 0, quiet |-> NoAge,
                      consecutive_idle |-> 0, failures |-> 0, cursor_only |-> FALSE,
                      ws_ready |-> TRUE, error |-> "none", open_turns |-> {},
                      marks_turn_end |-> AgentMarksTurnEnd, cancel |-> NoAge]
  BY DEF FreshContext, z
<1>3. z \in [Prompts -> Ages]
  BY <1>1 DEF z
<1> QED BY <1>1, <1>2, <1>3, Given, StatesAre, ContextsAre DEF Unseen, Counting

LEMMA Kept ==
    ASSUME NEW c \in Contexts
    PROVE  Durable(c) \in Contexts /\ Durable(c).state = c.state /\ (Unseen(Durable(c)) <=> Unseen(c))
<1> DEFINE z == [p \in Prompts |-> 0]
           d == [c EXCEPT !.pending = {}, !.prompt_age = z, !.entered = 0, !.quiet = NoAge]
           e == [d EXCEPT !.open_turns = {}, !.marks_turn_end = AgentMarksTurnEnd, !.cancel = NoAge]
<1>1. z \in [Prompts -> Ages] /\ AgentMarksTurnEnd \in BOOLEAN
  BY Given, SwitchAssumption
<1>2. Durable(c) = e
  BY DEF Durable
<1> HIDE DEF z
<1>3. d \in Contexts /\ d.state = c.state /\ d.start_witnessed = c.start_witnessed
  BY <1>1, Given, ContextsAre
<1> HIDE DEF d
<1>4. e \in Contexts /\ e.state = d.state /\ e.start_witnessed = d.start_witnessed
  BY <1>1, <1>3, Given, ContextsAre
<1> HIDE DEF e
<1> QED BY <1>2, <1>3, <1>4 DEF Unseen, Counting

Rows == [ctx: Contexts, bound: BOOLEAN]
SavedAs(w, c) == [ctx |-> Durable(c), bound |-> w.bound /\ c.state # "DEAD"]

LEMMA SavedRow ==
    ASSUME NEW w \in Rows, NEW c \in Contexts
    PROVE  /\ SavedAs(w, c) \in Rows /\ SavedAs(w, c).ctx.state = c.state
           /\ Unseen(SavedAs(w, c).ctx) <=> Unseen(c)
<1>1. SavedAs(w, c).ctx = Durable(c) /\ SavedAs(w, c).bound = (w.bound /\ c.state # "DEAD")
  BY DEF SavedAs
<1>2. SavedAs(w, c) \in Rows
  BY Kept DEF SavedAs, Rows
<1> QED BY <1>1, <1>2, Kept

\* From the context c and the row w to d and w1, with t left to do.
Leads(c, w, d, w1, t, ids, seen) ==
    /\ d \in Contexts /\ w1 \in Rows /\ t \in Seq(Items) /\ Orderly(t)
    /\ d.pending \subseteq c.pending \cup ids /\ Named(t) \subseteq c.pending \cup ids
    /\ Unseen(d) => Unseen(c) \/ c.state = "CANCELLING"
    /\ Unseen(w1.ctx) => Unseen(w.ctx) \/ Unseen(d)
    /\ Counting(c) /\ d.state = "IDLE" => LiveOutstanding(c) = {} /\ ~TurnEndPending(c)
    /\ c.pending \ d.pending \subseteq GivenUp(t) \cup seen \/ d.state = "DEAD"
    /\ Has(t, Finals) => c.state # "IDLE" /\ d.state = "IDLE" /\ w1.ctx.state = "IDLE"
    /\ w1.ctx.state \in {w.ctx.state, d.state}

LEMMA Followed ==
    ASSUME NEW c \in Contexts, NEW w \in Rows, NEW rest \in Seq(Items), Orderly(rest), ~Has(rest, Finals),
           NEW ids, NEW seen, NEW r, Handles(c, ids, seen, r), ~Has(r.acts, Asks) \/ Named(rest) = {},
           NEW w1, NEW t,
           \/ w1 = SavedAs(w, r.ctx) /\ t = r.acts \o rest
           \/ Has(r.acts, {"UnbindTopic"}) /\ w1 = w /\ t = r.acts \o Act("SaveContext") \o rest
    PROVE  Leads(c, w, r.ctx, w1, t, ids \cup Named(rest), seen)
<1> DEFINE a == r.acts
           k == Act("SaveContext")
<1>1. /\ a \in Seq(Items) /\ Orderly(a) /\ Named(a) \subseteq c.pending \cup ids /\ r.ctx \in Contexts
      /\ r.ctx.pending \subseteq c.pending \cup ids
      /\ Unseen(r.ctx) => Unseen(c) \/ c.state = "CANCELLING"
      /\ Counting(c) /\ r.ctx.state = "IDLE" => LiveOutstanding(c) = {} /\ ~TurnEndPending(c)
      /\ c.pending \ r.ctx.pending \subseteq GivenUp(a) \cup seen \/ r.ctx.state = "DEAD"
      /\ Has(a, Finals) => c.state # "IDLE" /\ r.ctx.state = "IDLE"
      /\ Has(a, {"UnbindTopic"}) => r.ctx.state = "DEAD"
  BY ActionsAreItems DEF Handles
<1>2. /\ k \in Seq(Items) /\ Orderly(k) /\ Named(k) = {} /\ ~Has(k, Finals) /\ ~Has(k, Asks)
  <2>1. "SaveContext" \in Types /\ "SaveContext" \notin Finals /\ "SaveContext" \notin Asks
    BY DEF Types, WorkTypes, Finals, Asks
  <2> QED BY <2>1, OneItem
<1> HIDE DEF a, k
<1>3. ~Has(a, Asks) \/ Named(rest) = {}
  BY DEF a
<1>4. CASE w1 = SavedAs(w, r.ctx) /\ t = a \o rest
  <2>1. /\ t \in Seq(Items) /\ Orderly(t) /\ Named(t) = Named(a) \cup Named(rest)
        /\ GivenUp(t) = GivenUp(a) \cup GivenUp(rest) /\ (Has(t, Finals) <=> Has(a, Finals) \/ Has(rest, Finals))
    BY <1>1, <1>3, <1>4, Joined, JoinedInOrder
  <2>2. w1 \in Rows /\ w1.ctx.state = r.ctx.state /\ (Unseen(w1.ctx) <=> Unseen(r.ctx))
    BY <1>1, <1>4, SavedRow
  <2> QED BY <1>1, <2>1, <2>2 DEF Leads
<1>5. CASE Has(a, {"UnbindTopic"}) /\ w1 = w /\ t = a \o k \o rest
  <2> DEFINE b == a \o k
  <2>1. /\ b \in Seq(Items) /\ Orderly(b) /\ Named(b) = Named(a) \cup Named(k)
        /\ GivenUp(b) = GivenUp(a) \cup GivenUp(k) /\ (Has(b, Finals) <=> Has(a, Finals) \/ Has(k, Finals))
        /\ (Has(b, Asks) <=> Has(a, Asks) \/ Has(k, Asks))
    BY <1>1, <1>2, Joined, JoinedInOrder
  <2> HIDE DEF b
  <2>2. ~Has(b, Asks) \/ Named(rest) = {}
    BY <1>2, <1>3, <2>1
  <2>3. t = b \o rest
    BY <1>5 DEF b
  <2>4. /\ t \in Seq(Items) /\ Orderly(t) /\ Named(t) = Named(b) \cup Named(rest)
        /\ GivenUp(t) = GivenUp(b) \cup GivenUp(rest) /\ (Has(t, Finals) <=> Has(b, Finals) \/ Has(rest, Finals))
    BY <2>1, <2>2, <2>3, Joined, JoinedInOrder
  <2>5. r.ctx.state = "DEAD" /\ ~Has(t, Finals)
    BY <1>1, <1>2, <1>5, <2>1, <2>4
  <2>6. Named(t) \subseteq c.pending \cup (ids \cup Named(rest)) /\ w1 = w
    BY <1>1, <1>2, <1>5, <2>1, <2>4
  <2> QED BY <1>1, <2>4, <2>5, <2>6 DEF Leads
<1> QED BY <1>4, <1>5 DEF a, k

-----------------------------------------------------------------------------
(* The inductive invariant, and what every step keeps to.                  *)
LedgerRows == [Prompts -> [state: LedgerStates, age: Ages]]

Tidy == todo \in Seq(Items) /\ Orderly(todo) /\ (task # "up" => todo = <<>> /\ ctx.pending = {})

\* A witnessed prompt is not waited for, and nothing is left to do about it.
NeverNamed == \A p \in Prompts : ledger[p].state = "witnessed" =>
                  p \in echoed /\ p \notin ctx.pending /\ p \notin Named(todo)

PollerInv == TypeOK /\ Tidy /\ NeverNamed

StartedFirst ==
    /\ Unseen(ctx') => \/ Unseen(ctx) \/ ctx.state = "CANCELLING"
                       \/ ctx' = Loaded
    /\ Unseen(row'.ctx) => \/ Unseen(row.ctx) \/ Unseen(ctx')

DoneInTime ==
    /\ task = "up" /\ task' = "up"
    /\ ctx.state \in {"WORKING", "DRAINING"}
    /\ ctx'.state = "IDLE"
    => LiveOutstanding(ctx) = {} /\ ~TurnEndPending(ctx)

NotForgotten ==
    \A p \in ctx.pending \ ctx'.pending :
        \/ p \in echoed'
        \/ \E i \in DOMAIN todo' : /\ todo'[i].type = "AbandonPrompt"
                                   /\ p \in todo'[i].ids
        \/ ctx'.state = "DEAD"
        \/ task' # "up"

StaysWitnessed ==
    \A p \in Prompts :
        ledger[p].state = "witnessed" =>
            \/ ledger'[p].state = "witnessed"
            \/ ledger'[p].state = "posted" /\ p \in posting

\* Where a finish line can come from, and where the state in the row does.
Ends ==
    /\ Has(todo', Finals) =>
         \/ /\ ~Has(todo, Finals) /\ task = "up" /\ task' = "up"
            /\ ctx.state # "IDLE" /\ ctx'.state = "IDLE" /\ row'.ctx.state = "IDLE"
         \/ Has(todo, Finals) /\ ctx' = ctx /\ task' = task /\ (row' = row \/ Reopened)
    /\ \/ row'.ctx.state = row.ctx.state \/ Reopened
       \/ task = "up" /\ task' = "up" /\ row'.ctx.state = ctx'.state
    /\ task # "up" /\ task' = "up" => ctx'.state = row.ctx.state

Sound == PollerInv' /\ StartedFirst /\ DoneInTime /\ NotForgotten /\ StaysWitnessed /\ Ends

\* The ledger: witnessed rows stay, new ones are of prompts done with.
LedgerFollows ==
    \A p \in Prompts :
        /\ ledger[p].state = "witnessed" => ledger'[p].state = "witnessed"
        /\ ledger'[p].state = "witnessed" =>
               \/ ledger[p].state = "witnessed"
               \/ p \in echoed' /\ p \notin ctx'.pending /\ p \notin Named(todo')

SetsTyped ==
    /\ reposted' \subseteq Prompts /\ posting' \subseteq Prompts /\ accepted' \subseteq Prompts
    /\ echoed' \subseteq accepted' /\ echoed \subseteq echoed'

LEMMA TypesAre ==
    ASSUME PollerInv
    PROVE  /\ ctx \in Contexts /\ row \in Rows /\ todo \in Seq(Items) /\ Orderly(todo) /\ ledger \in LedgerRows
           /\ reposted \subseteq Prompts /\ posting \subseteq Prompts /\ accepted \subseteq Prompts
           /\ echoed \subseteq accepted /\ task \in {"down", "up", "stopped"}
           /\ ctx.pending \subseteq Prompts
BY ContextsAre DEF PollerInv, TypeOK, Tidy, Rows, LedgerRows

LEMMA TypesKept ==
    ASSUME ctx' \in Contexts, row' \in Rows, todo' \in Seq(Items), ledger' \in LedgerRows, SetsTyped,
           task' \in {"down", "up", "stopped"}
    PROVE  TypeOK'
<1>1. \A i \in DOMAIN todo' : todo'[i] \in Items
  OBVIOUS
<1> QED BY <1>1 DEF TypeOK, Rows, LedgerRows, SetsTyped

LEMMA LedOn ==
    ASSUME PollerInv, task = "up", task' = "up", NEW seen, seen \cap Prompts \subseteq echoed',
           Leads(ctx, row, ctx', row', todo', Named(todo), seen), ~Has(todo, Finals),
           SetsTyped, ledger' \in LedgerRows, LedgerFollows
    PROVE  Sound
<1>1. /\ ctx' \in Contexts /\ row' \in Rows /\ todo' \in Seq(Items) /\ Orderly(todo')
      /\ ctx'.pending \subseteq ctx.pending \cup Named(todo) /\ Named(todo') \subseteq ctx.pending \cup Named(todo)
  BY DEF Leads
<1>2. TypeOK' /\ Tidy'
  BY <1>1, TypesKept DEF Tidy
<1>3. NeverNamed'
  BY <1>1 DEF NeverNamed, PollerInv, LedgerFollows, SetsTyped
<1>4. StartedFirst
  BY DEF StartedFirst, Leads
<1>5. DoneInTime
  BY DEF DoneInTime, Leads, Counting
<1>6. NotForgotten
  <2>1. ctx.pending \ ctx'.pending \subseteq GivenUp(todo') \cup seen \/ ctx'.state = "DEAD"
    BY DEF Leads
  <2>2. \A p \in GivenUp(todo') : \E i \in DOMAIN todo' : todo'[i].type = "AbandonPrompt" /\ p \in todo'[i].ids
    BY <1>1 DEF GivenUp
  <2>3. ctx.pending \subseteq Prompts
    BY TypesAre
  <2> QED BY <2>1, <2>2, <2>3 DEF NotForgotten
<1>7. StaysWitnessed
  BY DEF StaysWitnessed, LedgerFollows
<1>8. Ends
  BY DEF Ends, Leads
<1> QED BY <1>2, <1>3, <1>4, <1>5, <1>6, <1>7, <1>8 DEF Sound, PollerInv

LEMMA LeadsMore ==
    ASSUME NEW c, NEW w, NEW d, NEW w1, NEW t, NEW ids, NEW more, NEW seen, ids \subseteq more,
           Leads(c, w, d, w1, t, ids, seen)
    PROVE  Leads(c, w, d, w1, t, more, seen)
BY DEF Leads

\* _apply_evidence, as the two ways a step can go on.
LEMMA AppliedTail ==
    ASSUME PollerInv, todo # <<>>, ~(Head1.type \in Finals \cup {"AbandonPrompt"}),
           NEW e, NEW ids, NEW seen, Tells(e, ids, seen), ids \subseteq Named(todo),
           ~Has(Step(ctx, e).acts, Asks) \/ Named(Tail(todo)) = {},
           Apply(e, Tail(todo))
    PROVE  Leads(ctx, row, ctx', row', todo', Named(todo), seen) /\ ~Has(todo, Finals)
<1> DEFINE r == Step(ctx, e)
           rest == Tail(todo)
<1>1. ctx \in Contexts /\ row \in Rows /\ todo \in Seq(Items) /\ Orderly(todo)
  BY TypesAre
<1>2. Handles(ctx, ids, seen, r)
  BY <1>1, StepHandled
<1>3. /\ rest \in Seq(Items) /\ Orderly(rest) /\ Named(rest) \subseteq Named(todo)
      /\ ~Has(rest, Finals) /\ ~Has(todo, Finals)
  BY <1>1, TailLeft DEF Head1
<1>4. /\ ctx' = r.ctx
      /\ \/ row' = SavedAs(row, r.ctx) /\ todo' = r.acts \o rest
         \/ Has(r.acts, {"UnbindTopic"}) /\ row' = row /\ todo' = r.acts \o Act("SaveContext") \o rest
  <2>1. r.acts \in Seq(Actions)
    BY <1>2 DEF Handles
  <2>2. (\E i \in DOMAIN r.acts : r.acts[i].type = "UnbindTopic") => Has(r.acts, {"UnbindTopic"})
    BY <2>1 DEF Has
  <2> QED BY <2>2 DEF Apply, Saved, SavedAs
<1> HIDE DEF r, rest
<1>5. ~Has(r.acts, Asks) \/ Named(rest) = {}
  BY DEF r, rest
<1>6. Leads(ctx, row, r.ctx, row', todo', ids \cup Named(rest), seen)
  BY <1>1, <1>2, <1>3, <1>4, <1>5, Followed
<1>7. Leads(ctx, row, ctx', row', todo', ids \cup Named(rest), seen)
  BY <1>4, <1>6
<1>8. ids \cup Named(rest) \subseteq Named(todo)
  BY <1>3
<1> QED BY <1>3, <1>7, <1>8, LeadsMore

LEMMA AppliedLess ==
    ASSUME PollerInv, todo # <<>>, Head1.type \notin Asks \cup Finals \cup {"AbandonPrompt"},
           NEW p \in Head1.ids, NEW e, Tells(e, {p}, {}), e.type \in {"PostOk", "PostAmbiguous"},
           Apply(e, Without(p))
    PROVE  Leads(ctx, row, ctx', row', todo', Named(todo), {}) /\ ~Has(todo, Finals)
<1> DEFINE r == Step(ctx, e)
           rest == Lessened(todo, p)
<1>1. ctx \in Contexts /\ row \in Rows /\ todo \in Seq(Items) /\ Orderly(todo)
  BY TypesAre
<1>2. Handles(ctx, {p}, {}, r) /\ ~Has(r.acts, Asks)
  BY <1>1, StepHandled
<1>3. /\ rest \in Seq(Items) /\ Orderly(rest) /\ Named(rest) \subseteq Named(todo)
      /\ ~Has(rest, Finals) /\ ~Has(todo, Finals) /\ p \in Named(todo)
  BY <1>1, OneLess, TailLeft DEF Head1
<1>4. rest = Without(p)
  BY DEF Without, Lessened, Head1
<1>5. /\ ctx' = r.ctx
      /\ \/ row' = SavedAs(row, r.ctx) /\ todo' = r.acts \o rest
         \/ Has(r.acts, {"UnbindTopic"}) /\ row' = row /\ todo' = r.acts \o Act("SaveContext") \o rest
  <2>1. r.acts \in Seq(Actions)
    BY <1>2 DEF Handles
  <2>2. (\E i \in DOMAIN r.acts : r.acts[i].type = "UnbindTopic") => Has(r.acts, {"UnbindTopic"})
    BY <2>1 DEF Has
  <2> HIDE DEF rest
  <2> QED BY <1>4, <2>2 DEF Apply, Saved, SavedAs
<1> HIDE DEF r, rest
<1>6. Leads(ctx, row, r.ctx, row', todo', {p} \cup Named(rest), {})
  BY <1>1, <1>2, <1>3, <1>5, Followed
<1>7. Leads(ctx, row, ctx', row', todo', {p} \cup Named(rest), {})
  BY <1>5, <1>6
<1>8. {p} \cup Named(rest) \subseteq Named(todo)
  BY <1>3
<1> QED BY <1>3, <1>7, <1>8, LeadsMore

-----------------------------------------------------------------------------
(* Steps that conclude nothing about the turn, and steps that end the task. *)
LedgerQuiet ==
    \A p \in Prompts :
        /\ ledger'[p].state = "witnessed" => ledger[p].state = "witnessed"
        /\ ledger[p].state = "witnessed" =>
               \/ ledger'[p].state = "witnessed"
               \/ ledger'[p].state = "posted" /\ p \in posting

LEMMA Quietly ==
    ASSUME PollerInv, task' = task,
           ctx' \in Contexts, ctx'.pending = ctx.pending, ctx'.state = ctx.state,
           ctx'.start_witnessed <=> ctx.start_witnessed,
           todo' \in Seq(Items), Orderly(todo'), task # "up" => todo' = <<>>,
           \A p \in Named(todo') : ledger'[p].state # "witnessed",
           Has(todo', Finals) => Has(todo, Finals) /\ ctx' = ctx /\ (row' = row \/ Reopened),
           row' \in Rows, Unseen(row'.ctx) => Unseen(row.ctx) \/ Unseen(ctx),
           row'.ctx.state = row.ctx.state \/ Reopened \/ (task = "up" /\ row'.ctx.state = ctx'.state),
           SetsTyped, ledger' \in LedgerRows, LedgerQuiet
    PROVE  Sound
<1>1. TypeOK' /\ Tidy'
  <2>1. task' \in {"down", "up", "stopped"}
    BY TypesAre
  <2>2. task' # "up" => todo' = <<>> /\ ctx'.pending = {}
    BY DEF PollerInv, Tidy
  <2> QED BY <2>1, <2>2, TypesKept DEF Tidy
<1>2. NeverNamed'
  BY DEF NeverNamed, PollerInv, LedgerQuiet, SetsTyped
<1>3. Unseen(ctx') <=> Unseen(ctx)
  BY DEF Unseen, Counting
<1>4. StartedFirst /\ DoneInTime
  BY <1>3 DEF StartedFirst, DoneInTime
<1>5. NotForgotten /\ StaysWitnessed
  BY DEF NotForgotten, StaysWitnessed, LedgerQuiet
<1>6. Ends
  BY DEF Ends
<1> QED BY <1>1, <1>2, <1>4, <1>5, <1>6 DEF Sound, PollerInv

LEMMA Reset ==
    ASSUME PollerInv, task' \in {"down", "stopped"}, ctx' = FreshContext, todo' = <<>>, row' = row,
           SetsTyped, ledger' \in LedgerRows, LedgerQuiet
    PROVE  Sound
<1>1. ctx' \in Contexts /\ ctx'.pending = {} /\ ~Unseen(ctx')
  BY RestContexts
<1>2. todo' \in Seq(Items) /\ Orderly(todo') /\ Named(todo') = {} /\ ~Has(todo', Finals)
  BY NoneLeft
<1>3. TypeOK' /\ Tidy'
  <2>1. task' \in {"down", "up", "stopped"} /\ row' \in Rows
    BY TypesAre
  <2> QED BY <1>1, <1>2, <2>1, TypesKept DEF Tidy
<1>4. NeverNamed'
  BY <1>1, <1>2 DEF NeverNamed, PollerInv, LedgerQuiet, SetsTyped
<1>5. StartedFirst /\ DoneInTime /\ NotForgotten /\ Ends
  BY <1>1, <1>2 DEF StartedFirst, DoneInTime, NotForgotten, Ends
<1>6. StaysWitnessed
  BY DEF StaysWitnessed, LedgerQuiet
<1> QED BY <1>3, <1>4, <1>5, <1>6 DEF Sound, PollerInv

LEMMA Marked ==
    ASSUME PollerInv, NEW p \in Prompts, NEW s \in LedgerStates, MarkRow(p, s)
    PROVE  /\ ledger' \in LedgerRows /\ ledger'[p].state = s
           /\ \A q \in Prompts \ {p} : ledger'[q] = ledger[q]
<1>1. ledger \in LedgerRows
  BY TypesAre
<1>2. [state |-> s, age |-> 0] \in [state: LedgerStates, age: Ages]
  BY Given
<1> DEFINE x == [state |-> s, age |-> 0]
<1>3. x.state = s
  OBVIOUS
<1>4. ledger' = [ledger EXCEPT ![p] = x]
  BY DEF MarkRow
<1> HIDE DEF x
<1> QED BY <1>1, <1>2, <1>3, <1>4 DEF LedgerRows, x

LEMMA LedgerAsWas ==
    ASSUME PollerInv, ledger' = ledger
    PROVE  ledger' \in LedgerRows /\ LedgerQuiet /\ LedgerFollows
BY TypesAre DEF LedgerQuiet, LedgerFollows

LEMMA SetsAsWere ==
    ASSUME PollerInv, posting' = posting, conductor' = conductor, reposted' \subseteq Prompts
    PROVE  SetsTyped
BY TypesAre DEF SetsTyped, conductor

\* The head is taken off and nothing is concluded from it.
LEMMA PassedOn ==
    ASSUME PollerInv, task = "up", todo # <<>>, todo' = Tail(todo),
           UNCHANGED <<task, ctx, reposted, ledger, posting, conductor>>,
           row' \in Rows, Unseen(row'.ctx) => Unseen(row.ctx) \/ Unseen(ctx),
           row'.ctx.state = row.ctx.state \/ row'.ctx.state = ctx.state,
           row' = row \/ Head1.type # "AbandonPrompt"
    PROVE  Sound
<1>1. ctx \in Contexts /\ todo \in Seq(Items) /\ Orderly(todo) /\ reposted \subseteq Prompts
  BY TypesAre
<1>2. /\ todo' \in Seq(Items) /\ Orderly(todo') /\ Named(todo') \subseteq Named(todo)
      /\ (Has(todo', Finals) => Has(todo, Finals))
      /\ (Head1.type # "AbandonPrompt" => ~Has(todo', Finals))
  BY <1>1, TailLeft DEF Head1
<1>3. SetsTyped /\ ledger' \in LedgerRows /\ LedgerQuiet
  BY <1>1, SetsAsWere, LedgerAsWas
<1>4. \A p \in Named(todo') : ledger'[p].state # "witnessed"
  BY <1>2 DEF PollerInv, NeverNamed, Named
<1>5. task' = task /\ ctx' = ctx
  OBVIOUS
<1> QED BY <1>1, <1>2, <1>3, <1>4, <1>5, Quietly

-----------------------------------------------------------------------------
(* The steps.                                                              *)
LEMMA Started == Init => PollerInv
<1> SUFFICES ASSUME Init PROVE PollerInv
  OBVIOUS
<1>1. FreshContext \in Contexts /\ Durable(FreshContext) \in Contexts
  BY RestContexts, Kept
<1>2. TypeOK
  BY <1>1, Given DEF Init, TypeOK, LedgerStates
<1>3. Tidy
  BY NoneLeft, RestContexts DEF Init, Tidy
<1>4. NeverNamed
  BY DEF Init, NeverNamed
<1> QED BY <1>2, <1>3, <1>4 DEF PollerInv

LEMMA SpawnSound == ASSUME PollerInv, Spawn PROVE Sound
<1> DEFINE known == InState(Unsettled)
           due == InState({"pending"})
           a == IF row.ctx.ws_ready THEN ActOn("RePost", due) ELSE <<>>
           b == Act("Boot")
<1>1. /\ ctx \in Contexts /\ row \in Rows /\ ledger \in LedgerRows /\ due \in SUBSET Prompts /\ known \in SUBSET Prompts
      /\ todo = <<>>
  <2>1. task # "up"
    BY DEF Spawn
  <2> QED BY <2>1, TypesAre DEF InState, PollerInv, Tidy
<1>2. /\ Loaded \in Contexts /\ Loaded.state = row.ctx.state /\ Loaded.pending = known
  BY <1>1, ContextsAre DEF Loaded, Rows
<1>3. /\ a \in Seq(Items) /\ Orderly(a) /\ Named(a) \subseteq due /\ ~Has(a, Asks) /\ ~Has(a, Finals)
  <2>1. "RePost" \in Types /\ "RePost" \notin Asks /\ "RePost" \notin Finals
    BY DEF Types, ActionTypes, Asks, Finals
  <2> QED BY <1>1, <2>1, ItemsOn, NoneLeft
<1>4. b \in Seq(Items) /\ Orderly(b) /\ Named(b) = {} /\ ~Has(b, Finals)
  <2>1. "Boot" \in Types /\ "Boot" \notin Finals
    BY DEF Types, WorkTypes, Finals
  <2> QED BY <2>1, OneItem
<1>5. todo' = a \o b
  BY DEF Spawn
<1> HIDE DEF a, b
<1>6. todo' \in Seq(Items) /\ Orderly(todo') /\ Named(todo') \subseteq due /\ ~Has(todo', Finals)
  BY <1>3, <1>4, <1>5, Joined, JoinedInOrder
<1>7. /\ task = "down" /\ task' = "up" /\ ctx' = Loaded /\ reposted' = {} /\ row' = row /\ ledger' = ledger
      /\ posting' = posting /\ accepted' = accepted /\ echoed' = echoed
  BY DEF Spawn, durable, conductor
<1>8. SetsTyped /\ ledger' \in LedgerRows
  BY <1>1, <1>7, TypesAre DEF SetsTyped
<1>9. TypeOK' /\ Tidy'
  BY <1>1, <1>2, <1>6, <1>7, <1>8, TypesKept DEF Tidy
<1>10. NeverNamed'
  <2>1. \A p \in Prompts : ledger[p].state = "witnessed" => p \notin known /\ p \notin due
    BY DEF InState, Unsettled
  <2> QED BY <1>2, <1>6, <1>7, <2>1 DEF NeverNamed, PollerInv
<1>11. StartedFirst
  BY <1>7 DEF StartedFirst
<1>12. DoneInTime /\ StaysWitnessed
  BY <1>7 DEF DoneInTime, StaysWitnessed
<1>13. NotForgotten
  BY <1>7 DEF NotForgotten, PollerInv, Tidy
<1>14. Ends
  BY <1>2, <1>6, <1>7 DEF Ends
<1> QED BY <1>9, <1>10, <1>11, <1>12, <1>13, <1>14 DEF Sound, PollerInv

\* Evidence about the turn itself, at a head that asks for it.
LEMMA AskedSound ==
    ASSUME PollerInv, task = "up", todo # <<>>, Head1.type \in Asks,
           NEW e, e.type \in {"Boot", "Status", "StatusUnavailable", "Ws", "Cancel", "CancelAck", "E404", "Timer"},
           Apply(e, Tail(todo)), UNCHANGED <<task, reposted, ledger, posting, conductor>>
    PROVE  Sound
<1>1. todo \in Seq(Items) /\ Orderly(todo) /\ reposted \subseteq Prompts
  BY TypesAre
<1>2. Named(Tail(todo)) = {}
  BY <1>1, TailLeft DEF Head1
<1>3. ~(Head1.type \in Finals \cup {"AbandonPrompt"})
  BY DEF Asks, Finals
<1>4. Tells(e, {}, {}) /\ {} \subseteq Named(todo)
  BY DEF Tells
<1>5. Leads(ctx, row, ctx', row', todo', Named(todo), {}) /\ ~Has(todo, Finals)
  BY <1>2, <1>3, <1>4, AppliedTail
<1>6. SetsTyped /\ ledger' \in LedgerRows /\ LedgerFollows
  BY <1>1, SetsAsWere, LedgerAsWas
<1>7. task' = "up" /\ {} \cap Prompts \subseteq echoed'
  OBVIOUS
<1> QED BY <1>5, <1>6, <1>7, LedOn

LEMMA BootSound == ASSUME PollerInv, BootMachine PROVE Sound
<1> DEFINE e == Evidence("Boot")
<1>1. e.type = "Boot"
  BY DEF Evidence
<1>2. task = "up" /\ todo # <<>> /\ Head1.type \in Asks /\ Apply(e, Tail(todo))
      /\ UNCHANGED <<task, reposted, ledger, posting, conductor>>
  BY DEF BootMachine, AtHead, Asks
<1> HIDE DEF e
<1> QED BY <1>1, <1>2, AskedSound

LEMMA StatusSound ==
    ASSUME PollerInv, SessionStatusUnavailable \/ \E v \in SessionStatuses : SessionStatus(v) PROVE Sound
<1>1. CASE SessionStatusUnavailable
  <2> DEFINE e == Evidence("StatusUnavailable")
  <2>1. e.type = "StatusUnavailable"
    BY DEF Evidence
  <2>2. task = "up" /\ todo # <<>> /\ Head1.type \in Asks /\ Apply(e, Tail(todo))
        /\ UNCHANGED <<task, reposted, ledger, posting, conductor>>
    BY <1>1 DEF SessionStatusUnavailable, AtHead, Asks
  <2> HIDE DEF e
  <2> QED BY <2>1, <2>2, AskedSound
<1>2. ASSUME NEW v \in SessionStatuses, SessionStatus(v) PROVE Sound
  <2> DEFINE e == Valued("Status", v)
  <2>1. e.type = "Status"
    BY DEF Valued
  <2>2. task = "up" /\ todo # <<>> /\ Head1.type \in Asks /\ Apply(e, Tail(todo))
        /\ UNCHANGED <<task, reposted, ledger, posting, conductor>>
    BY <1>2 DEF SessionStatus, AtHead, Asks
  <2> HIDE DEF e
  <2> QED BY <2>1, <2>2, AskedSound
<1> QED BY <1>1, <1>2

LEMMA WorkspaceSound == ASSUME PollerInv, NEW v \in WsStatuses, WorkspaceStatus(v) PROVE Sound
<1> DEFINE e == Valued("Ws", v)
<1>1. e.type = "Ws"
  BY DEF Valued
<1>2. task = "up" /\ todo # <<>> /\ Head1.type \in Asks /\ Apply(e, Tail(todo))
      /\ UNCHANGED <<task, reposted, ledger, posting, conductor>>
  BY DEF WorkspaceStatus, AtHead, Asks
<1> HIDE DEF e
<1> QED BY <1>1, <1>2, AskedSound

LEMMA GoneSound == ASSUME PollerInv, SessionGone PROVE Sound
<1> DEFINE e == Evidence("E404")
<1>1. e.type = "E404"
  BY DEF Evidence
<1>2. task = "up" /\ todo # <<>> /\ Head1.type \in Asks /\ Apply(e, Tail(todo))
      /\ UNCHANGED <<task, reposted, ledger, posting, conductor>>
  BY DEF SessionGone, Asks
<1> HIDE DEF e
<1> QED BY <1>1, <1>2, AskedSound

LEMMA AckSound == ASSUME PollerInv, CancelAcknowledged PROVE Sound
<1> DEFINE e == Evidence("CancelAck")
<1>1. e.type = "CancelAck"
  BY DEF Evidence
<1>2. task = "up" /\ todo # <<>> /\ Head1.type \in Asks /\ Apply(e, Tail(todo))
      /\ UNCHANGED <<task, reposted, ledger, posting, conductor>>
  BY DEF CancelAcknowledged, AtHead, Asks
<1> HIDE DEF e
<1> QED BY <1>1, <1>2, AskedSound

LEMMA StopSound == ASSUME PollerInv, PressStop PROVE Sound
<1> DEFINE e == Evidence("Cancel")
           r == Step(ctx, e)
<1>1. Tells(e, {}, {})
  BY DEF Evidence, Tells
<1>2. ctx \in Contexts /\ row \in Rows
  BY TypesAre
<1>3. Handles(ctx, {}, {}, r)
  BY <1>1, <1>2, StepHandled
<1>4. r.acts \in Seq(Actions)
  BY <1>3 DEF Handles
<1>5. (\E i \in DOMAIN r.acts : r.acts[i].type = "UnbindTopic") => Has(r.acts, {"UnbindTopic"})
  BY <1>4 DEF Has
<1>6. /\ ctx' = r.ctx
      /\ \/ row' = SavedAs(row, r.ctx) /\ todo' = r.acts \o <<>>
         \/ Has(r.acts, {"UnbindTopic"}) /\ row' = row /\ todo' = r.acts \o Act("SaveContext") \o <<>>
  BY <1>5 DEF PressStop, Apply, Saved, SavedAs
<1>7. task = "up" /\ task' = "up" /\ todo = <<>> /\ UNCHANGED <<ledger, posting, conductor>> /\ reposted' = {}
  BY DEF PressStop
<1> HIDE DEF e, r
<1>8. <<>> \in Seq(Items) /\ Orderly(<<>>) /\ ~Has(<<>>, Finals) /\ Named(<<>>) = {}
  BY NoneLeft
<1>9. Leads(ctx, row, r.ctx, row', todo', {} \cup Named(<<>>), {})
  BY <1>2, <1>3, <1>6, <1>8, Followed
<1>10. Leads(ctx, row, ctx', row', todo', {} \cup Named(<<>>), {})
  BY <1>6, <1>9
<1>11. {} \cup Named(<<>>) \subseteq Named(todo) /\ {} \cap Prompts \subseteq echoed' /\ ~Has(todo, Finals)
  BY <1>7, <1>8
<1>12. Leads(ctx, row, ctx', row', todo', Named(todo), {})
  BY <1>10, <1>11, LeadsMore
<1>13. SetsTyped /\ ledger' \in LedgerRows /\ LedgerFollows
  BY <1>7, SetsAsWere, LedgerAsWas
<1> QED BY <1>7, <1>11, <1>12, <1>13, LedOn

LEMMA DrainQuietSound == ASSUME PollerInv, DrainQuiet \/ DrainUnavailable PROVE Sound
<1>1. task = "up" /\ todo # <<>> /\ Head1.type \in Asks /\ UNCHANGED <<task, reposted, ledger, posting, conductor>>
  BY DEF DrainQuiet, DrainUnavailable, DrainHead, Asks
<1>2. CASE Apply(Evidence("Timer"), Tail(todo))
  <2> DEFINE e == Evidence("Timer")
  <2>1. e.type = "Timer" /\ Apply(e, Tail(todo))
    BY <1>2 DEF Evidence
  <2> HIDE DEF e
  <2> QED BY <1>1, <2>1, AskedSound
<1>3. CASE Consume
  <2>1. row' \in Rows
    BY <1>3, TypesAre DEF Consume
  <2> QED BY <1>1, <1>3, <2>1, PassedOn DEF Consume
<1> QED BY <1>2, <1>3 DEF DrainQuiet, DrainUnavailable

LEMMA ConsumeSound ==
    ASSUME PollerInv, WorkspaceStatusUnavailable \/ SkipWhenStopped \/ CancelLost PROVE Sound
<1>1. /\ task = "up" /\ todo # <<>> /\ todo' = Tail(todo) /\ row' = row
      /\ UNCHANGED <<task, ctx, reposted, ledger, posting, conductor>>
  BY DEF WorkspaceStatusUnavailable, SkipWhenStopped, CancelLost, Consume, AtHead
<1>2. row' \in Rows
  BY <1>1, TypesAre
<1> QED BY <1>1, <1>2, PassedOn

LEMMA AnnounceSound == ASSUME PollerInv, Announce PROVE Sound
<1>1. /\ task = "up" /\ todo # <<>> /\ todo' = Tail(todo) /\ row' = row
      /\ UNCHANGED <<task, ctx, reposted, ledger, posting, conductor>>
  BY DEF Announce, durable
<1>2. row' \in Rows
  BY <1>1, TypesAre
<1> QED BY <1>1, <1>2, PassedOn

LEMMA UnbindSound == ASSUME PollerInv, UnbindTopic PROVE Sound
<1>1. /\ task = "up" /\ todo # <<>> /\ todo' = Tail(todo) /\ row' = [row EXCEPT !.bound = FALSE]
      /\ UNCHANGED <<task, ctx, reposted, ledger, posting, conductor>> /\ Head1.type # "AbandonPrompt"
  BY DEF UnbindTopic, AtHead
<1>2. row \in Rows
  BY TypesAre
<1>3. row' \in Rows /\ row'.ctx = row.ctx
  BY <1>1, <1>2 DEF Rows
<1> QED BY <1>1, <1>3, PassedOn

LEMMA SaveSound == ASSUME PollerInv, SaveContext PROVE Sound
<1>1. /\ task = "up" /\ todo # <<>> /\ todo' = Tail(todo) /\ row' = SavedAs(row, ctx)
      /\ UNCHANGED <<task, ctx, reposted, ledger, posting, conductor>> /\ Head1.type # "AbandonPrompt"
  BY DEF SaveContext, AtHead, Saved, SavedAs
<1>2. row \in Rows /\ ctx \in Contexts
  BY TypesAre
<1>3. row' \in Rows /\ row'.ctx.state = ctx.state /\ (Unseen(row'.ctx) <=> Unseen(ctx))
  BY <1>1, <1>2, SavedRow
<1> QED BY <1>1, <1>3, PassedOn

LEMMA ResetSound ==
    ASSUME PollerInv, StopTask \/ Crash \/ CrashInDrain \/ RePostRefused PROVE Sound
<1>1. CASE StopTask
  <2>1. /\ task' = "stopped" /\ ctx' = FreshContext /\ todo' = <<>> /\ row' = row /\ ledger' = ledger
        /\ posting' = posting /\ conductor' = conductor /\ reposted' = reposted
    BY <1>1 DEF StopTask, durable, conductor
  <2>2. SetsTyped /\ ledger' \in LedgerRows /\ LedgerQuiet
    BY <2>1, SetsAsWere, LedgerAsWas, TypesAre
  <2> QED BY <2>1, <2>2, Reset
<1>2. CASE Crash
  <2>1. /\ task' = "down" /\ ctx' = FreshContext /\ todo' = <<>> /\ row' = row /\ ledger' = ledger
        /\ posting' = {} /\ accepted' = accepted /\ echoed' = echoed /\ reposted' = {}
    BY <1>2 DEF Crash, durable, conductor
  <2>2. SetsTyped /\ ledger' \in LedgerRows /\ LedgerQuiet
    BY <2>1, LedgerAsWas, TypesAre DEF SetsTyped
  <2> QED BY <2>1, <2>2, Reset
<1>3. CASE CrashInDrain
  <2>1. /\ task' = "down" /\ ctx' = FreshContext /\ todo' = <<>> /\ row' = row /\ ledger' = ledger
        /\ posting' = {} /\ accepted' = accepted /\ reposted' = {}
    BY <1>3 DEF CrashInDrain, durable
  <2>2. echoed \subseteq echoed' /\ echoed' \subseteq accepted
    BY <1>3, TypesAre DEF CrashInDrain
  <2>3. SetsTyped /\ ledger' \in LedgerRows /\ LedgerQuiet
    BY <2>1, <2>2, LedgerAsWas, TypesAre DEF SetsTyped
  <2> QED BY <2>1, <2>3, Reset
<1>4. CASE RePostRefused
  <2>1. PICK p \in (Head1.ids \ reposted) \ accepted : ledger[p].state \in Unsettled /\ MarkRow(p, "failed")
    BY <1>4 DEF RePostRefused
  <2>2. /\ task' = "down" /\ ctx' = FreshContext /\ todo' = <<>> /\ row' = row
        /\ posting' = posting /\ conductor' = conductor /\ reposted' = {} /\ todo # <<>>
    BY <1>4 DEF RePostRefused, AtHead
  <2>3. p \in Prompts
    <3>1. todo \in Seq(Items) /\ Orderly(todo)
      BY TypesAre
    <3>2. Head1 \in Items
      BY <2>2, <3>1, TailLeft DEF Head1
    <3> QED BY <2>1, <3>2 DEF Items
  <2>4. /\ ledger' \in LedgerRows /\ ledger'[p].state = "failed" /\ \A q \in Prompts \ {p} : ledger'[q] = ledger[q]
    <3>1. "failed" \in LedgerStates
      BY DEF LedgerStates
    <3> QED BY <2>1, <2>3, <3>1, Marked
  <2>5. LedgerQuiet
    BY <2>1, <2>4 DEF LedgerQuiet, Unsettled
  <2>6. SetsTyped
    BY <2>2, SetsAsWere
  <2> QED BY <2>2, <2>4, <2>5, <2>6, Reset
<1> QED BY <1>1, <1>2, <1>3, <1>4

LEMMA ClockSound == ASSUME PollerInv, ClockTick PROVE Sound
<1>1. /\ ctx \in Contexts /\ row \in Rows /\ ledger \in LedgerRows /\ reposted \subseteq Prompts
      /\ todo = <<>> /\ todo' = <<>> /\ row' = row /\ task' = task
      /\ reposted' = reposted /\ posting' = posting /\ conductor' = conductor
  BY TypesAre DEF ClockTick
<1>2. /\ ctx' \in Contexts /\ ctx'.pending = ctx.pending /\ ctx'.state = ctx.state
      /\ ctx'.start_witnessed = ctx.start_witnessed
  <2>1. ctx' = Older(ctx) \/ ctx' = ctx
    BY DEF ClockTick
  <2> QED BY <1>1, <2>1, TimeTyped
<1>3. ctx'.start_witnessed <=> ctx.start_witnessed
  BY <1>2
<1>4. ledger' \in LedgerRows /\ \A p \in Prompts : ledger'[p].state = ledger[p].state
  <2>1. ASSUME NEW p \in Prompts
        PROVE  LET x == IF ledger[p].state \in Unsettled /\ ledger[p].age < PROMPT_AGE_OUT
                        THEN [ledger[p] EXCEPT !.age = @ + 1] ELSE ledger[p]
               IN  x \in [state: LedgerStates, age: Ages] /\ x.state = ledger[p].state
    <3>1. ledger[p] \in [state: LedgerStates, age: Ages]
      BY <1>1 DEF LedgerRows
    <3>2. ledger[p].age < PROMPT_AGE_OUT => ledger[p].age + 1 \in Ages
      BY <3>1, Given DEF Ages
    <3> QED BY <3>1, <3>2
  <2> QED BY <2>1 DEF ClockTick, LedgerRows
<1>5. LedgerQuiet
  BY <1>4 DEF LedgerQuiet
<1>6. SetsTyped
  BY <1>1, SetsAsWere
<1>7. todo' \in Seq(Items) /\ Orderly(todo') /\ ~Has(todo', Finals)
      /\ \A p \in Named(todo') : ledger'[p].state # "witnessed"
  BY <1>1, NoneLeft
<1> QED BY <1>1, <1>2, <1>3, <1>4, <1>5, <1>6, <1>7, Quietly

LEMMA StartTickSound == ASSUME PollerInv, StartTick PROVE Sound
<1> DEFINE s1 == InState({"posted"}) \ ctx.pending
           s2 == InState({"pending"}) \ ctx.pending
           a == ActOn("AdoptPosted", s1)
           b == ActOn("AdoptPending", s2)
           k == Act("Drain")
           l == Act("PollStatus")
<1>1. /\ ctx \in Contexts /\ row \in Rows /\ task = "up" /\ task' = task /\ ctx' = ctx /\ row' = row /\ ledger' = ledger
      /\ posting' = posting /\ conductor' = conductor /\ reposted' = {}
  BY TypesAre DEF StartTick, durable
<1>2. s1 \in SUBSET Prompts /\ s2 \in SUBSET Prompts
  BY DEF InState
<1>3. \A p \in s1 \cup s2 : ledger[p].state # "witnessed"
  BY DEF InState
<1>4. /\ "AdoptPosted" \in Types /\ "AdoptPending" \in Types /\ "Drain" \in Types /\ "PollStatus" \in Types
      /\ {"AdoptPosted", "AdoptPending"} \cap (Asks \cup Finals) = {}
      /\ "Drain" \notin Finals /\ "PollStatus" \notin Finals
  BY DEF Types, WorkTypes, Asks, Finals
<1>5. todo' = a \o b \o k \o l
  BY DEF StartTick
<1> HIDE DEF s1, s2
<1>6. /\ a \in Seq(Items) /\ Orderly(a) /\ Named(a) = s1 /\ ~Has(a, Asks) /\ ~Has(a, Finals)
      /\ b \in Seq(Items) /\ Orderly(b) /\ Named(b) = s2 /\ ~Has(b, Asks) /\ ~Has(b, Finals)
  BY <1>2, <1>4, ItemsOn
<1>7. /\ k \in Seq(Items) /\ Orderly(k) /\ Named(k) = {} /\ ~Has(k, Finals)
      /\ l \in Seq(Items) /\ Orderly(l) /\ Named(l) = {} /\ ~Has(l, Finals)
  BY <1>4, OneItem
<1> HIDE DEF a, b, k, l
<1> DEFINE ab == a \o b
           abk == ab \o k
<1>8. ab \in Seq(Items) /\ Orderly(ab) /\ Named(ab) = s1 \cup s2 /\ ~Has(ab, Finals)
  BY <1>6, Joined, JoinedInOrder
<1> HIDE DEF ab
<1>9. abk \in Seq(Items) /\ Orderly(abk) /\ Named(abk) = s1 \cup s2 /\ ~Has(abk, Finals)
  <2>1. abk \in Seq(Items) /\ Named(abk) = Named(ab) \cup Named(k) /\ ~Has(abk, Finals)
    BY <1>7, <1>8, Joined
  <2>2. Orderly(abk)
    BY <1>7, <1>8, JoinedInOrder
  <2> HIDE DEF abk
  <2> QED BY <1>7, <1>8, <2>1, <2>2
<1> HIDE DEF abk
<1>10. /\ todo' \in Seq(Items) /\ Orderly(todo') /\ Named(todo') = s1 \cup s2 /\ ~Has(todo', Finals)
  <2>1. todo' = abk \o l
    BY <1>5 DEF abk, ab
  <2>2. todo' \in Seq(Items) /\ Named(todo') = Named(abk) \cup Named(l) /\ ~Has(todo', Finals)
    BY <1>7, <1>9, <2>1, Joined
  <2>3. Orderly(todo')
    BY <1>7, <1>9, <2>1, JoinedInOrder
  <2> QED BY <1>7, <1>9, <2>2, <2>3
<1>11. SetsTyped /\ ledger' \in LedgerRows /\ LedgerQuiet
  BY <1>1, SetsAsWere, LedgerAsWas
<1> QED BY <1>1, <1>3, <1>10, <1>11, Quietly

LEMMA PollStatusSound == ASSUME PollerInv, PollStatus PROVE Sound
<1>1. /\ ctx \in Contexts /\ row \in Rows /\ todo \in Seq(Items) /\ Orderly(todo) /\ todo # <<>>
      /\ task = "up" /\ task' = task /\ ctx' = ctx /\ row' = row /\ ledger' = ledger /\ reposted \subseteq Prompts
      /\ posting' = posting /\ conductor' = conductor /\ reposted' = reposted
  BY TypesAre DEF PollStatus, AtHead, durable
<1> DEFINE u == Tail(todo)
<1>2. u \in Seq(Items) /\ Orderly(u) /\ Named(u) = {} /\ ~Has(u, Finals)
  <2>1. todo[1].type \in Asks /\ todo[1].type # "AbandonPrompt"
    BY DEF PollStatus, AtHead, Head1, Asks
  <2> HIDE DEF u
  <2> QED BY <1>1, <2>1, TailLeft DEF u
<1> DEFINE w == IF ctx.state = "WAKING" THEN Act("RequestWorkspaceStatus") ELSE <<>>
           k == Act("RequestStatus")
<1>3. /\ k \in Seq(Items) /\ Orderly(k) /\ Named(k) = {} /\ ~Has(k, Finals)
      /\ w \in Seq(Items) /\ Orderly(w) /\ Named(w) = {} /\ ~Has(w, Finals)
      /\ <<>> \in Seq(Items) /\ Orderly(<<>>) /\ Named(<<>>) = {} /\ ~Has(<<>>, Finals)
  <2>1. /\ "RequestStatus" \in Types /\ "RequestWorkspaceStatus" \in Types
        /\ "RequestStatus" \notin Finals /\ "RequestWorkspaceStatus" \notin Finals
    BY DEF Types, ActionTypes, Finals
  <2> QED BY <2>1, OneItem, NoneLeft
<1>4. PICK due : todo' = (IF due THEN k ELSE <<>>) \o w \o u
  BY DEF PollStatus
<1> DEFINE q == IF due THEN k ELSE <<>>
           qw == q \o w
<1>5. q \in Seq(Items) /\ Orderly(q) /\ Named(q) = {} /\ ~Has(q, Finals)
  BY <1>3
<1> HIDE DEF u, w, k, q
<1>6. qw \in Seq(Items) /\ Orderly(qw) /\ Named(qw) = {} /\ ~Has(qw, Finals)
  BY <1>3, <1>5, Joined, JoinedInOrder
<1>7. todo' = qw \o u
  BY <1>4 DEF q
<1> HIDE DEF qw
<1>8. todo' \in Seq(Items) /\ Orderly(todo') /\ Named(todo') = {} /\ ~Has(todo', Finals)
  BY <1>2, <1>6, <1>7, Joined, JoinedInOrder
<1>9. SetsTyped /\ ledger' \in LedgerRows /\ LedgerQuiet
  BY <1>1, SetsAsWere, LedgerAsWas
<1>10. \A p \in Named(todo') : ledger'[p].state # "witnessed"
  BY <1>8
<1> QED BY <1>1, <1>8, <1>9, <1>10, Quietly

LEMMA AdoptSound == ASSUME PollerInv, AdoptPosted \/ AdoptPending PROVE Sound
<1>1. ASSUME NEW t \in {"AdoptPosted", "AdoptPending"}, NEW v \in {"PostOk", "PostAmbiguous"}, Adopt(t, v) PROVE Sound
  <2>1. /\ task = "up" /\ todo # <<>> /\ task' = task /\ ledger' = ledger /\ posting' = posting /\ conductor' = conductor
        /\ reposted' = reposted /\ todo[1].type = t
    BY <1>1 DEF Adopt, AtHead, Head1
  <2>2. /\ ctx \in Contexts /\ row \in Rows /\ todo \in Seq(Items) /\ Orderly(todo) /\ reposted \subseteq Prompts
        /\ ledger \in LedgerRows
    BY TypesAre
  <2>3. PICK p \in todo[1].ids : LET r == Step(WithPrompt(ctx, p, ledger[p].age), EvidenceOf(v, p))
                               IN  ctx' = r.ctx /\ row' = Saved(r.ctx) /\ todo' = r.acts \o Without(p)
    BY <1>1 DEF Adopt, Head1
  <2> DEFINE e == EvidenceOf(v, p)
             r == Step(WithPrompt(ctx, p, ledger[p].age), e)
             rest == Lessened(todo, p)
  <2>4. t \notin Asks \cup Finals /\ t # "AbandonPrompt"
    BY DEF Asks, Finals
  <2>5. /\ rest \in Seq(Items) /\ Orderly(rest) /\ Named(rest) \subseteq Named(todo)
        /\ ~Has(rest, Finals) /\ ~Has(todo, Finals) /\ p \in Named(todo) /\ p \in Prompts
    BY <2>1, <2>2, <2>4, OneLess, TailLeft
  <2>6. ledger[p].age \in Ages
    BY <2>2, <2>5 DEF LedgerRows
  <2>7. Tells(e, {p}, {}) /\ e.type \in {"PostOk", "PostAmbiguous"}
    BY <2>5 DEF EvidenceOf, Tells
  <2>8. ctx' = r.ctx /\ row' = SavedAs(row, r.ctx) /\ todo' = r.acts \o rest
    BY <2>3 DEF Saved, SavedAs, Without, Lessened, Head1
  <2> HIDE DEF e, rest
  <2>9. Handles(ctx, {p}, {}, r) /\ ~Has(r.acts, Asks)
    BY <2>2, <2>5, <2>6, <2>7, AdoptHandled
  <2> HIDE DEF r
  <2>10. Leads(ctx, row, r.ctx, row', todo', {p} \cup Named(rest), {})
    BY <2>2, <2>5, <2>8, <2>9, Followed
  <2>11. Leads(ctx, row, ctx', row', todo', {p} \cup Named(rest), {})
    BY <2>8, <2>10
  <2>12. {p} \cup Named(rest) \subseteq Named(todo) /\ {} \cap Prompts \subseteq echoed' /\ task' = "up"
    BY <2>1, <2>5
  <2>13. Leads(ctx, row, ctx', row', todo', Named(todo), {})
    BY <2>11, <2>12, LeadsMore
  <2>14. SetsTyped /\ ledger' \in LedgerRows /\ LedgerFollows
    BY <2>1, <2>2, SetsAsWere, LedgerAsWas
  <2> QED BY <2>1, <2>5, <2>12, <2>13, <2>14, LedOn
<1> QED BY <1>1 DEF AdoptPosted, AdoptPending

LEMMA SkippedSound == ASSUME PollerInv, RePostSkipped PROVE Sound
<1>1. /\ task = "up" /\ todo # <<>> /\ task' = task /\ ctx' = ctx /\ row' = row /\ ledger' = ledger
      /\ posting' = posting /\ conductor' = conductor /\ reposted' = reposted /\ todo[1].type = "RePost"
  BY DEF RePostSkipped, AtHead, Head1, durable
<1>2. ctx \in Contexts /\ row \in Rows /\ todo \in Seq(Items) /\ Orderly(todo) /\ reposted \subseteq Prompts
  BY TypesAre
<1>3. PICK p \in todo[1].ids : todo' = Without(p)
  BY DEF RePostSkipped, Head1
<1>4. todo' = Lessened(todo, p)
  BY <1>3 DEF Without, Lessened, Head1
<1>5. todo[1].type \notin Asks \cup Finals
  BY <1>1 DEF Asks, Finals
<1>6. todo' \in Seq(Items) /\ Orderly(todo') /\ Named(todo') \subseteq Named(todo)
      /\ (Has(todo', Finals) => Has(todo, Finals))
  BY <1>1, <1>2, <1>4, <1>5, OneLess
<1>7. SetsTyped /\ ledger' \in LedgerRows /\ LedgerQuiet
  BY <1>1, <1>2, SetsAsWere, LedgerAsWas
<1>8. \A p1 \in Named(todo') : ledger'[p1].state # "witnessed"
  BY <1>1, <1>6 DEF PollerInv, NeverNamed, Named
<1> QED BY <1>1, <1>2, <1>6, <1>7, <1>8, Quietly

LEMMA RePostSound == ASSUME PollerInv, RePostSettled \/ RePostAccepted \/ RePostAmbiguous PROVE Sound
<1>1. /\ task = "up" /\ todo # <<>> /\ task' = task /\ posting' = posting /\ todo[1].type = "RePost"
      /\ echoed' = echoed /\ todo \in Seq(Items) /\ Orderly(todo)
  BY TypesAre DEF RePostSettled, RePostAccepted, RePostAmbiguous, AtHead, Head1, conductor
<1>2. todo[1].type \notin Asks \cup Finals \cup {"AbandonPrompt"}
  BY <1>1 DEF Asks, Finals
<1>3. PICK p \in todo[1].ids :
         /\ reposted' = reposted \cup {p} /\ accepted' \in {accepted, accepted \cup {p}}
         /\ Apply(EvidenceOf("PostOk", p), Without(p)) \/ Apply(EvidenceOf("PostAmbiguous", p), Without(p))
         /\ ledger' = ledger \/ (ledger[p].state \in Unsettled /\ MarkRow(p, "posted"))
  BY DEF RePostSettled, RePostAccepted, RePostAmbiguous, Head1, conductor
<1>4. p \in Prompts
  BY <1>1, <1>2, <1>3, OneLess
<1>5. SetsTyped
  BY <1>1, <1>3, <1>4, TypesAre DEF SetsTyped
<1>6. ledger' \in LedgerRows /\ LedgerFollows
  <2>1. CASE ledger' = ledger
    BY <2>1, LedgerAsWas
  <2>2. CASE ledger[p].state \in Unsettled /\ MarkRow(p, "posted")
    <3>1. "posted" \in LedgerStates /\ ledger[p].state # "witnessed"
      BY <2>2 DEF LedgerStates, Unsettled
    <3>2. ledger' \in LedgerRows /\ ledger'[p].state = "posted" /\ \A q \in Prompts \ {p} : ledger'[q] = ledger[q]
      BY <1>4, <2>2, <3>1, Marked
    <3> QED BY <3>1, <3>2 DEF LedgerFollows
  <2> QED BY <1>3, <2>1, <2>2
<1>7. Leads(ctx, row, ctx', row', todo', Named(todo), {}) /\ ~Has(todo, Finals)
  <2>1. ASSUME NEW v \in {"PostOk", "PostAmbiguous"}, Apply(EvidenceOf(v, p), Without(p))
        PROVE  Leads(ctx, row, ctx', row', todo', Named(todo), {}) /\ ~Has(todo, Finals)
    <3> DEFINE e == EvidenceOf(v, p)
    <3>1. Tells(e, {p}, {}) /\ e.type \in {"PostOk", "PostAmbiguous"}
      BY <1>4 DEF EvidenceOf, Tells
    <3>2. Apply(e, Without(p))
      BY <2>1
    <3> HIDE DEF e
    <3>3. p \in Head1.ids /\ Head1.type \notin Asks \cup Finals \cup {"AbandonPrompt"}
      BY <1>2 DEF Head1
    <3> QED BY <1>1, <3>1, <3>2, <3>3, AppliedLess
  <2> QED BY <1>3, <2>1
<1>8. task' = "up" /\ {} \cap Prompts \subseteq echoed'
  BY <1>1
<1> QED BY <1>1, <1>5, <1>6, <1>7, <1>8, LedOn

LEMMA PageTyped ==
    ASSUME NEW agent \in BOOLEAN, NEW turns \in SUBSET TurnIds, NEW new \in SUBSET Prompts,
           NEW ended \in SUBSET TurnIds, NEW untagged \in BOOLEAN
    PROVE  /\ Page(agent, turns, new, ended, untagged) \in Deltas
           /\ Page(agent, turns, new, ended, untagged).echoed = new
           /\ Page(agent, turns, new, ended, untagged).turns = turns
BY DEF Page, Deltas

LEMMA DeltaSound == ASSUME PollerInv, DrainDelta PROVE Sound
<1>1. /\ task = "up" /\ todo # <<>> /\ task' = task /\ posting' = posting /\ accepted' = accepted
      /\ reposted' = reposted /\ ctx.state # "DEAD"
      /\ ctx \in Contexts /\ row \in Rows /\ todo \in Seq(Items) /\ Orderly(todo) /\ ledger \in LedgerRows
      /\ accepted \subseteq Prompts /\ echoed \subseteq accepted /\ reposted \subseteq Prompts /\ posting \subseteq Prompts
  BY TypesAre DEF DrainDelta, DrainHead, Stopped
<1>2. todo[1].type \in Asks /\ ~(Head1.type \in Finals \cup {"AbandonPrompt"})
  BY DEF DrainDelta, DrainHead, Head1, Asks, Finals
<1>3. PICK d \in Pages : /\ echoed' = echoed \cup d.echoed /\ Witness(d.echoed)
                         /\ Apply([type |-> "Delta", page |-> d], Tail(todo))
  BY DEF DrainDelta
<1>4. PICK new \in SUBSET (accepted \ echoed) : d \in PagesWith(new)
  BY <1>3 DEF Pages
<1>5. /\ d \in Deltas /\ d.echoed = new /\ d.turns \subseteq echoed \cup new \cup OtherTurns
  <2> DEFINE own == echoed \cup new
  <2>1. own \subseteq TurnIds /\ OtherTurns \subseteq TurnIds /\ new \in SUBSET Prompts
    BY <1>1 DEF TurnIds
  <2>2. \/ \E ts \in AtMostOne(own) : d = Page(FALSE, ts, new, {}, FALSE)
        \/ \E ts \in AtMostOne(own \cup OtherTurns) :
              d \in {Page(TRUE, ts, new, {}, FALSE), Page(TRUE, ts, new, {}, TRUE), Page(TRUE, ts, new, ts, FALSE)}
    BY <1>4 DEF PagesWith
  <2> HIDE DEF own
  <2>3. \A x : \A ts \in AtMostOne(x) : ts \subseteq x
    BY DEF AtMostOne
  <2>4. PICK ts \in SUBSET (own \cup OtherTurns) :
           d \in {Page(FALSE, ts, new, {}, FALSE), Page(TRUE, ts, new, {}, FALSE), Page(TRUE, ts, new, {}, TRUE),
                  Page(TRUE, ts, new, ts, FALSE)}
    <3>1. CASE \E ts \in AtMostOne(own) : d = Page(FALSE, ts, new, {}, FALSE)
      <4>1. PICK ts \in AtMostOne(own) : d = Page(FALSE, ts, new, {}, FALSE)
        BY <3>1
      <4>2. ts \in SUBSET (own \cup OtherTurns)
        BY <2>3, <4>1
      <4> QED BY <4>1, <4>2
    <3>2. CASE \E ts \in AtMostOne(own \cup OtherTurns) :
              d \in {Page(TRUE, ts, new, {}, FALSE), Page(TRUE, ts, new, {}, TRUE), Page(TRUE, ts, new, ts, FALSE)}
      <4>1. PICK ts \in AtMostOne(own \cup OtherTurns) :
              d \in {Page(TRUE, ts, new, {}, FALSE), Page(TRUE, ts, new, {}, TRUE), Page(TRUE, ts, new, ts, FALSE)}
        BY <3>2
      <4>2. ts \in SUBSET (own \cup OtherTurns)
        BY <2>3, <4>1
      <4> QED BY <4>1, <4>2
    <3> QED BY <2>2, <3>1, <3>2
  <2>5. ts \in SUBSET TurnIds /\ {} \in SUBSET TurnIds
    BY <2>1, <2>4
  <2>6. d.echoed = new /\ d.turns = ts /\ d \in Deltas
    <3>1. ASSUME NEW a \in BOOLEAN, NEW z \in SUBSET TurnIds, NEW b \in BOOLEAN, d = Page(a, ts, new, z, b)
          PROVE  d.echoed = new /\ d.turns = ts /\ d \in Deltas
      BY <2>1, <2>5, <3>1, PageTyped
    <3>2. CASE d = Page(FALSE, ts, new, {}, FALSE)
      BY <2>5, <3>1, <3>2
    <3>3. CASE d = Page(TRUE, ts, new, {}, FALSE)
      BY <2>5, <3>1, <3>3
    <3>4. CASE d = Page(TRUE, ts, new, {}, TRUE)
      BY <2>5, <3>1, <3>4
    <3>5. CASE d = Page(TRUE, ts, new, ts, FALSE)
      BY <2>5, <3>1, <3>5
    <3> QED BY <2>4, <3>2, <3>3, <3>4, <3>5
  <2> QED BY <2>4, <2>6 DEF own
<1> DEFINE e == [type |-> "Delta", page |-> d]
           seen == d.echoed \cup d.turns
           r == Step(ctx, e)
<1>6. e.type = "Delta" /\ Tells(e, {}, seen)
  BY <1>5 DEF Tells
<1>7. Apply(e, Tail(todo))
  BY <1>3
<1>8. Named(Tail(todo)) = {} /\ Tail(todo) \in Seq(Items)
  BY <1>1, <1>2, TailLeft
<1>9. seen \cap Prompts \subseteq echoed' /\ d.echoed \subseteq seen
  BY <1>3, <1>5, TurnIdAssumption
<1> HIDE DEF e, seen
<1>10. r.acts = <<>> /\ r.ctx.pending \cap seen = {}
  BY <1>1, <1>6, StepHandled
<1>11. Leads(ctx, row, ctx', row', todo', Named(todo), seen) /\ ~Has(todo, Finals)
  <2>1. {} \subseteq Named(todo)
    OBVIOUS
  <2>2. ~Has(Step(ctx, e).acts, Asks) \/ Named(Tail(todo)) = {}
    BY <1>8
  <2> HIDE DEF r
  <2> QED BY <1>1, <1>2, <1>6, <1>7, <2>1, <2>2, AppliedTail
<1>12. ctx' = r.ctx /\ todo' = Tail(todo)
  <2>1. ctx' = r.ctx
    BY <1>7 DEF Apply
  <2>2. ~(\E i \in DOMAIN r.acts : r.acts[i].type = "UnbindTopic")
    BY <1>10
  <2>3. todo' = r.acts \o Tail(todo)
    BY <1>7, <2>2 DEF Apply
  <2>4. todo' = <<>> \o Tail(todo)
    BY <1>10, <2>3
  <2>5. \A s \in Seq(Items) : <<>> \o s = s
    OBVIOUS
  <2> QED BY <1>8, <2>1, <2>4, <2>5
<1>13. \A p \in Prompts : ledger'[p] = (IF p \in d.echoed /\ ledger[p].state \in Unsettled
                                       THEN [state |-> "witnessed", age |-> 0] ELSE ledger[p])
  BY <1>3 DEF Witness
<1>14. ledger' \in LedgerRows
  <2>1. [state |-> "witnessed", age |-> 0] \in [state: LedgerStates, age: Ages]
    BY Given DEF LedgerStates
  <2> DEFINE x == [state |-> "witnessed", age |-> 0]
  <2>2. ledger' = [p \in Prompts |-> IF p \in d.echoed /\ ledger[p].state \in Unsettled THEN x ELSE ledger[p]]
    BY <1>3 DEF Witness
  <2> HIDE DEF x
  <2> QED BY <1>1, <2>1, <2>2 DEF LedgerRows, x
<1>15. LedgerFollows
  <2> HIDE DEF r
  <2>1. \A p \in d.echoed : p \in echoed' /\ p \notin ctx'.pending /\ p \notin Named(todo')
    BY <1>3, <1>8, <1>9, <1>10, <1>12
  <2>2. ASSUME NEW p \in Prompts PROVE
           /\ ledger[p].state = "witnessed" => ledger'[p].state = "witnessed"
           /\ ledger'[p].state = "witnessed" => ledger[p].state = "witnessed" \/ p \in d.echoed
    BY <1>13
  <2> QED BY <2>1, <2>2 DEF LedgerFollows
<1>16. SetsTyped
  BY <1>1, <1>3, <1>5 DEF SetsTyped
<1>17. task' = "up"
  BY <1>1
<1> QED BY <1>1, <1>9, <1>11, <1>14, <1>15, <1>16, <1>17, LedOn

LEMMA AbandonSound == ASSUME PollerInv, Abandon PROVE Sound
<1>1. /\ task = "up" /\ todo # <<>> /\ task' = task /\ ctx' = ctx /\ row' = row
      /\ posting' = posting /\ conductor' = conductor /\ reposted' = reposted /\ todo[1].type = "AbandonPrompt"
  BY DEF Abandon, AtHead, Head1
<1>2. ctx \in Contexts /\ row \in Rows /\ todo \in Seq(Items) /\ Orderly(todo) /\ reposted \subseteq Prompts
  BY TypesAre
<1>3. PICK p \in todo[1].ids : MarkRow(p, "abandoned") /\ todo' = Without(p)
  BY DEF Abandon, Head1
<1>4. todo' = Lessened(todo, p)
  BY <1>3 DEF Without, Lessened, Head1
<1>5. todo[1].type \notin Asks \cup Finals
  BY <1>1 DEF Asks, Finals
<1>6. /\ todo' \in Seq(Items) /\ Orderly(todo') /\ Named(todo') \subseteq Named(todo)
      /\ (Has(todo', Finals) => Has(todo, Finals)) /\ p \in Prompts /\ p \in Named(todo)
  BY <1>1, <1>2, <1>4, <1>5, OneLess
<1>7. /\ ledger' \in LedgerRows /\ ledger'[p].state = "abandoned" /\ \A q \in Prompts \ {p} : ledger'[q] = ledger[q]
  <2>1. "abandoned" \in LedgerStates
    BY DEF LedgerStates
  <2> QED BY <1>3, <1>6, <2>1, Marked
<1>8. ledger[p].state # "witnessed"
  BY <1>6 DEF PollerInv, NeverNamed
<1>9. LedgerQuiet
  BY <1>7, <1>8 DEF LedgerQuiet
<1>10. SetsTyped
  BY <1>1, <1>2, SetsAsWere
<1>11. \A q \in Named(todo') : ledger'[q].state # "witnessed"
  BY <1>6, <1>7 DEF PollerInv, NeverNamed, Named
<1> QED BY <1>1, <1>2, <1>6, <1>7, <1>9, <1>10, <1>11, Quietly

\* The Telegram handler: nothing of the poller's own moves.
LEMMA HandlerQuietly ==
    ASSUME PollerInv, NEW p \in Prompts, UNCHANGED <<task, ctx, todo, reposted>>,
           posting' \subseteq Prompts, accepted' \subseteq Prompts, accepted \subseteq accepted', echoed' = echoed,
           row' = row \/ (Reopened /\ TellSession),
           \/ ledger' = ledger
           \/ /\ MarkRow(p, "pending") \/ MarkRow(p, "failed") \/ (MarkRow(p, "posted") /\ p \in posting)
              /\ ledger[p].state # "witnessed" \/ MarkRow(p, "posted")
    PROVE  Sound
<1>1. /\ ctx \in Contexts /\ row \in Rows /\ todo \in Seq(Items) /\ Orderly(todo) /\ reposted \subseteq Prompts
      /\ echoed \subseteq accepted /\ ledger \in LedgerRows
  BY TypesAre
<1>2. SetsTyped
  BY <1>1 DEF SetsTyped
<1>3. row' \in Rows /\ (Unseen(row'.ctx) => Unseen(row.ctx)) /\ (row'.ctx.state = row.ctx.state \/ Reopened)
  <2>1. CASE row' = row
    BY <1>1, <2>1
  <2>2. CASE Reopened /\ TellSession
    <3> DEFINE c == [row.ctx EXCEPT !.state = "QUEUED", !.start_witnessed = FALSE, !.consecutive_idle = 0]
    <3>1. row.ctx \in Contexts /\ row.bound \in BOOLEAN
      BY <1>1 DEF Rows
    <3>2. c \in Contexts /\ c.state = "QUEUED"
      BY <3>1, Given, StatesAre, ContextsAre
    <3>3. row' = [row EXCEPT !.ctx = c]
      BY <1>1, <2>2, <3>1, ContextsAre DEF TellSession, Rows
    <3> HIDE DEF c
    <3>4. row' \in Rows /\ row'.ctx = c
      BY <1>1, <3>2, <3>3 DEF Rows
    <3> QED BY <2>2, <3>2, <3>4 DEF Unseen, Counting
  <2> QED BY <2>1, <2>2
<1>4. ledger' \in LedgerRows /\ LedgerQuiet
  <2>1. CASE ledger' = ledger
    BY <2>1, LedgerAsWas
  <2>2. ASSUME NEW s \in {"pending", "failed", "posted"}, MarkRow(p, s),
               ledger[p].state # "witnessed" \/ (s = "posted" /\ p \in posting)
        PROVE  ledger' \in LedgerRows /\ LedgerQuiet
    <3>1. s \in LedgerStates
      BY DEF LedgerStates
    <3>2. ledger' \in LedgerRows /\ ledger'[p].state = s /\ \A q \in Prompts \ {p} : ledger'[q] = ledger[q]
      BY <2>2, <3>1, Marked
    <3> QED BY <2>2, <3>2 DEF LedgerQuiet
  <2>3. CASE MarkRow(p, "pending") /\ ledger[p].state # "witnessed"
    BY <2>2, <2>3
  <2>4. CASE MarkRow(p, "failed") /\ ledger[p].state # "witnessed"
    BY <2>2, <2>4
  <2>5. CASE MarkRow(p, "posted") /\ p \in posting
    BY <2>2, <2>5
  <2>6. ASSUME MarkRow(p, "posted"), ~(p \in posting), MarkRow(p, "pending") \/ MarkRow(p, "failed") PROVE FALSE
    <3>1. ledger'[p].state = "posted"
      <4>1. "posted" \in LedgerStates
        BY DEF LedgerStates
      <4> QED BY <2>6, <4>1, Marked
    <3>2. ASSUME NEW s \in {"pending", "failed"}, MarkRow(p, s) PROVE ledger'[p].state = s
      <4>1. s \in LedgerStates
        BY DEF LedgerStates
      <4> QED BY <3>2, <4>1, Marked
    <3> QED BY <2>6, <3>1, <3>2
  <2> QED BY <2>1, <2>3, <2>4, <2>5, <2>6
<1>5. \A q \in Named(todo') : ledger'[q].state # "witnessed"
  BY <1>4 DEF PollerInv, NeverNamed, Named, LedgerQuiet
<1>6. task # "up" => todo' = <<>>
  BY DEF PollerInv, Tidy
<1>7. Has(todo', Finals) => Has(todo, Finals) /\ ctx' = ctx /\ (row' = row \/ Reopened)
  OBVIOUS
<1> QED BY <1>1, <1>2, <1>3, <1>4, <1>5, <1>6, <1>7, Quietly

LEMMA HandlerSound == ASSUME PollerInv, NEW p \in Prompts, HandlerStep(p) PROVE Sound
<1>1. /\ posting \subseteq Prompts /\ accepted \subseteq Prompts /\ echoed \subseteq accepted
  BY TypesAre
<1>2. CASE SendPrompt(p)
  <2>1. /\ UNCHANGED <<task, ctx, todo, reposted>> /\ posting' = posting \cup {p} /\ conductor' = conductor
        /\ row' = row /\ MarkRow(p, "pending") /\ ledger[p].state # "witnessed"
    BY <1>2 DEF SendPrompt
  <2>2. posting' \subseteq Prompts /\ accepted' \subseteq Prompts /\ accepted \subseteq accepted' /\ echoed' = echoed
    BY <1>1, <2>1 DEF conductor
  <2> QED BY <2>1, <2>2, HandlerQuietly
<1>3. CASE HandlerPostLands(p)
  <2>1. /\ UNCHANGED <<task, ctx, todo, reposted>> /\ posting' = posting /\ accepted' = accepted \cup {p}
        /\ row' = row /\ ledger' = ledger /\ echoed' = echoed
    BY <1>3 DEF HandlerPostLands, durable
  <2>2. posting' \subseteq Prompts /\ accepted' \subseteq Prompts /\ accepted \subseteq accepted'
    BY <1>1, <2>1
  <2> QED BY <2>1, <2>2, HandlerQuietly
<1>4. CASE HandlerPosted(p)
  <2>1. /\ UNCHANGED <<task, ctx, todo, reposted>> /\ posting' = posting \ {p} /\ conductor' = conductor
        /\ TellSession /\ MarkRow(p, "posted") /\ p \in posting
    BY <1>4 DEF HandlerPosted
  <2>2. Reopened
    BY <1>4 DEF Reopened
  <2>3. posting' \subseteq Prompts /\ accepted' \subseteq Prompts /\ accepted \subseteq accepted' /\ echoed' = echoed
    BY <1>1, <2>1 DEF conductor
  <2> QED BY <2>1, <2>2, <2>3, HandlerQuietly
<1>5. CASE HandlerAmbiguous(p)
  <2>1. /\ UNCHANGED <<task, ctx, todo, reposted>> /\ posting' = posting \ {p} /\ conductor' = conductor
        /\ TellSession /\ ledger' = ledger
    BY <1>5 DEF HandlerAmbiguous
  <2>2. Reopened
    BY <1>5 DEF Reopened
  <2>3. posting' \subseteq Prompts /\ accepted' \subseteq Prompts /\ accepted \subseteq accepted' /\ echoed' = echoed
    BY <1>1, <2>1 DEF conductor
  <2> QED BY <2>1, <2>2, <2>3, HandlerQuietly
<1>6. CASE HandlerRefused(p)
  <2>1. /\ UNCHANGED <<task, ctx, todo, reposted>> /\ posting' = posting \ {p} /\ conductor' = conductor
        /\ row' = row /\ MarkRow(p, "failed") /\ p \notin accepted
    BY <1>6 DEF HandlerRefused
  <2>2. ledger[p].state # "witnessed"
    BY <1>1, <2>1 DEF PollerInv, NeverNamed
  <2>3. posting' \subseteq Prompts /\ accepted' \subseteq Prompts /\ accepted \subseteq accepted' /\ echoed' = echoed
    BY <1>1, <2>1 DEF conductor
  <2> QED BY <2>1, <2>2, <2>3, HandlerQuietly
<1> QED BY <1>2, <1>3, <1>4, <1>5, <1>6 DEF HandlerStep

LEMMA StandingSound == ASSUME PollerInv, UNCHANGED vars PROVE Sound
<1>1. /\ ctx \in Contexts /\ row \in Rows /\ todo \in Seq(Items) /\ Orderly(todo) /\ reposted \subseteq Prompts
  BY TypesAre
<1>2. /\ task' = task /\ ctx' = ctx /\ todo' = todo /\ reposted' = reposted /\ row' = row /\ ledger' = ledger
      /\ posting' = posting /\ conductor' = conductor
  BY DEF vars, durable
<1>3. SetsTyped /\ ledger' \in LedgerRows /\ LedgerQuiet
  BY <1>1, <1>2, SetsAsWere, LedgerAsWas
<1>4. \A q \in Named(todo') : ledger'[q].state # "witnessed"
  BY <1>2 DEF PollerInv, NeverNamed, Named
<1>5. task # "up" => todo' = <<>>
  BY <1>2 DEF PollerInv, Tidy
<1> QED BY <1>1, <1>2, <1>3, <1>4, <1>5, Quietly

LEMMA StepSound == ASSUME PollerInv, [Next]_vars PROVE Sound
<1>1. CASE PollerStep
  BY <1>1, BootSound, StartTickSound, AdoptSound, SkippedSound, RePostSound, ResetSound, DeltaSound, DrainQuietSound,
     PollStatusSound, StatusSound, WorkspaceSound, ConsumeSound, GoneSound, AckSound, AbandonSound, AnnounceSound,
     UnbindSound, SaveSound DEF PollerStep
<1>2. CASE \E p \in Prompts : HandlerStep(p)
  BY <1>2, HandlerSound
<1>3. CASE Spawn \/ ClockTick \/ PressStop \/ Crash \/ CrashInDrain
  BY <1>3, SpawnSound, ClockSound, StopSound, ResetSound
<1>4. CASE UNCHANGED vars
  BY <1>4, StandingSound
<1> QED BY <1>1, <1>2, <1>3, <1>4 DEF Next

\* Whatever the handlers, the crashes and Conductor do, the context, the row, the ledger and
\* the rest of the tick keep to their types, the rest of the tick is in order, and nothing
\* is left to do about a prompt the transcript has shown.
THEOREM PollerInvariant == Spec => []PollerInv
<1>1. PollerInv /\ [Next]_vars => PollerInv'
  BY StepSound DEF Sound
<1> QED BY <1>1, Started, PTL DEF Spec

\* Every context the machine returns, every row and every action are ones the code names.
THEOREM PollerTypes == Spec => []TypeOK
<1>1. PollerInv => TypeOK
  BY DEF PollerInv
<1> QED BY <1>1, PollerInvariant, PTL

\* An idle status counts towards the end of a turn only when the turn was seen to start, or
\* when a Stop went unconfirmed: in memory, in the row, and after any restart.
THEOREM IdleMeansNothingUnseen == Spec => IdleCountsOnlyOnceStarted
<1>1. PollerInv /\ [Next]_vars => StartedFirst
  BY StepSound DEF Sound
<1>2. []PollerInv /\ [][Next]_vars => [][StartedFirst]_vars
  BY <1>1, PTL
<1>3. [][StartedFirst]_vars => IdleCountsOnlyOnceStarted
  BY PTL DEF IdleCountsOnlyOnceStarted, StartedFirst
<1> QED BY <1>2, <1>3, PollerInvariant, PTL DEF Spec

\* Neither the drain check, nor a timer, nor the fallback without /status ends a turn while a
\* young prompt is unwitnessed or the agent was lately heard in an open turn.
THEOREM DoneMeansNothingRuns == Spec => DoneOnlyWhenNothingIsRunning
<1>1. PollerInv /\ [Next]_vars => DoneInTime
  BY StepSound DEF Sound
<1>2. []PollerInv /\ [][Next]_vars => [][DoneInTime]_vars
  BY <1>1, PTL
<1>3. [][DoneInTime]_vars => DoneOnlyWhenNothingIsRunning
  BY PTL DEF DoneOnlyWhenNothingIsRunning, DoneInTime
<1> QED BY <1>2, <1>3, PollerInvariant, PTL DEF Spec

\* A prompt leaves the context witnessed, given up in the ledger too, or with its session or
\* task: never by a handler that just drops it.
THEOREM NoPromptIsForgotten == Spec => PromptsAreNotForgotten
<1>1. PollerInv /\ [Next]_vars => NotForgotten
  BY StepSound DEF Sound
<1>2. []PollerInv /\ [][Next]_vars => [][NotForgotten]_vars
  BY <1>1, PTL
<1>3. [][NotForgotten]_vars => PromptsAreNotForgotten
  BY PTL DEF PromptsAreNotForgotten, NotForgotten
<1> QED BY <1>2, <1>3, PollerInvariant, PTL DEF Spec

\* No path of the poller, through any re-POST, adoption or crash, takes a witnessed prompt
\* out of that state; only its own Telegram handler, answered late, does.
THEOREM WitnessedStaysWitnessed == Spec => OnlyALateAnswerUnsettles
<1>1. PollerInv /\ [Next]_vars => StaysWitnessed
  BY StepSound DEF Sound
<1>2. []PollerInv /\ [][Next]_vars => [][StaysWitnessed]_vars
  BY <1>1, PTL
<1>3. [][StaysWitnessed]_vars => OnlyALateAnswerUnsettles
  BY PTL DEF OnlyALateAnswerUnsettles, StaysWitnessed
<1> QED BY <1>2, <1>3, PollerInvariant, PTL DEF Spec

-----------------------------------------------------------------------------
(* The finish line.                                                        *)
FinishInv ==
    /\ PollerInv
    /\ finish = "sent" => row.ctx.state = "IDLE" /\ (task = "up" => ctx.state = "IDLE")
    /\ Has(todo, Finals) => /\ task = "up" /\ ctx.state = "IDLE" /\ finish # "sent"
                            /\ finish = "due" => row.ctx.state = "IDLE"

\* At most one of the observer's branches applies to a step.
LEMMA OneBranch ==
    ASSUME PollerInv
    PROVE  ~(Reopened /\ TurnLeavesIdle) /\ ~(Reopened /\ Announce) /\ ~(TurnLeavesIdle /\ Announce)
<1>1. Announce => todo # <<>> /\ todo' = Tail(todo) /\ ctx' = ctx
  BY DEF Announce
<1>2. Reopened => todo' = todo /\ ctx' = ctx
  BY DEF Reopened, HandlerPosted, HandlerAmbiguous
<1>3. Announce => todo' # todo
  <2>1. todo \in Seq(Items) /\ Orderly(todo)
    BY TypesAre
  <2> QED BY <1>1, <2>1, TailLeft
<1>4. TurnLeavesIdle => ctx' # ctx
  BY DEF TurnLeavesIdle
<1> QED BY <1>1, <1>2, <1>3, <1>4

LEMMA Observed ==
    ASSUME PollerInv, Observe
    PROVE  /\ Reopened => finish' = "moot"
           /\ TurnLeavesIdle => finish' = "due"
           /\ Announce => finish' = (IF finish = "due" THEN "sent" ELSE finish)
           /\ ~Reopened /\ ~TurnLeavesIdle /\ ~Announce => finish' = finish
<1>1. ~(Reopened /\ TurnLeavesIdle) /\ ~(Reopened /\ Announce) /\ ~(TurnLeavesIdle /\ Announce)
  BY OneBranch
<1>2. finish' = CASE Reopened -> "moot" [] TurnLeavesIdle -> "due" [] Announce /\ finish = "due" -> "sent"
                  [] OTHER -> finish
  BY DEF Observe
<1> QED BY <1>1, <1>2

LEMMA Announced ==
    ASSUME PollerInv, Announce
    PROVE  /\ Has(todo, Finals) /\ ~Has(todo', Finals) /\ ctx' = ctx /\ row' = row /\ task' = task
<1>1. todo \in Seq(Items) /\ Orderly(todo) /\ todo # <<>> /\ todo' = Tail(todo) /\ todo[1].type \in Finals
  BY TypesAre DEF Announce, Head1, Finals
<1>2. todo[1].type # "AbandonPrompt"
  BY <1>1 DEF Finals
<1> QED BY <1>1, <1>2, TailLeft DEF Announce, durable

LEMMA FinishKept == ASSUME FinishInv, Next, Observe PROVE FinishInv'
<1>1. PollerInv /\ Sound
  BY StepSound DEF FinishInv
<1>2. PollerInv' /\ Ends
  BY <1>1 DEF Sound
<1>3. /\ Reopened => finish' = "moot"
      /\ TurnLeavesIdle => finish' = "due"
      /\ Announce => finish' = (IF finish = "due" THEN "sent" ELSE finish)
      /\ ~Reopened /\ ~TurnLeavesIdle /\ ~Announce => finish' = finish
  BY <1>1, Observed
<1>4. CASE Announce
  <2>1. Has(todo, Finals) /\ ~Has(todo', Finals) /\ ctx' = ctx /\ row' = row /\ task' = task
    BY <1>1, <1>4, Announced
  <2>2. finish' = "sent" => row'.ctx.state = "IDLE" /\ (task' = "up" => ctx'.state = "IDLE")
    BY <1>3, <1>4, <2>1 DEF FinishInv
  <2> QED BY <1>2, <2>1, <2>2 DEF FinishInv
<1>5. CASE ~Announce
  <2>1. finish' = "sent" => finish = "sent" /\ ~Reopened /\ ~TurnLeavesIdle
    BY <1>3, <1>5
  <2>2. ASSUME finish' = "sent" PROVE row'.ctx.state = "IDLE" /\ (task' = "up" => ctx'.state = "IDLE")
    <3>1. row.ctx.state = "IDLE" /\ (task = "up" => ctx.state = "IDLE") /\ ~Reopened /\ ~TurnLeavesIdle
      BY <2>1, <2>2 DEF FinishInv
    <3>2. task = "up" /\ task' = "up" => ctx'.state = "IDLE"
      BY <3>1 DEF TurnLeavesIdle
    <3> QED BY <1>2, <3>1, <3>2 DEF Ends
  <2>3. ASSUME Has(todo', Finals)
        PROVE  task' = "up" /\ ctx'.state = "IDLE" /\ finish' # "sent" /\ (finish' = "due" => row'.ctx.state = "IDLE")
    <3>1. CASE /\ ~Has(todo, Finals) /\ task = "up" /\ task' = "up"
               /\ ctx.state # "IDLE" /\ ctx'.state = "IDLE" /\ row'.ctx.state = "IDLE"
      BY <2>1, <3>1 DEF FinishInv
    <3>2. CASE Has(todo, Finals) /\ ctx' = ctx /\ task' = task /\ (row' = row \/ Reopened)
      <4>1. ~TurnLeavesIdle
        BY <3>2 DEF TurnLeavesIdle
      <4> QED BY <1>3, <1>5, <3>2, <4>1 DEF FinishInv
    <3> QED BY <1>2, <2>3, <3>1, <3>2 DEF Ends
  <2> QED BY <1>2, <2>2, <2>3 DEF FinishInv
<1> QED BY <1>4, <1>5

\* While a finish line is still in the tick the turn is over, in memory and in the row, and
\* once it is sent a restart finds the turn over.
THEOREM FinishInvariant == ObservedSpec => []FinishInv
<1>1. ObservedInit => FinishInv
  <2> SUFFICES ASSUME ObservedInit PROVE FinishInv
    OBVIOUS
  <2>1. PollerInv /\ finish = "due" /\ todo = <<>>
    BY Started DEF ObservedInit, Init
  <2> QED BY <2>1, NoneLeft DEF FinishInv
<1>2. FinishInv /\ [Next /\ Observe]_<<vars, finish>> => FinishInv'
  <2>1. CASE Next /\ Observe
    BY <2>1, FinishKept
  <2>2. ASSUME FinishInv, UNCHANGED <<vars, finish>> PROVE FinishInv'
    <3>1. PollerInv' /\ row' = row /\ ctx' = ctx /\ todo' = todo /\ task' = task /\ finish' = finish
      BY <2>2, StandingSound DEF Sound, FinishInv, vars, durable
    <3> QED BY <2>2, <3>1 DEF FinishInv
  <2> QED BY <2>1, <2>2
<1> QED BY <1>1, <1>2, PTL DEF ObservedSpec

\* One finish line for one turn, wherever the process dies: the save precedes the actions.
THEOREM FinishLineOnce == ObservedSpec => FinishAtMostOnce
<1>1. FinishInv /\ [Next /\ Observe]_<<vars, finish>> => (Announce => finish # "sent")
  <2> SUFFICES ASSUME FinishInv, Announce PROVE finish # "sent"
    OBVIOUS
  <2>1. Has(todo, Finals)
    BY Announced DEF FinishInv
  <2> QED BY <2>1 DEF FinishInv
<1>2. []FinishInv /\ [][Next /\ Observe]_<<vars, finish>> => [][Announce => finish # "sent"]_<<vars, finish>>
  BY <1>1, PTL
<1>3. [][Announce => finish # "sent"]_<<vars, finish>> => FinishAtMostOnce
  BY PTL DEF FinishAtMostOnce
<1> QED BY <1>2, <1>3, FinishInvariant, PTL DEF ObservedSpec
=============================================================================
