----------------------------- MODULE StatusCard -----------------------------
(***************************************************************************)
(* The one message of a topic that says what its session is doing          *)
(* (delivery/status_card.py).  Two tasks write it, the poller with the     *)
(* machine's actions and a ticker once a second, over state that lives in  *)
(* memory; only the message's id is durable, in the session's row, where   *)
(* the machine's own context writes it too.  A card that is not finished   *)
(* carries Stop.                                                           *)
(***************************************************************************)
EXTENDS Naturals, FiniteSets

CONSTANTS
    MaxTurns,      \* prompts the session is given
    MaxPosts,      \* messages, numbered as they are sent
    MaxMishaps,    \* deaths of the process, lost calls, cards a person deletes
    MaxThrottles,  \* 429s
    ForgetExcused  \* excuse a context saved without its card before the row was read

StatusCardAssumption ==
    /\ {MaxTurns, MaxPosts} \subseteq Nat \ {0}
    /\ {MaxMishaps, MaxThrottles} \subseteq Nat /\ ForgetExcused \in BOOLEAN

VARIABLES
    turn,          \* the machine's context: [phase, card], card 0 for none
    turns,         \* prompts given
    row,           \* sessions.status_card_msg_id
    batch,         \* the action the poller hands over, or Absent
    card,          \* the _Card in memory, or Absent
    adopted,       \* the row's id has been looked up in this process
    at,            \* where each task is in its send: [pc, id]
    screen,        \* the kind each message shows
    mishaps,
    throttles,
    excuses        \* mishaps nothing could make good

vars == <<turn, turns, row, batch, card, adopted, at, screen, mishaps, throttles, excuses>>

Tasks == {"poller", "ticker"}
Messages == 1 .. MaxPosts
Terminal == {"done", "dead"}
Kinds == {"waking", "queued", "working"} \cup Terminal
Absent == [op |-> "none"]
Free == [pc |-> "free", id |-> 0]

Present == card # Absent
At(t, pc) == at[t].pc = pc
To(t, pc) == at' = [at EXCEPT ![t].pc = pc]
Stops == {m \in Messages : screen[m] \in Kinds \ Terminal}
Unposted == {m \in Messages : screen[m] = "none"}
Excuse == excuses' = excuses + 1

\* _lock_for: one lock per topic.
LockFree == \A t \in Tasks : At(t, "free")

\* _Card: the fields the writers decide by.
Blank(id) == [kind |-> "queued", id |-> id, dirty |-> TRUE, known |-> TRUE, retire |-> FALSE,
              shown |-> "none", held |-> FALSE]

\* _card: the topic's card, made when it has none.
CardFor(c) == IF c = Absent THEN Blank(0) ELSE c

----------------------------------------------------------------------------
(* The machine (turn/machine.py): a step is saved with the context's card   *)
(* id, and only then handed over.                                           *)

\* _Tick.card: post if this turn has no card yet, edit it otherwise.
Say(kind, id) == [op |-> IF id = 0 THEN "post" ELSE "edit", kind |-> kind]

\* The one copy of the last process's id is overwritten before this process read it.
Forgets(saved) == ~adopted /\ row # 0 /\ saved = 0

Step(phase, id, saved) ==
    /\ batch = Absent /\ At("poller", "free")
    /\ turn' = [phase |-> phase, card |-> saved] /\ row' = saved
    /\ batch' = Say(phase, id)
    /\ IF ForgetExcused /\ Forgets(saved) THEN Excuse ELSE UNCHANGED excuses
    /\ UNCHANGED <<card, adopted, at, screen, mishaps, throttles>>

Wake == turn.phase = "done" /\ turns < MaxTurns /\ Step("waking", turn.card, turn.card) /\ UNCHANGED turns

\* begin_turn: a new turn has no card.
Prompt ==
    /\ turn.phase \in {"done", "waking"} /\ turns < MaxTurns
    /\ turns' = turns + 1 /\ Step("queued", 0, 0)

Witness == turn.phase = "queued" /\ Step("working", turn.card, turn.card) /\ UNCHANGED turns

\* _finalize: the last face, Finalize, and a context without a card.
Conclude == turn.phase = "working" /\ Step("done", turn.card, 0) /\ UNCHANGED turns

Die == turn.phase \in {"queued", "working"} /\ Step("dead", turn.card, turn.card) /\ UNCHANGED turns

\* A poll whose evidence changes nothing on the card; its activity line may.
Poll ==
    /\ batch = Absent /\ At("poller", "free") /\ turn.phase \notin Terminal
    /\ row' = turn.card
    /\ batch' \in {Absent, [op |-> "activity", kind |-> turn.phase]}
    /\ <<row', batch'>> # <<row, batch>>
    /\ IF ForgetExcused /\ row \notin {0, turn.card} THEN Excuse ELSE UNCHANGED excuses
    /\ UNCHANGED <<turn, turns, card, adopted, at, screen, mishaps, throttles>>

----------------------------------------------------------------------------
(* handle: the batch, under the topic's lock.                              *)

\* Mutant: memory is all there is.
AdoptNever == IF Present THEN card ELSE Absent

\* _adopt_once: the card a previous process left, not to be drawn until the machine spoke.
Adopt == IF Present \/ adopted \/ row = 0 THEN card ELSE [Blank(row) EXCEPT !.known = FALSE]

\* A PostStatusCard over a card that never finished: its message goes first.
Supersedes(c) == batch.op = "post" /\ c # Absent /\ c.id # 0 /\ c.kind \notin Terminal

\* _apply, on the card at hand.
Applied(c) ==
    LET base == CardFor(c) IN
    CASE batch.op = "post" ->
           [base EXCEPT !.id = 0, !.kind = batch.kind, !.dirty = TRUE, !.known = TRUE, !.retire = FALSE]
      [] batch.op = "edit" -> [base EXCEPT !.kind = batch.kind, !.dirty = TRUE, !.known = TRUE]
      [] OTHER -> IF c = Absent THEN Absent ELSE [c EXCEPT !.dirty = TRUE]

\* The batch's own end: Finalize, or DEAD, retires the card once it is clean.
Marked(c) == IF c = Absent THEN Absent ELSE [c EXCEPT !.retire = @ \/ batch.kind \in Terminal]

Enter ==
    /\ batch # Absent /\ At("poller", "free") /\ LockFree
    /\ adopted' = TRUE /\ card' = Adopt
    /\ To("poller", IF Supersedes(card') THEN "supersede" ELSE "apply")
    /\ UNCHANGED <<turn, turns, row, batch, screen, mishaps, throttles, excuses>>

\* _supersede: delete it.
Supersede ==
    /\ At("poller", "supersede") /\ To("poller", "apply")
    /\ screen' = [screen EXCEPT ![card.id] = "gone"]
    /\ UNCHANGED <<turn, turns, row, batch, card, adopted, mishaps, throttles, excuses>>

\* The delete is refused: strip the keyboard, if this process knows the text.
SupersedeRefused ==
    /\ At("poller", "supersede") /\ To("poller", "apply") /\ mishaps < MaxMishaps
    /\ mishaps' = mishaps + 1
    /\ \/ card.shown # "none" /\ screen' = [screen EXCEPT ![card.id] = "gone"] /\ UNCHANGED excuses
       \/ UNCHANGED screen /\ Excuse
    /\ UNCHANGED <<turn, turns, row, batch, card, adopted, throttles>>

Apply ==
    /\ At("poller", "apply")
    /\ card' = Marked(Applied(card))
    /\ To("poller", IF card' = Absent THEN "sync" ELSE "flush")
    /\ UNCHANGED <<turn, turns, row, batch, adopted, screen, mishaps, throttles, excuses>>

\* tick: a live card is drawn again; a locked topic is left for the next second.
Live == {"working"}
Tick ==
    /\ Present /\ At("ticker", "free") /\ LockFree
    /\ card' = [card EXCEPT !.dirty = @ \/ card.kind \in Live]
    /\ card'.dirty \/ card'.retire
    /\ To("ticker", "flush")
    /\ UNCHANGED <<turn, turns, row, batch, adopted, screen, mishaps, throttles, excuses>>

----------------------------------------------------------------------------
(* _flush, _post and _edit.                                                *)

Due == card.dirty /\ card.known /\ ~card.held
Unchanged == card.id # 0 /\ card.shown = card.kind

\* Nothing to do, or not yet: unknown, suppressed, unchanged, or inside the floor.
Skip(t) ==
    /\ At(t, "flush")
    /\ \/ ~Due /\ UNCHANGED card
       \/ Due /\ Unchanged /\ card' = [card EXCEPT !.dirty = FALSE]
       \/ Due /\ ~Unchanged /\ card.id # 0 /\ card.kind \notin Terminal /\ ~card.retire /\ UNCHANGED card
    /\ To(t, "retire")
    /\ UNCHANGED <<turn, turns, row, batch, adopted, screen, mishaps, throttles, excuses>>

Calling(t) == At(t, "flush") /\ Due /\ ~Unchanged
Drawn(id) == [card EXCEPT !.id = id, !.shown = card.kind, !.dirty = FALSE]

\* The message is in the chat before its id is in the process.
Post(t) ==
    /\ Calling(t) /\ card.id = 0
    /\ \E m \in Unposted :
         /\ \A n \in Unposted : m <= n
         /\ screen' = [screen EXCEPT ![m] = card.kind]
         /\ at' = [at EXCEPT ![t] = [pc |-> "fetch", id |-> m]]
    /\ UNCHANGED <<turn, turns, row, batch, card, adopted, mishaps, throttles, excuses>>

\* sendMessage returns; the id is kept, then saved.
Posted(t) ==
    /\ At(t, "fetch")
    /\ card' = Drawn(at[t].id) /\ To(t, "persist")
    /\ UNCHANGED <<turn, turns, row, batch, adopted, screen, mishaps, throttles, excuses>>

Persist(t) ==
    /\ At(t, "persist")
    /\ row' = at[t].id /\ To(t, "retire")
    /\ UNCHANGED <<turn, turns, batch, card, adopted, screen, mishaps, throttles, excuses>>

\* An edit lands, or finds the message gone and leaves the card to be posted again.
Edit(t) ==
    /\ Calling(t) /\ card.id # 0
    /\ IF screen[card.id] = "gone"
       THEN card' = [card EXCEPT !.id = 0] /\ UNCHANGED screen
       ELSE card' = Drawn(card.id) /\ screen' = [screen EXCEPT ![card.id] = card.kind]
    /\ To(t, "retire")
    /\ UNCHANGED <<turn, turns, row, batch, adopted, mishaps, throttles, excuses>>

\* _back_off: a 429 keeps the card dirty.
Throttled(t) ==
    /\ Calling(t) /\ throttles < MaxThrottles
    /\ throttles' = throttles + 1
    /\ card' = [card EXCEPT !.held = TRUE] /\ To(t, "retire")
    /\ UNCHANGED <<turn, turns, row, batch, adopted, screen, mishaps, excuses>>

Calm ==
    /\ Present /\ card.held
    /\ card' = [card EXCEPT !.held = FALSE]
    /\ UNCHANGED <<turn, turns, row, batch, adopted, at, screen, mishaps, throttles, excuses>>

\* _fail: any other error; the call may have landed all the same.
Failed(t) ==
    /\ Calling(t) /\ mishaps < MaxMishaps
    /\ mishaps' = mishaps + 1 /\ Excuse
    /\ card' = [card EXCEPT !.dirty = FALSE] /\ To(t, "retire")
    /\ \/ UNCHANGED screen
       \/ card.id = 0 /\ \E m \in Unposted : (\A n \in Unposted : m <= n) /\ screen' = [screen EXCEPT ![m] = card.kind]
    /\ UNCHANGED <<turn, turns, row, batch, adopted, throttles>>

\* Mutant: a finished card is dropped whether or not it landed.
RetiresAtOnce == card.retire

\* _maybe_retire: a dirty card is kept for the next tick.
Retires == card.retire /\ ~card.dirty

Retire(t) ==
    /\ At(t, "retire")
    /\ IF Retires THEN card' = Absent /\ row' = 0 ELSE UNCHANGED <<card, row>>
    /\ at' = [at EXCEPT ![t] = IF t = "poller" THEN [Free EXCEPT !.pc = "sync"] ELSE Free]
    /\ UNCHANGED <<turn, turns, batch, adopted, screen, mishaps, throttles, excuses>>

\* _sync_status_card_id, once the lock is released: the context takes the row's id.
Sync ==
    /\ At("poller", "sync")
    /\ turn' = [turn EXCEPT !.card = row] /\ batch' = Absent /\ at' = [at EXCEPT !["poller"] = Free]
    /\ UNCHANGED <<turns, row, card, adopted, screen, mishaps, throttles, excuses>>

----------------------------------------------------------------------------
\* A death nothing can make good: the card was being written.
Struck == batch # Absent \/ ~LockFree \/ (Present /\ card.dirty)

\* The process dies and the next one reads the row.
Restart ==
    /\ mishaps < MaxMishaps /\ mishaps' = mishaps + 1
    /\ IF Struck THEN Excuse ELSE UNCHANGED excuses
    /\ card' = Absent /\ adopted' = FALSE /\ batch' = Absent
    /\ at' = [t \in Tasks |-> Free] /\ turn' = [turn EXCEPT !.card = row]
    /\ UNCHANGED <<turns, row, screen, throttles>>

Deleted ==
    /\ mishaps < MaxMishaps /\ mishaps' = mishaps + 1 /\ Excuse
    /\ \E m \in Messages : screen[m] \in Kinds /\ screen' = [screen EXCEPT ![m] = "gone"]
    /\ UNCHANGED <<turn, turns, row, batch, card, adopted, at, throttles>>

Init ==
    /\ turn = [phase |-> "done", card |-> 0] /\ turns = 0 /\ row = 0
    /\ batch = Absent /\ card = Absent /\ adopted = FALSE
    /\ at = [t \in Tasks |-> Free] /\ screen = [m \in Messages |-> "none"]
    /\ mishaps = 0 /\ throttles = 0 /\ excuses = 0

Machine == Wake \/ Prompt \/ Witness \/ Conclude \/ Die \/ Poll
Flush(t) == Skip(t) \/ Post(t) \/ Posted(t) \/ Persist(t) \/ Edit(t) \/ Retire(t)
Handle == Enter \/ Supersede \/ Apply \/ Sync \/ Flush("poller")
Ticker == Tick \/ Flush("ticker")
Trouble == SupersedeRefused \/ (\E t \in Tasks : Throttled(t) \/ Failed(t)) \/ Restart \/ Deleted

Next == Machine \/ Handle \/ Ticker \/ Calm \/ Trouble

Spec == Init /\ [][Next]_vars

----------------------------------------------------------------------------
(* Properties.                                                             *)

\* Types.
TypeOK ==
    /\ turn \in [phase : Kinds, card : {0} \cup Messages] /\ turns \in 0 .. MaxTurns
    /\ row \in {0} \cup Messages
    /\ batch \in {Absent} \cup [op : {"post", "edit", "activity"}, kind : Kinds]
    /\ card \in {Absent} \cup [kind : Kinds, id : {0} \cup Messages, dirty : BOOLEAN, known : BOOLEAN,
                             retire : BOOLEAN, shown : Kinds \cup {"none"}, held : BOOLEAN]
    /\ adopted \in BOOLEAN
    /\ at \in [Tasks -> [pc : {"free", "supersede", "apply", "flush", "fetch", "persist", "retire", "sync"},
                         id : {0} \cup Messages]]
    /\ screen \in [Messages -> Kinds \cup {"none", "gone"}]
    /\ mishaps \in 0 .. MaxMishaps /\ throttles \in 0 .. MaxThrottles /\ excuses \in Nat

\* One topic, one Stop: a message that still carries Stop and is not the card's is
\* paid for by a call that failed, a 429, or a death while the card was being written.
OneStopPerTopic == Cardinality(Stops) <= 1 + excuses + throttles

\* What a message is made to say is what the machine last said: a restarted process
\* that so far knows an activity line draws nothing from its defaults.
TheFaceIsTheMachines ==
    [][(batch = Absent \/ batch.op = "activity")
         => \A m \in Messages : screen'[m] \in Kinds \ {screen[m]} => screen'[m] = turn.phase]_vars

\* A finished card leaves the memory only when its message carries no Stop: a turn that
\* ended in a 429 keeps the card, so that a later tick takes the Stop away
\* (_maybe_retire), unless a call was lost or the process died.  A card that a wake gave
\* a living face after it was marked is not finished: _apply does not take the mark away.
NoStopIsLetGo ==
    [][(Present /\ card' = Absent /\ mishaps' = 0 /\ card.kind \in Terminal) => card.id \notin Stops]_vars
=============================================================================
