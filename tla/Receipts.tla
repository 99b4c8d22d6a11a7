------------------------------ MODULE Receipts ------------------------------
(***************************************************************************)
(* What the chat hears when a turn ends (bot/actions.py).  The machine may *)
(* conclude that a turn is over more than once; the poller hands each      *)
(* Finalize to BotActionSink, which queues a receipt, or edits the one     *)
(* already shown, and posts the pull request's link.  Both are deliveries  *)
(* rows that the outbox, another task, may claim at any time.              *)
(***************************************************************************)
EXTENDS Naturals, FiniteSetsExt

CONSTANTS
    MaxPrompts,    \* prompts sent to the session, all of this bot's
    MaxFinals,     \* Finalize actions, numbered; the number is the receipt's text
    MaxMishaps     \* deaths of the process

ReceiptsAssumption == {MaxPrompts, MaxFinals} \subseteq Nat \ {0} /\ MaxMishaps \in Nat

Prompts == 1 .. MaxPrompts
Keys == 1 .. MaxPrompts + MaxFinals
Link == 0                        \* the link's row beside the receipts'

VARIABLES
    prompt,        \* last_prompt_at of the session
    finals,        \* Finalize actions so far
    muted,         \* /notify off
    sink,          \* [pc, key, prompt]: the poller in handle
    row,           \* deliveries by key: [state, text, prompt]
    screen,        \* the text each row's message shows, 0 for none
    rings,         \* messages the chat received, by row
    mishaps

vars == <<prompt, finals, muted, sink, row, screen, rings, mishaps>>

Rows == {Link} \cup Keys
Idle == [pc |-> "idle", key |-> Link, prompt |-> 0]
At(pc) == sink.pc = pc
To(pc) == sink' = [sink EXCEPT !.pc = pc]
Enqueued(k) == row[k].state # "none"
Queue(k) == row' = [row EXCEPT ![k] = [state |-> "pending", text |-> finals, prompt |-> sink.prompt]]

\* finish_key: the prompt the session was last given.
FinishKey == prompt

Ask ==
    /\ prompt < MaxPrompts /\ prompt' = prompt + 1
    /\ UNCHANGED <<finals, muted, sink, row, screen, rings, mishaps>>

\* handle: the turn is over, as far as the machine can tell.
Finalize ==
    /\ At("idle") /\ prompt > 0 /\ finals < MaxFinals
    /\ finals' = finals + 1 /\ sink' = [Idle EXCEPT !.pc = "read"]
    /\ UNCHANGED <<prompt, muted, row, screen, rings, mishaps>>

\* _announce_finish: the session and the chat are read.
ReadSeat ==
    /\ At("read")
    /\ sink' = IF muted THEN [sink EXCEPT !.pc = "link"] ELSE [pc |-> "announce", key |-> FinishKey, prompt |-> prompt]
    /\ UNCHANGED <<prompt, finals, muted, row, screen, rings, mishaps>>

\* enqueue_notice: ON CONFLICT DO NOTHING.
Announce ==
    /\ At("announce")
    /\ IF Enqueued(sink.key) THEN To("revise") /\ UNCHANGED row ELSE Queue(sink.key) /\ To("link")
    /\ UNCHANGED <<prompt, finals, muted, screen, rings, mishaps>>

\* Mutant: the correction is a new message.
ReviseAloud ==
    /\ At("revise") /\ To("link")
    /\ rings' = [rings EXCEPT ![sink.key] = @ + 1] /\ screen' = [screen EXCEPT ![sink.key] = finals]
    /\ UNCHANGED <<prompt, finals, muted, row, mishaps>>

\* _revise_finish: a receipt that has landed is edited; the edit may fail.
Revise ==
    /\ At("revise") /\ To("link")
    /\ \/ row[sink.key].state = "sent" /\ screen' = [screen EXCEPT ![sink.key] = finals]
       \/ UNCHANGED screen
    /\ UNCHANGED <<prompt, finals, muted, row, rings, mishaps>>

(***************************************************************************)
(* _share_review_pr: sent at once, then queued, then marked as sent.       *)
(***************************************************************************)
NoLink ==
    /\ At("link") /\ sink' = Idle      \* no link found, or its row is there, or refused
    /\ UNCHANGED <<prompt, finals, muted, row, screen, rings, mishaps>>

SendLink ==
    /\ At("link") /\ ~Enqueued(Link) /\ To("queueLink")
    /\ rings' = [rings EXCEPT ![Link] = @ + 1]
    /\ UNCHANGED <<prompt, finals, muted, row, screen, mishaps>>

QueueLink ==
    /\ At("queueLink") /\ Queue(Link) /\ To("markLink")
    /\ UNCHANGED <<prompt, finals, muted, screen, rings, mishaps>>

MarkLink ==
    /\ At("markLink") /\ row' = [row EXCEPT ![Link].state = "sent"] /\ sink' = Idle
    /\ UNCHANGED <<prompt, finals, muted, screen, rings, mishaps>>

(***************************************************************************)
(* The outbox, in three steps; Outbox has the whole of it.                 *)
(***************************************************************************)
Claim(k) == row[k].state = "pending" /\ row' = [row EXCEPT ![k].state = "sending"] /\ UNCHANGED <<screen, rings>>
Land(k) ==
    /\ row[k].state = "sending" /\ row' = [row EXCEPT ![k].state = "landed"]
    /\ screen' = [screen EXCEPT ![k] = row[k].text] /\ rings' = [rings EXCEPT ![k] = @ + 1]
Mark(k) == row[k].state = "landed" /\ row' = [row EXCEPT ![k].state = "sent"] /\ UNCHANGED <<screen, rings>>

Deliver ==
    /\ \E k \in Rows : Claim(k) \/ Land(k) \/ Mark(k)
    /\ UNCHANGED <<prompt, finals, muted, sink, mishaps>>

\* The process dies; what was being sent is put back.
Crash ==
    /\ mishaps < MaxMishaps /\ mishaps' = mishaps + 1
    /\ sink' = Idle
    /\ row' = [k \in Rows |-> [row[k] EXCEPT !.state = IF @ \in {"sending", "landed"} THEN "pending" ELSE @]]
    /\ UNCHANGED <<prompt, finals, muted, screen, rings>>

Mute ==
    /\ muted' = ~muted
    /\ UNCHANGED <<prompt, finals, sink, row, screen, rings, mishaps>>

Init ==
    /\ prompt = 0 /\ finals = 0 /\ muted = FALSE /\ sink = Idle
    /\ row = [k \in Rows |-> [state |-> "none", text |-> 0, prompt |-> 0]]
    /\ screen = [k \in Rows |-> 0] /\ rings = [k \in Rows |-> 0]
    /\ mishaps = 0

Handle ==
    \/ Finalize \/ ReadSeat \/ Announce \/ Revise \/ NoLink \/ SendLink \/ QueueLink \/ MarkLink

Next == Ask \/ Handle \/ Deliver \/ Crash \/ Mute

Spec == Init /\ [][Next]_vars

(***************************************************************************)
(* Properties.                                                             *)
(***************************************************************************)
(* Types.                                                                  *)
TypeOK ==
    /\ prompt \in 0 .. MaxPrompts /\ finals \in 0 .. MaxFinals /\ muted \in BOOLEAN /\ mishaps \in 0 .. MaxMishaps
    /\ sink \in [pc : {"idle", "read", "announce", "revise", "link", "queueLink", "markLink"}, key : Rows,
                 prompt : 0 .. MaxPrompts]
    /\ row \in [Rows -> [state : {"none", "pending", "sending", "landed", "sent"}, text : 0 .. MaxFinals,
                         prompt : 0 .. MaxPrompts]]
    /\ screen \in [Rows -> 0 .. MaxFinals] /\ rings \in [Rows -> Nat]

(* However often the machine concludes that a turn is over, the phone      *)
(* rings once for a prompt; a death between a message and its mark is the  *)
(* only reason to ring again (finish_key, _announce_finish).               *)
OneBuzzPerPrompt ==
    \A p \in Prompts : MapThenSumSet(LAMBDA k : rings[k], {k \in Keys : row[k].prompt = p}) <= 1 + mishaps

(* A correction stands: no message sent again after a death puts a receipt *)
(* back to what an earlier conclusion said (_revise_finish).               *)
CorrectionsStand == [][\A k \in Keys : screen'[k] >= screen[k]]_vars
=============================================================================
