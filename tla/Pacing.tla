------------------------------- MODULE Pacing -------------------------------
(***************************************************************************)
(* Who is served next: the outbox's pass over the destinations that have   *)
(* rows, under a hold while a turn runs, a budget per chat, the pauses     *)
(* Telegram's 429s ask for and the rotor that remembers who was served.    *)
(* Outbox models what becomes of a row; here rows of one destination are   *)
(* counted.  The budget shared by all chats is a wait of any length, and   *)
(* there are fewer destinations than one query's LIMIT, and chats than     *)
(* _MAX_CHATS.                                                             *)
(***************************************************************************)
EXTENDS Integers, FiniteSets

CONSTANTS
    Destinations,   \* topics with rows to send
    Chats,          \* and the chats they are in
    ChatOf,         \* a destination's chat
    Backlog,        \* rows a destination may have waiting
    Throttled,      \* chats Telegram may answer 429 in
    Carded,         \* of them, those with a live status card
    Narrating,      \* destinations whose session is mid-turn, as long as we look
    Urgent,         \* destinations with an error or in the person's focus
    Nowhere,        \* no destination
    BatchSize,      \* CLAIM_BATCH
    Burst,          \* CHAT_BURST
    Pauses,         \* what retry_after may ask for, in ticks
    GlobalChats,    \* _GLOBAL_429_CHATS
    GlobalWindow    \* _GLOBAL_429_WINDOW_S, in ticks

PacingAssumption ==
    /\ IsFiniteSet(Destinations)
    /\ ChatOf \in [Destinations -> Chats] /\ Backlog \in [Destinations -> Nat]
    /\ Carded \subseteq Throttled /\ Throttled \subseteq Chats
    /\ Narrating \cup Urgent \subseteq Destinations /\ Nowhere \notin Destinations
    /\ Pauses \subseteq Nat \ {0} /\ {BatchSize, Burst, GlobalChats, GlobalWindow} \subseteq Nat \ {0}

VARIABLES
    rows,       \* pending and claimed rows per destination
    aged,       \* destinations whose oldest row has waited MAX_HOLD_MS
    rotor,      \* the order the destinations were last served in; 0 for those that never were
    tokens,     \* the budget of each chat
    paused,     \* ticks until the chat may send again
    recent,     \* chats that answered 429, and the ticks until that is forgotten
    stopped,    \* ticks until anybody may send
    worker,     \* the outbox's task
    late        \* rows begun in a chat since its present pause began

rowVars == <<rows, aged>>
pacerVars == <<tokens, paused, recent, stopped>>
vars == <<rowVars, pacerVars, rotor, worker, late>>

Idle == [pc |-> "idle", todo |-> {}, first |-> Nowhere, at |-> Nowhere, left |-> 0]
Here == ChatOf[worker.at]
Less(n) == IF n = 0 THEN 0 ELSE n - 1
Larger(m, n) == IF m < n THEN n ELSE m
-----------------------------------------------------------------------------
(***************************************************************************)
(* The pacer.                                                              *)
(***************************************************************************)
ChatReady(c) == paused[c] = 0 /\ tokens[c] > 0

(* pause_chat, and _note_429's escalation: several chats at once are taken *)
(* for the token's own limit.                                              *)
PauseChat(c, n) ==
    LET noted == [recent EXCEPT ![c] = GlobalWindow]
        many == Cardinality({b \in Chats : noted[b] > 0}) >= GlobalChats
    IN  /\ paused' = [paused EXCEPT ![c] = Larger(@, n)]
        /\ tokens' = [tokens EXCEPT ![c] = 0]
        /\ recent' = IF many THEN [b \in Chats |-> 0] ELSE noted
        /\ stopped' = IF many THEN Larger(stopped, GlobalWindow) ELSE stopped

(* Mutant: the rotor forgets whom it served. *)
ServedUnnoted(d) == rotor

(* d is now the last that was served. *)
Served(d) ==
    [e \in Destinations |-> IF e = d THEN Cardinality(Destinations)
                            ELSE IF rotor[e] > rotor[d] THEN rotor[e] - 1 ELSE rotor[e]]

(* order: the most urgent first, then the least recently served; of those  *)
(* that never were, any.                                                   *)
Before(d, e) == IF (d \in Urgent) = (e \in Urgent) THEN rotor[d] <= rotor[e] ELSE d \in Urgent

Foremost(S) == {d \in S : \A e \in S : Before(d, e)}

(* Time: budgets are refilled and pauses run out. *)
Tick ==
    /\ tokens' = [c \in Chats |-> IF tokens[c] < Burst THEN tokens[c] + 1 ELSE Burst]
    /\ paused' = [c \in Chats |-> Less(paused[c])]
    /\ recent' = [c \in Chats |-> Less(recent[c])]
    /\ stopped' = Less(stopped)
    /\ late' = [c \in Chats |-> IF paused[c] <= 1 THEN 0 ELSE late[c]]
    /\ UNCHANGED <<rowVars, rotor, worker>>

(* The status card's edit is refused: _back_off tells the pacer. *)
CardRefused(c) ==
    /\ \E n \in Pauses : PauseChat(c, n)
    /\ UNCHANGED <<rowVars, rotor, worker, late>>
-----------------------------------------------------------------------------
(***************************************************************************)
(* Rows and turns.                                                         *)
(***************************************************************************)
Enqueue(d) ==
    /\ rows[d] < Backlog[d] /\ rows' = [rows EXCEPT ![d] = @ + 1]
    /\ UNCHANGED <<aged, pacerVars, rotor, worker, late>>

HeadAges(d) ==
    /\ rows[d] > 0 /\ d \notin aged /\ aged' = aged \cup {d}
    /\ UNCHANGED <<rows, pacerVars, rotor, worker, late>>

(* held_destinations: a running turn's rows wait, but not for ever. *)
Held == Narrating \ aged

Sendable == {d \in Destinations \ Held : rows[d] > 0}
-----------------------------------------------------------------------------
(***************************************************************************)
(* run_once: one pass.                                                     *)
(***************************************************************************)
Pass ==
    /\ worker.pc = "idle" /\ stopped = 0 /\ Sendable # {}
    /\ \E first \in Foremost(Sendable) :
          worker' = [Idle EXCEPT !.pc = "serve", !.todo = Sendable, !.first = first]
    /\ UNCHANGED <<rowVars, pacerVars, rotor, late>>

(* claim, up to a batch, and the rotor's note of it. *)
Claim(d, rest) ==
    /\ worker' = [Idle EXCEPT !.pc = "check", !.todo = rest, !.at = d,
                              !.left = IF rows[d] < BatchSize THEN rows[d] ELSE BatchSize]
    /\ rotor' = Served(d)
    /\ UNCHANGED <<rowVars, pacerVars, late>>

Serve ==
    /\ worker.pc = "serve" /\ stopped = 0
    /\ \E d \in Foremost(worker.todo) :
          IF ChatReady(ChatOf[d]) THEN Claim(d, worker.todo \ {d})
          ELSE worker' = [worker EXCEPT !.todo = @ \ {d}] /\ UNCHANGED <<rowVars, pacerVars, rotor, late>>

(* Nobody was ready: the first of them is served at its own rate, unless   *)
(* it is paused.                                                           *)
PassEnds ==
    /\ worker.pc = "serve" /\ (stopped > 0 \/ worker.todo = {})
    /\ IF worker.first # Nowhere /\ paused[ChatOf[worker.first]] = 0
       THEN Claim(worker.first, {})
       ELSE worker' = Idle /\ UNCHANGED <<rowVars, pacerVars, rotor, late>>

(***************************************************************************)
(* _drain: the batch, in order, until told to stop.                        *)
(***************************************************************************)
Onward == [worker EXCEPT !.pc = "serve", !.at = Nowhere, !.left = 0]

(* Mutant: the pauses are looked at before the batch only. *)
CheckOnceOnly ==
    /\ worker.pc = "check"
    /\ worker' = [worker EXCEPT !.pc = "chat"]
    /\ UNCHANGED <<rowVars, pacerVars, rotor, late>>

Check ==
    /\ worker.pc = "check"
    /\ worker' = IF stopped > 0 \/ paused[Here] > 0 THEN Onward ELSE [worker EXCEPT !.pc = "chat"]
    /\ UNCHANGED <<rowVars, pacerVars, rotor, late>>

AcquireChat ==
    /\ worker.pc = "chat" /\ tokens[Here] > 0
    /\ tokens' = [tokens EXCEPT ![Here] = @ - 1]
    /\ worker' = [worker EXCEPT !.pc = "global"]
    /\ UNCHANGED <<rowVars, paused, recent, stopped, rotor, late>>

AcquireGlobal ==
    /\ worker.pc = "global" /\ worker' = [worker EXCEPT !.pc = "send"]
    /\ late' = IF paused[Here] > 0 THEN [late EXCEPT ![Here] = @ + 1] ELSE late
    /\ UNCHANGED <<rowVars, pacerVars, rotor>>

(* The row was sent, or never will be: the next of the batch. *)
Settled ==
    LET d == worker.at IN
    /\ worker.pc \in {"send", "again"}
    /\ rows' = [rows EXCEPT ![d] = @ - 1]
    /\ aged' \in {aged \ {d}} \cup (IF rows[d] > 1 THEN {aged} ELSE {})
    /\ worker' = IF worker.left > 1 THEN [worker EXCEPT !.pc = "check", !.left = @ - 1] ELSE Onward
    /\ UNCHANGED <<pacerVars, rotor, late>>

(* A short 429 is slept out, and the row sent once more. *)
RefusedBriefly ==
    /\ worker.pc = "send" /\ Here \in Throttled
    /\ worker' = [worker EXCEPT !.pc = "again"]
    /\ UNCHANGED <<rowVars, pacerVars, rotor, late>>

(* Any other 429 pauses the chat, and the rest of the batch goes back. *)
Refused ==
    /\ worker.pc \in {"send", "again"} /\ Here \in Throttled /\ worker' = Onward
    /\ \E n \in Pauses : PauseChat(Here, n)
    /\ UNCHANGED <<rowVars, rotor, late>>

(* So it does when the network fails. *)
Failed ==
    /\ worker.pc \in {"send", "again"} /\ worker' = Onward
    /\ UNCHANGED <<rowVars, pacerVars, rotor, late>>
-----------------------------------------------------------------------------
Init ==
    /\ rows \in [Destinations -> 0 .. 1] /\ \A d \in Destinations : rows[d] <= Backlog[d]
    /\ aged = {}
    /\ rotor = [d \in Destinations |-> 0]
    /\ tokens = [c \in Chats |-> Burst]
    /\ paused = [c \in Chats |-> 0] /\ recent = [c \in Chats |-> 0] /\ stopped = 0
    /\ worker = Idle /\ late = [c \in Chats |-> 0]

Work ==
    \/ Pass \/ Serve \/ PassEnds \/ Check \/ AcquireChat \/ AcquireGlobal
    \/ Settled \/ RefusedBriefly \/ Refused \/ Failed

Next ==
    \/ Work \/ Tick
    \/ \E c \in Carded : CardRefused(c)
    \/ \E d \in Destinations : Enqueue(d)
    \/ \E d \in Narrating : HeadAges(d)

Spec == Init /\ [][Next]_vars

(* The task goes on, time passes and a row that waits grows old. *)
Fairness ==
    /\ WF_vars(Work) /\ WF_vars(Tick)
    /\ \A d \in Narrating : WF_vars(HeadAges(d))

FairSpec == Spec /\ Fairness
-----------------------------------------------------------------------------
TypeOK ==
    /\ rows \in [Destinations -> Nat] /\ \A d \in Destinations : rows[d] <= Backlog[d]
    /\ aged \subseteq Destinations
    /\ rotor \in [Destinations -> 0 .. Cardinality(Destinations)]
    /\ tokens \in [Chats -> 0 .. Burst] /\ paused \in [Chats -> Nat]
    /\ recent \in [Chats -> 0 .. GlobalWindow] /\ stopped \in 0 .. GlobalWindow
    /\ worker \in [pc : {"idle", "serve", "check", "chat", "global", "send", "again"}, todo : SUBSET Destinations,
                   first : Destinations \cup {Nowhere}, at : Destinations \cup {Nowhere}, left : 0 .. BatchSize]
    /\ late \in [Chats -> Nat]

(* Of a batch under way when Telegram asks for a pause, one row at most    *)
(* still goes out: the one whose check the pause has overtaken ("otherwise *)
(* the outbox keeps pushing transcript chunks into a chat Telegram has     *)
(* already started throttling", status_card.py).                           *)
OneRowIntoAPause == \A c \in Chats : late[c] <= 1

(* "A single group's 429 pauses only that group": a topic whose chat takes *)
(* messages is served, whichever other chats refuse theirs for ever and    *)
(* however long a turn narrates.                                           *)
NobodyStarves ==
    \A d \in {e \in Destinations : ChatOf[e] \notin Throttled} :
        <>[][(\A c \in Carded : ~CardRefused(c)) /\ (worker.at = d => ~Failed)]_vars
            => (<>[](rows[d] > 0) => []<><<rows'[d] < rows[d]>>_vars)
=============================================================================
