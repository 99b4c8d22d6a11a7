------------------------------ MODULE Creation ------------------------------
(***************************************************************************)
(* Paying for a workspace.  POST /v0/workspaces bills from the moment it   *)
(* answers and takes no idempotency key, so the bot derives a nonce from   *)
(* the intent (the update's message, the card that was tapped, the voice   *)
(* note's action id), names the workspace after it and looks for that name *)
(* before it pays.  Intents arrive as /new <text>, as the line that        *)
(* answers the form, as a tap on a confirm card, and as a spoken note;     *)
(* create_and_bind_input (common.py) serves them all, at once if they come *)
(* at once, and an update whose handler died is sometimes redelivered.     *)
(***************************************************************************)
EXTENDS Naturals, FiniteSets, FiniteSetsExt

CONSTANTS
    Typed,       \* messages: "/new text" and the answer to the form
    Cards,       \* confirm cards
    Spoken,      \* voice notes that carry a task
    Containers,  \* the workspaces Conductor may create: numbers, in the order it does
    Handlers,    \* updates and voice workers at work at once
    Threads,     \* topics the bot may open
    Here,        \* the empty thread of a private chat the person types in
    Root,        \* NO_THREAD_ID
    None,        \* no workspace, no intent
    Limit,       \* max_workspaces of the team
    MaxBegun     \* deliveries, taps and replays, in all

Ops == Typed \cup Cards \cup Spoken
Seats == Threads \cup {Here, Root}

CreationAssumption ==
    /\ None \notin Containers \cup Ops /\ Here \notin Threads /\ Root \notin Threads \cup {Here}
    /\ Typed \cap (Cards \cup Spoken) = {} /\ Cards \cap Spoken = {}
    /\ Containers \subseteq Nat /\ Limit \in Nat \ {0} /\ MaxBegun \in Nat

VARIABLES
    dm,         \* a private chat, where a refused topic degrades to the root
    paid,       \* Conductor: the intent each container was created for
    row,        \* workspaces rows, by create_nonce
    seat,       \* sessions rows: the seat of each container's session
    bound,      \* the containers whose session has a poller
    route,      \* chats rows: the session of each seat
    prompts,    \* prompt rows an intent has left
    form,       \* wizard_state of the seat: closed, asking, prompt, confirm or blank
    begun,      \* handlers started so far
    pending,    \* intents whose update Telegram (or the voice queue) still holds
    task        \* the coroutine of each handler

moneyVars == <<paid, row>>
roomVars == <<seat, bound, route>>
vars == <<dm, paid, row, seat, bound, route, prompts, form, begun, pending, task>>

Idle == [pc |-> "idle", op |-> None, seat |-> Root, box |-> None]
At(h, pc) == task[h].pc = pc
To(h, pc) == task' = [task EXCEPT ![h].pc = pc]
End(h) == task' = [task EXCEPT ![h] = Idle]

(* count_live: workspaces this database knows. *)
Live == {row[o] : o \in Ops} \ {None}

(***************************************************************************)
(* The form.  start_wizard and start_task write the seat's row and draw a  *)
(* card; each answer rewrites it (_offer) until the card asks for the      *)
(* prompt or for a confirmation; a line typed at the confirm card replaces *)
(* the task and draws it again; Cancel, a command and the TTL close it.    *)
(***************************************************************************)
Rewrite(states, next) ==
    /\ form \in states /\ form' \in next
    /\ UNCHANGED <<dm, moneyVars, roomVars, prompts, begun, pending, task>>

Forms == {"closed", "asking", "prompt", "confirm", "blank"}

StartWizard == Rewrite(Forms, {"asking"})
StartTask == Rewrite({"closed"}, {"confirm"})

\* _advance: the next question, or with a task at hand the confirm card.
Advance == Rewrite({"asking"}, {"asking", "prompt", "confirm"})
TypedOption == Advance
Change == Rewrite({"confirm"}, {"asking"})

\* typed_confirm: a line typed at the confirm card redraws it; one whose
\* handler outlives the form brings its row back with no project in it.
Cleared == IF form = "confirm" THEN {"closed", "blank"} ELSE {"closed"}

CloseForm == Rewrite(Forms \ {"closed"}, Cleared)

(***************************************************************************)
(* An intent reaches its handler.                                          *)
(***************************************************************************)
Begin(h, o, pc) ==
    /\ At(h, "idle") /\ begun < MaxBegun
    /\ begun' = begun + 1
    /\ task' = [task EXCEPT ![h] = [Idle EXCEPT !.pc = pc, !.op = o]]
    /\ UNCHANGED <<dm, moneyVars, roomVars, prompts>>

\* /new text abandons the form.
NewLine(h, o) ==
    /\ o \in Typed \cap pending
    /\ pending' = pending \ {o} /\ form' = "closed"
    /\ Begin(h, o, "quota")

\* typed_prompt: the line the form waits for leaves it open until the end.
PromptLine(h, o) ==
    /\ o \in Typed \cap pending /\ form = "prompt"
    /\ pending' = pending \ {o} /\ UNCHANGED form
    /\ Begin(h, o, "quota")

\* wizard_callback, _create_from_card: the row is read, and cleared only after.
TapStart(h, o) ==
    /\ o \in Cards /\ form = "confirm"
    /\ Begin(h, o, "quota")
    /\ UNCHANGED <<form, pending>>

\* VoiceCommand.NEW; _finish_wizard answers the form and asks for no quota.
\* A note is left in the queue when a second worker claims it between two
\* statements of the first (VoiceNotes).
Hear(h, o) ==
    /\ o \in Spoken \cap pending
    /\ pending' \in {pending, pending \ {o}}
    /\ Begin(h, o, IF form = "prompt" THEN "seat" ELSE "quota")
    /\ UNCHANGED form

Ended(h) == form' \in Cleared \cup (IF task[h].op \in Spoken THEN {form} ELSE {})

\* A note whose worker raised goes back to the queue (retry_after_error).
Fails(h) ==
    /\ End(h) /\ Ended(h)
    /\ pending' = IF task[h].op \in Spoken THEN pending \cup {task[h].op} ELSE pending

(* quota_error: the team's live workspaces, counted before anything is paid. *)
Within == Cardinality(Live) < Limit

Quota(h) ==
    /\ At(h, "quota")
    /\ IF Within THEN To(h, "seat") /\ UNCHANGED <<form, pending>> ELSE Fails(h)
    /\ UNCHANGED <<dm, moneyVars, roomVars, prompts, begun>>

(***************************************************************************)
(* The room, before the money (_seat_for): the one this nonce opened       *)
(* before, the empty thread the request came from, a new topic, or the     *)
(* root of a private chat; a group that refuses a topic fails the command. *)
(***************************************************************************)
PriorRoom(o) == IF row[o] = None \/ seat[row[o]] \in {None, Root} THEN {} ELSE {seat[row[o]]}
Empty == IF route[Here] = None THEN {Here} ELSE {}
Unopened == {t \in Threads : (\A c \in Containers : seat[c] # t) /\ (\A h \in Handlers : task[h].seat # t)}

Rooms(o) ==
    IF PriorRoom(o) # {} THEN PriorRoom(o)
    ELSE IF dm THEN Empty \cup Unopened \cup {Root} ELSE Unopened

Seat(h) ==
    /\ At(h, "seat")
    /\ \/ \E t \in Rooms(task[h].op) :
              task' = [task EXCEPT ![h].pc = "look", ![h].seat = t] /\ UNCHANGED <<form, pending>>
       \/ ~dm /\ PriorRoom(task[h].op) = {} /\ Fails(h)
    /\ UNCHANGED <<dm, moneyVars, roomVars, prompts, begun>>

(***************************************************************************)
(* cursor.create_workspace: look for the nonce in the rows, then in the    *)
(* project's list; pay once; on an ambiguous answer look again and stop.   *)
(***************************************************************************)
\* Mutant: only this database's rows are looked in.
FoundLocally(o) == {row[o]} \ {None}
Found(o) == IF row[o] # None THEN {row[o]} ELSE {c \in Containers : paid[c] = o}

\* _persist_workspace: create_nonce is unique, a second workspace of it raises.
Persist(h, c) ==
    LET o == task[h].op
    IN  IF row[o] \in {None, c}
        THEN /\ row' = [row EXCEPT ![o] = c]
             /\ task' = [task EXCEPT ![h].pc = "room", ![h].box = c]
             /\ UNCHANGED <<form, pending>>
        ELSE Fails(h) /\ UNCHANGED row

Look(h) ==
    /\ At(h, "look")
    /\ \/ \E c \in Found(task[h].op) : Persist(h, c)
       \/ Found(task[h].op) = {} /\ To(h, "post") /\ UNCHANGED <<row, form, pending>>
       \/ Fails(h) /\ UNCHANGED row                           \* the listing raised
    /\ UNCHANGED <<dm, paid, roomVars, prompts, begun>>

\* The 403 of a repository GitHub is not connected to proves nothing landed,
\* and the second form of the call is this same step.
Pay(h, c, answer) ==
    /\ paid[c] = None /\ (\A d \in Containers : d < c => paid[d] # None)
    /\ paid' = [paid EXCEPT ![c] = task[h].op]
    /\ task' = [task EXCEPT ![h].pc = answer, ![h].box = IF answer = "paid" THEN c ELSE None]

Post(h) ==
    /\ At(h, "post")
    /\ \/ \E c \in Containers, answer \in {"paid", "unsure"} : Pay(h, c, answer) /\ UNCHANGED <<form, pending>>
       \/ To(h, "unsure") /\ UNCHANGED <<paid, form, pending>>
       \/ Fails(h) /\ UNCHANGED paid
    /\ UNCHANGED <<dm, row, roomVars, prompts, begun>>

Paid(h) ==
    /\ At(h, "paid") /\ Persist(h, task[h].box)
    /\ UNCHANGED <<dm, paid, roomVars, prompts, begun>>

Unsure(h) ==
    /\ At(h, "unsure")
    /\ \/ \E c \in Found(task[h].op) : Persist(h, c)
       \/ Fails(h) /\ UNCHANGED row
    /\ UNCHANGED <<dm, paid, roomVars, prompts, begun>>

(***************************************************************************)
(* The workspace exists: its session is listed if the answer did not name  *)
(* it, takes the room, is bound (sessions.bind releases the seat), routed  *)
(* (chats.bind refuses an occupied thread) and begun its first prompt.     *)
(***************************************************************************)
Room(h) ==
    /\ At(h, "room")
    /\ \/ seat' = [seat EXCEPT ![task[h].box] = task[h].seat] /\ To(h, "bind") /\ UNCHANGED <<form, pending>>
       \/ Fails(h) /\ UNCHANGED seat                          \* no session was listed
    /\ UNCHANGED <<dm, moneyVars, bound, route, prompts, begun>>

Bind(h) ==
    /\ At(h, "bind")
    /\ bound' = (bound \ {c \in Containers : seat[c] = task[h].seat}) \cup {task[h].box}
    /\ To(h, "route")
    /\ UNCHANGED <<dm, moneyVars, seat, route, prompts, form, begun, pending>>

Route(h) ==
    /\ At(h, "route")
    /\ LET t == task[h].seat  c == task[h].box
       IN  IF t # Root /\ route[t] \notin {None, c}
           THEN Fails(h) /\ UNCHANGED route
           ELSE /\ route' = [x \in Seats |-> IF x = t THEN c ELSE IF route[x] = c THEN None ELSE route[x]]
                /\ To(h, "ask") /\ UNCHANGED <<form, pending>>
    /\ UNCHANGED <<dm, moneyVars, seat, bound, prompts, begun>>

Asked(o) == o \in Spoken /\ prompts[o] > 0

Ask(h) ==
    /\ At(h, "ask")
    /\ prompts' = IF Asked(task[h].op) THEN prompts ELSE [prompts EXCEPT ![task[h].op] = @ + 1]
    /\ End(h) /\ Ended(h)
    /\ UNCHANGED <<dm, moneyVars, roomVars, begun, pending>>

(***************************************************************************)
(* The process dies.  An update whose handler had not ended may be         *)
(* delivered again; a note's row is requeued.  A POST in flight has either *)
(* landed by then or never does.                                           *)
(***************************************************************************)
Crash ==
    /\ LET cut == {task[h].op : h \in Handlers} \ {None}
       IN  \E again \in SUBSET (cut \cap (Typed \cup Spoken)) : pending' = pending \cup again
    /\ task' = [h \in Handlers |-> Idle]
    /\ task # task'
    /\ UNCHANGED <<dm, moneyVars, roomVars, prompts, form, begun>>

Init ==
    /\ dm \in BOOLEAN
    /\ paid = [c \in Containers |-> None]
    /\ row = [o \in Ops |-> None]
    /\ seat = [c \in Containers |-> None]
    /\ bound = {} /\ route = [t \in Seats |-> None]
    /\ prompts = [o \in Ops |-> 0]
    /\ form = "closed"
    /\ begun = 0
    /\ pending = Typed \cup Spoken
    /\ task = [h \in Handlers |-> Idle]

Step(h) ==
    \/ \E o \in Ops : NewLine(h, o) \/ PromptLine(h, o) \/ TapStart(h, o) \/ Hear(h, o)
    \/ Quota(h) \/ Seat(h) \/ Look(h) \/ Post(h) \/ Paid(h) \/ Unsure(h)
    \/ Room(h) \/ Bind(h) \/ Route(h) \/ Ask(h)

Next ==
    \/ StartWizard \/ StartTask \/ Advance \/ TypedOption \/ Change \/ CloseForm
    \/ \E h \in Handlers : Step(h)
    \/ Crash

Spec == Init /\ [][Next]_vars

(***************************************************************************)
(* Properties.                                                             *)
(***************************************************************************)
Bills(o) == Cardinality({c \in Containers : paid[c] = o})

(* Types.                                                                  *)
TypeOK ==
    /\ dm \in BOOLEAN
    /\ paid \in [Containers -> Ops \cup {None}] /\ row \in [Ops -> Containers \cup {None}]
    /\ seat \in [Containers -> Seats \cup {None}] /\ bound \subseteq Containers
    /\ route \in [Seats -> Containers \cup {None}]
    /\ prompts \in [Ops -> Nat] /\ form \in Forms /\ begun \in 0 .. MaxBegun
    /\ pending \subseteq Typed \cup Spoken
    /\ task \in [Handlers -> [pc : {"idle", "quota", "seat", "look", "post", "paid", "unsure", "room", "bind", "route", "ask"},
                              op : Ops \cup {None}, seat : Seats, box : Containers \cup {None}]]

(* However often its update is redelivered, its handler killed or its POST *)
(* left unanswered, one typed line pays for at most one workspace          *)
(* (stable_nonce, reconcile_workspace).                                    *)
OneBillPerLine == \A o \in Typed : Bills(o) <= 1

(* A spoken task is asked once however often its note is replayed.         *)
SpokenOnce == \A o \in Spoken : prompts[o] <= 1

=============================================================================
