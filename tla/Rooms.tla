------------------------------- MODULE Rooms -------------------------------
(***************************************************************************)
(* One chat and one workspace: which session owns which forum topic, and   *)
(* which session a line typed in a topic reaches.  Two tables carry the    *)
(* answer and neither is written in one piece: sessions.(chat_id,          *)
(* thread_id, is_bound) is where a transcript is delivered, chats.         *)
(* session_id is where a prompt goes.  /board and /attach (adopt.py),      *)
(* /fork (power.py) and /done (core.py) rewrite both around calls to       *)
(* Telegram and Conductor; room_gone (topics.py) rewrites them when a      *)
(* deleted topic is discovered.  Every await is a point where another      *)
(* handler may run.                                                        *)
(***************************************************************************)
EXTENDS Naturals, FiniteSets, FiniteSetsExt

CONSTANTS
    Sessions,     \* the workspace's sessions
    Forks,        \* those of them /fork has yet to create
    Threads,      \* Telegram's topic ids
    Handlers,     \* updates the dispatcher may handle at once
    Discoverers,  \* the outbox and the pollers, which find deleted topics
    NoOne,        \* no session
    Root,         \* NO_THREAD_ID: the linear seat of a DM, a group's General
    Nowhere,      \* no address yet
    MaxTasks      \* commands the owner sends

ASSUME RoomsAssumption ==
    /\ Forks \subseteq Sessions /\ IsFiniteSet(Threads)
    /\ NoOne \notin Sessions /\ Root \notin Threads /\ Nowhere \notin Threads \cup {Root}
    /\ Handlers \cap Discoverers = {} /\ MaxTasks \in Nat

VARIABLES
    kind,     \* "dm" or "group"
    topic,    \* Telegram's topics: unused, users (the person's), open, closed, left (neither could be), gone
    session,  \* sessions rows: [seat, bound, archived, born]
    route,    \* chats rows: [session, ours], ours being workspace_id
    owed,     \* deliveries queued for a session in a topic, not sent yet
    task,     \* the coroutine of each actor
    asked     \* commands sent

vars == <<kind, topic, session, route, owed, task, asked>>

Seats == Threads \cup {Root}
Actors == Handlers \cup Discoverers
Idle == [pc |-> "idle", s |-> NoOne, claim |-> Root, topic |-> Root, fresh |-> FALSE]

HasRoom(s) == session[s].seat \in Threads
Born == {s \in Sessions : session[s].born}

(***************************************************************************)
(* The repositories.  Release: sessions.release_room.  Bind: sessions.bind.*)
(* Route: chats.bind with its release_session.                             *)
(***************************************************************************)
Release(rows, seat, keep) ==
    [x \in Sessions |->
        IF x # keep /\ rows[x].seat = seat THEN [rows[x] EXCEPT !.bound = FALSE] ELSE rows[x]]

Bind(rows, s, seat) ==
    [Release(rows, seat, s) EXCEPT ![s].seat = seat, ![s].bound = TRUE]

\* Mutant: chats.bind forgets the room the session used to be read in.
RouteToOnly(s, seat) == [route EXCEPT ![seat] = [session |-> s, ours |-> TRUE]]

RouteTo(s, seat) ==
    [x \in Seats |->
        IF x = seat THEN [session |-> s, ours |-> TRUE]
        ELSE IF route[x].session = s THEN [route[x] EXCEPT !.session = NoOne]
        ELSE route[x]]

\* chats.bind raises: a room is not a pointer; the root is exempt.
Taken(seat, s) == seat \in Threads /\ route[seat].session \notin {NoOne, s}

\* RoutingMiddleware._session_for: the chats row, else the bound session.
SessionsAt(seat) ==
    IF route[seat].session # NoOne THEN {route[seat].session}
    ELSE {s \in Sessions : session[s].bound /\ session[s].seat = seat}

\* Route.claimable_thread and Route.reclaimable_thread, as one proposal.
Claim(seat) ==
    LET empty == seat \in Threads /\ SessionsAt(seat) = {}
    IN  IF empty /\ (route[seat].ours \/ kind = "dm") THEN seat ELSE Root

(***************************************************************************)
(* What Telegram answers.  claim_topic: a private chat says "gone" of a    *)
(* topic it will not let a bot rename; a network error about a deleted     *)
(* topic is read as "still there".                                         *)
(***************************************************************************)
ClaimVerdicts(t) ==
    IF t \notin Threads THEN {"gone"}
    ELSE IF topic[t] = "gone" THEN {"gone", "alive"}
    ELSE {"alive"} \cup (IF kind = "dm" THEN {"gone"} ELSE {})

\* A refused rename is evidence in a group only.
RenameProvesDeletion == kind = "group"

Fresh == {t \in Threads : topic[t] = "unused"}

\* discard_topic: delete, else close, else it stays.
Discarded(a) ==
    IF task[a].fresh
    THEN {[topic EXCEPT ![task[a].topic] = v] : v \in {"gone", "closed", "left"}}
    ELSE {topic}

\* Where the person can type: the root, and the topics on screen.
Typable(states) == {Root} \cup {t \in Threads : topic[t] \in states}

At(a, pc) == task[a].pc = pc
To(a, pc) == task' = [task EXCEPT ![a].pc = pc]
End(a) == task' = [task EXCEPT ![a] = Idle]
Failed(a) == topic' \in Discarded(a) /\ End(a)

Starts(a, t) == /\ At(a, "idle") /\ asked < MaxTasks
                /\ asked' = asked + 1
                /\ task' = [task EXCEPT ![a] = t]
                /\ UNCHANGED <<kind, topic, session, route, owed>>

(***************************************************************************)
(* adopt_workspace: one at a time per workspace (_locks).  It describes    *)
(* the workspace, probes the room this session already has, else takes a   *)
(* seat, unbinds, seeks, and writes both tables in one transaction.        *)
(***************************************************************************)
LockHeld == \E h \in Handlers : task[h].pc \in {"probe", "seat", "open", "unbind", "seek"}

\* A picker is drawn and tapped by a person: a session /fork is still writing
\* down is not tapped between two of its statements.
Offered == {s \in Born : \A h \in Handlers : task[h].s = s => task[h].pc \notin {"address", "bind", "route"}}

Adopt(h, s, seat) ==
    /\ s \in Offered /\ seat \in Typable({"users", "open", "left"})
    /\ Starts(h, [Idle EXCEPT !.pc = "adopt", !.s = s, !.claim = Claim(seat)])

AdoptLook(h) ==
    /\ At(h, "adopt") /\ ~LockHeld
    /\ \/ task' = [task EXCEPT ![h].pc = IF HasRoom(task[h].s) THEN "probe" ELSE "seat",
                               ![h].topic = IF HasRoom(task[h].s) THEN session[task[h].s].seat ELSE Root]
       \/ End(h)                               \* unavailable, or archived in Conductor
    /\ UNCHANGED <<kind, topic, session, route, owed, asked>>

AdoptJump(h) ==
    /\ At(h, "probe") /\ "alive" \in ClaimVerdicts(task[h].topic)
    /\ LET s == task[h].s  t == task[h].topic
       IN  IF Taken(t, s)
           THEN UNCHANGED <<session, route>>   \* chats.bind raised, the transaction is undone
           ELSE /\ session' = [session EXCEPT ![s].seat = t]
                /\ route' = IF route[t].session = s THEN route ELSE RouteTo(s, t)
    /\ End(h)
    /\ UNCHANGED <<kind, topic, owed, asked>>

AdoptForget(h) ==
    /\ At(h, "probe") /\ "gone" \in ClaimVerdicts(task[h].topic)
    /\ To(h, "seat")
    /\ UNCHANGED <<kind, topic, session, route, owed, asked>>

AdoptSeat(h) ==
    /\ At(h, "seat")
    /\ LET c == task[h].claim
       IN  \/ /\ "alive" \in ClaimVerdicts(c)
              /\ task' = [task EXCEPT ![h].pc = "unbind", ![h].topic = c]
           \/ "gone" \in ClaimVerdicts(c) /\ To(h, "open")
    /\ UNCHANGED <<kind, topic, session, route, owed, asked>>

\* require_topic: a group that refuses fails the command, a DM degrades to its seat.
Open(h, pc, next) ==
    /\ At(h, pc)
    /\ \/ \E t \in Fresh : /\ topic' = [topic EXCEPT ![t] = "open"]
                           /\ task' = [task EXCEPT ![h].pc = next, ![h].topic = t, ![h].fresh = TRUE]
       \/ kind = "dm" /\ task' = [task EXCEPT ![h].pc = next, ![h].topic = Root] /\ UNCHANGED topic
       \/ kind = "group" /\ End(h) /\ UNCHANGED topic
    /\ UNCHANGED <<kind, session, route, owed, asked>>

AdoptOpen(h) == Open(h, "open", "unbind")

AdoptUnbind(h) ==
    /\ At(h, "unbind")
    /\ session' = [session EXCEPT ![task[h].s].bound = FALSE]
    /\ To(h, "seek")
    /\ UNCHANGED <<kind, topic, route, owed, asked>>

\* The commit: every other session of the workspace is upserted unbound.
AdoptCommit(h) ==
    /\ At(h, "seek")
    /\ LET s == task[h].s  t == task[h].topic
       IN  IF Taken(t, s)
           THEN Failed(h) /\ UNCHANGED <<session, route>>
           ELSE /\ session' = Bind([x \in Sessions |-> [session[x] EXCEPT !.bound = FALSE]], s, t)
                /\ route' = RouteTo(s, t)
                /\ End(h) /\ UNCHANGED topic
    /\ UNCHANGED <<kind, owed, asked>>

AdoptFail(h) ==
    /\ At(h, "seek") /\ Failed(h)
    /\ UNCHANGED <<kind, session, route, owed, asked>>

(***************************************************************************)
(* /fork: a room first, then POST /v0/sessions, then the address, the      *)
(* binding and the route, each in a statement of its own.                  *)
(***************************************************************************)
Fork(h, n, seat) ==
    /\ n \in Forks \ Born /\ \A g \in Handlers : task[g].s # n
    /\ (route[seat].ours \/ SessionsAt(seat) # {})
    /\ seat \in Typable({"open", "left"})
    /\ Starts(h, [Idle EXCEPT !.pc = "fork", !.s = n])

ForkOpen(h) == Open(h, "fork", "create")

ForkCreate(h) ==
    /\ At(h, "create")
    /\ \/ /\ session' = [session EXCEPT ![task[h].s].born = TRUE]
          /\ To(h, "address") /\ UNCHANGED topic
       \/ Failed(h) /\ UNCHANGED session
    /\ UNCHANGED <<kind, route, owed, asked>>

ForkAddress(h) ==
    /\ At(h, "address")
    /\ session' = IF task[h].topic = Root THEN session
                  ELSE [session EXCEPT ![task[h].s].seat = task[h].topic]
    /\ To(h, "bind")
    /\ UNCHANGED <<kind, topic, route, owed, asked>>

ForkBind(h) ==
    /\ At(h, "bind")
    /\ session' = Bind(session, task[h].s, task[h].topic)
    /\ To(h, "route")
    /\ UNCHANGED <<kind, topic, route, owed, asked>>

ForkRoute(h) ==
    /\ At(h, "route")
    /\ IF Taken(task[h].topic, task[h].s)
       THEN Failed(h) /\ UNCHANGED route
       ELSE route' = RouteTo(task[h].s, task[h].topic) /\ End(h) /\ UNCHANGED topic
    /\ UNCHANGED <<kind, session, owed, asked>>

(***************************************************************************)
(* /done, after its confirm: archive at Conductor, retire the topic, mark  *)
(* the row, then unbind the room the row read at the start was routed by.  *)
(***************************************************************************)
Done(h, s) ==
    /\ s \in Offered /\ ~session[s].archived
    /\ Starts(h, [Idle EXCEPT !.pc = "archive", !.s = s, !.claim = session[s].seat])

DoneArchive(h) ==
    /\ At(h, "archive")
    /\ To(h, "retire") \/ End(h)
    /\ UNCHANGED <<kind, topic, session, route, owed, asked>>

\* retire_topic: delete, else rename and close; a rename may find the topic gone.
DoneRetire(h) ==
    /\ At(h, "retire")
    /\ LET t == session[task[h].s].seat
       IN  \/ /\ t \notin Threads
              /\ To(h, "mark") /\ UNCHANGED topic
           \/ /\ t \in Threads /\ topic[t] # "gone"
              /\ topic' = [topic EXCEPT ![t] = "gone"]
              /\ task' = [task EXCEPT ![h].pc = "unseat", ![h].topic = t]
           \/ /\ t \in Threads /\ topic[t] # "gone"
              /\ topic' \in {[topic EXCEPT ![t] = v] : v \in {"closed", "left"}}
              /\ To(h, "mark")
           \/ /\ t \in Threads /\ topic[t] = "gone"
              /\ task' = IF RenameProvesDeletion
                         THEN [task EXCEPT ![h].pc = "retired", ![h].topic = t]
                         ELSE [task EXCEPT ![h].pc = "mark"]
              /\ UNCHANGED topic
    /\ UNCHANGED <<kind, session, route, owed, asked>>

DoneUnseat(h) ==
    /\ At(h, "unseat")
    /\ session' = [session EXCEPT ![task[h].s].seat = Root]
    /\ To(h, "unroute")
    /\ UNCHANGED <<kind, topic, route, owed, asked>>

Unrouted(seat) == [route EXCEPT ![seat] = [session |-> NoOne, ours |-> FALSE]]

DoneUnroute(h) ==
    /\ At(h, "unroute")
    /\ route' = Unrouted(task[h].topic)
    /\ To(h, "mark")
    /\ UNCHANGED <<kind, topic, session, owed, asked>>

DoneMark(h) ==
    /\ At(h, "mark")
    /\ session' = [session EXCEPT ![task[h].s].bound = FALSE, ![task[h].s].archived = TRUE]
    /\ To(h, "forget")
    /\ UNCHANGED <<kind, topic, route, owed, asked>>

DoneForget(h) ==
    /\ At(h, "forget")
    /\ LET seat == task[h].claim
       IN  route' = IF seat \in Seats /\ route[seat].session = task[h].s THEN Unrouted(seat) ELSE route
    /\ End(h)
    /\ UNCHANGED <<kind, topic, session, owed, asked>>

(***************************************************************************)
(* room_gone: the session falls back to the root, the room forgets its     *)
(* session and keeps its workspace, the root's other occupants stop being  *)
(* polled.  It is told a session, never the topic that was found gone.     *)
(***************************************************************************)
GoneUnseat(a) ==
    /\ At(a, IF a \in Handlers THEN "retired" ELSE "gone")
    /\ session' = [session EXCEPT ![task[a].s].seat = Root]
    /\ To(a, "detach")
    /\ UNCHANGED <<kind, topic, route, owed, asked>>

\* Mutant: chats.unbind, which erases the workspace as well.
GoneErase(a) ==
    /\ At(a, "detach")
    /\ route' = Unrouted(task[a].topic)
    /\ To(a, "release")
    /\ UNCHANGED <<kind, topic, session, owed, asked>>

GoneDetach(a) ==
    /\ At(a, "detach")
    /\ route' = [route EXCEPT ![task[a].topic].session = NoOne]
    /\ To(a, "release")
    /\ UNCHANGED <<kind, topic, session, owed, asked>>

GoneRelease(a) ==
    /\ At(a, "release")
    /\ session' = Release(session, Root, task[a].s)
    /\ IF a \in Handlers THEN To(a, "mark") ELSE End(a)
    /\ UNCHANGED <<kind, topic, route, owed, asked>>

Discover(d, s) == task' = [task EXCEPT ![d] = [Idle EXCEPT !.pc = "gone", !.s = s, !.topic = session[s].seat]]

\* apply_marker: a rename a group refuses because the topic is gone.
RenameRefused(d, s) ==
    /\ At(d, "idle") /\ RenameProvesDeletion
    /\ HasRoom(s) /\ topic[session[s].seat] = "gone"
    /\ Discover(d, s)
    /\ UNCHANGED <<kind, topic, session, route, owed, asked>>

Queue(s) ==
    /\ session[s].bound /\ HasRoom(s) /\ session[s].seat \notin owed[s]
    /\ owed' = [owed EXCEPT ![s] = @ \cup {session[s].seat}]
    /\ UNCHANGED <<kind, topic, session, route, task, asked>>

Deliver(s, t) ==
    /\ t \in owed[s] /\ (kind = "dm" \/ topic[t] # "gone")
    /\ owed' = [owed EXCEPT ![s] = @ \ {t}]
    /\ UNCHANGED <<kind, topic, session, route, task, asked>>

\* _reroute_to_general, then _release_room with the row's session.
SendRefused(d, s, t) ==
    /\ At(d, "idle") /\ kind = "group"
    /\ t \in owed[s] /\ topic[t] = "gone"
    /\ owed' = [owed EXCEPT ![s] = @ \ {t}]
    /\ IF HasRoom(s) THEN Discover(d, s) ELSE UNCHANGED task
    /\ UNCHANGED <<kind, topic, session, route, asked>>

(***************************************************************************)
(* The person: deletes a topic, or types into the composer of a DM, which  *)
(* opens one.                                                              *)
(***************************************************************************)
DeleteTopic(t) ==
    /\ topic[t] \in {"users", "open", "closed", "left"}
    /\ topic' = [topic EXCEPT ![t] = "gone"]
    /\ UNCHANGED <<kind, session, route, owed, task, asked>>

OpenThread(t) ==
    /\ kind = "dm" /\ topic[t] = "unused"
    /\ topic' = [topic EXCEPT ![t] = "users"]
    /\ UNCHANGED <<kind, session, route, owed, task, asked>>

Init ==
    /\ kind \in {"dm", "group"}
    /\ topic = [t \in Threads |-> "unused"]
    /\ session = [s \in Sessions |-> [seat |-> Nowhere, bound |-> FALSE, archived |-> FALSE, born |-> s \notin Forks]]
    /\ route = [t \in Seats |-> [session |-> NoOne, ours |-> FALSE]]
    /\ owed = [s \in Sessions |-> {}]
    /\ task = [a \in Actors |-> Idle]
    /\ asked = 0

HandlerStep(h) ==
    \/ \E s \in Sessions, seat \in Seats : Adopt(h, s, seat)
    \/ AdoptLook(h) \/ AdoptJump(h) \/ AdoptForget(h) \/ AdoptSeat(h) \/ AdoptOpen(h)
    \/ AdoptUnbind(h) \/ AdoptCommit(h) \/ AdoptFail(h)
    \/ \E s \in Sessions, seat \in Seats : Fork(h, s, seat)
    \/ ForkOpen(h) \/ ForkCreate(h) \/ ForkAddress(h) \/ ForkBind(h) \/ ForkRoute(h)
    \/ \E s \in Sessions : Done(h, s)
    \/ DoneArchive(h) \/ DoneRetire(h) \/ DoneUnseat(h) \/ DoneUnroute(h) \/ DoneMark(h) \/ DoneForget(h)

Next ==
    \/ \E h \in Handlers : HandlerStep(h)
    \/ \E a \in Actors : GoneUnseat(a) \/ GoneDetach(a) \/ GoneRelease(a)
    \/ \E d \in Discoverers, s \in Sessions : RenameRefused(d, s)
    \/ \E d \in Discoverers, s \in Sessions, t \in Threads : SendRefused(d, s, t)
    \/ \E s \in Sessions : Queue(s)
    \/ \E s \in Sessions, t \in Threads : Deliver(s, t)
    \/ \E t \in Threads : DeleteTopic(t) \/ OpenThread(t)

Spec == Init /\ [][Next]_vars

(***************************************************************************)
(* Properties.                                                             *)
(***************************************************************************)
Quiet(s) == \A a \in Actors : task[a].s # s

(* Types.                                                                  *)
Steps ==
    {"idle", "adopt", "probe", "seat", "open", "unbind", "seek", "fork", "create", "address", "bind", "route",
     "archive", "retire", "unseat", "unroute", "retired", "mark", "forget", "gone", "detach", "release"}
TypeOK ==
    /\ kind \in {"dm", "group"} /\ topic \in [Threads -> {"unused", "users", "open", "closed", "left", "gone"}]
    /\ session \in [Sessions -> [seat : Seats \cup {Nowhere}, bound : BOOLEAN, archived : BOOLEAN, born : BOOLEAN]]
    /\ route \in [Seats -> [session : Sessions \cup {NoOne}, ours : BOOLEAN]]
    /\ owed \in [Sessions -> SUBSET Seats] /\ asked \in 0 .. MaxTasks
    /\ task \in [Actors -> [pc : Steps, s : Sessions \cup {NoOne}, claim : Seats \cup {Nowhere},
                            topic : Seats \cup {Nowhere}, fresh : BOOLEAN]]

(* Between commands no seat, the root included, is written into by two     *)
(* pollers: release_room in sessions.bind and in room_gone.                *)
OneVoicePerSeat ==
    \A s1, s2 \in Sessions :
        (s1 # s2 /\ session[s1].bound /\ session[s2].bound /\ session[s1].seat = session[s2].seat)
            => ~(Quiet(s1) /\ Quiet(s2))

(* A line typed in a topic never reaches a session whose answers come out  *)
(* in another topic: the route of a topic points at a session that is read *)
(* there, or that has fallen back to the root, however commands and    *)
(* room_gone interleaved to write the two tables.                          *)
NoCrossTalk ==
    \A t \in Threads, s \in Sessions :
        (route[t].session = s /\ Quiet(s)) => session[s].seat \in {t, Root}

(* A command that ends leaves no empty room behind: the topic it opened is *)
(* the room of a session or knows its workspace, or was taken back         *)
(* (discard_topic).                                                        *)
NoStrayRooms ==
    [][\A h \in Handlers : LET t == task[h].topic IN
          (task[h].fresh /\ task'[h].pc = "idle" /\ topic'[t] = "open")
              => route'[t].ours \/ \E s \in Sessions : session'[s].seat = t]_vars

(* A topic that loses its session, unless /done has deleted the topic or   *)
(* archived that session, remembers its workspace, so the next line typed  *)
(* there is offered a reopen and is not taken for a new task               *)
(* (chats.detach_session).                                                 *)
Retires(h, t) ==
    \/ task[h].pc = "unroute" /\ task[h].topic = t
    \/ task[h].pc = "forget" /\ task[h].s = route[t].session

LosersStayRecoverable ==
    [][\A t \in Threads :
          (route[t].session # NoOne /\ route'[t].session = NoOne /\ \A h \in Handlers : ~Retires(h, t))
              => route'[t].ours]_vars

=============================================================================
