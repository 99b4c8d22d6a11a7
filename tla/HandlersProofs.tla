--------------------------- MODULE HandlersProofs ---------------------------
(***************************************************************************)
(* What the owner's commands promise, for any sessions, topics, handlers,  *)
(* intents and prompts: one line pays for one workspace, a turn rings once *)
(* and its corrected receipt stands, every seat has one voice and every    *)
(* line reaches the session read in its topic, and a topic that loses its  *)
(* session keeps the way back.                                             *)
(***************************************************************************)
EXTENDS MCHandlers, FiniteSetTheorems, TLAPS

LEMMA CreationSteps == SideBySide => C!Spec
<1>1. Start => C!Init
  BY DEF Start
<1>2. [Step]_<<world, vars, creationVars, receiptVars>> => [C!Next]_(C!vars)
  BY DEF Step, creationVars, C!vars, C!moneyVars, C!roomVars
<1> QED BY <1>1, <1>2, PTL DEF SideBySide, C!Spec

Ops == Typed \cup Cards \cup Spoken

LEMMA CreationGiven ==
    /\ None \notin Ops /\ None \notin Containers /\ MaxBegun \in Nat
    /\ Typed \cap (Cards \cup Spoken) = {}
BY ConstantsFit DEF C!CreationAssumption, C!Ops, Ops

(* The invariant.  An update is with Telegram or with one handler, never   *)
(* with two, and a handler about to pay for it knows that nobody has.      *)
Work ==
    [pc : {"idle", "quota", "seat", "look", "post", "paid", "unsure", "room", "bind", "route", "ask"},
     op : Ops \cup {None}, seat : C!Seats, box : Containers \cup {None}]

\* Places where the handler has its workspace.
Held == {"paid", "room", "bind", "route", "ask"}

OneHolder ==
    /\ \A h \in Handlers : job[h].pc \in Held => job[h].box \in Containers
    /\ \A h \in Handlers : job[h].pc = "idle" <=> job[h].op = None
    /\ \A o \in Typed, h \in Handlers :
          job[h].op = o => o \notin pending /\ \A g \in Handlers \ {h} : job[g].op # o

OnePayment ==
    /\ \A o \in Typed, c, d \in Containers : paid[c] = o /\ paid[d] = o => c = d
    /\ \A h \in Handlers, c \in Containers :
          job[h].pc = "post" /\ job[h].op \in Typed => paid[c] # job[h].op

Billed == C!TypeOK /\ OneHolder /\ OnePayment /\ C!SpokenOnce

LEMMA BilledInit == C!Init => Billed
<1> SUFFICES ASSUME C!Init PROVE Billed
  OBVIOUS
<1>1. C!Idle \in Work /\ C!Idle.pc = "idle" /\ C!Idle.op = None
  BY DEF C!Idle, Work, C!Seats
<1>2. C!TypeOK
  BY <1>1, CreationGiven DEF C!Init, C!TypeOK, Work, C!Ops, Ops, C!Forms
<1>3. OneHolder /\ OnePayment /\ C!SpokenOnce
  BY <1>1, CreationGiven DEF C!Init, OneHolder, Held, OnePayment, C!SpokenOnce, C!Ops, Ops
<1> QED BY <1>2, <1>3 DEF Billed

(* What a step of one handler does to the intents: it may end with its     *)
(* own, go on with it, or take a new one up.                               *)
Worked(h) ==
    /\ h \in Handlers
    /\ job' \in [Handlers -> Work] /\ \A g \in Handlers \ {h} : job'[g] = job[g]
    /\ job'[h].pc = "idle" <=> job'[h].op = None
    /\ job'[h].pc \in Held => job'[h].box \in Containers
    /\ pending' \subseteq pending \cup Spoken

Keeps(h) ==
    /\ Worked(h) /\ job'[h].op \in {job[h].op, None}

LEMMA KeepsHolder == ASSUME Billed, NEW h, Keeps(h) PROVE OneHolder'
<1> USE CreationGiven
<1>1. \A o \in Typed : o \in pending' => o \in pending
  BY DEF Keeps, Worked
<1>2. \A g \in Handlers : job'[g].op \in {job[g].op, None}
  BY DEF Keeps, Worked
<1>3. \A g \in Handlers : job'[g].pc = "idle" <=> job'[g].op = None
  BY DEF Keeps, Worked, Billed, OneHolder
<1>4. \A o \in Typed : o # None
  BY DEF Ops
<1>5. \A g \in Handlers : job'[g].pc \in Held => job'[g].box \in Containers
  BY DEF Keeps, Worked, Billed, OneHolder
<1> QED BY <1>1, <1>2, <1>3, <1>4, <1>5 DEF Billed, OneHolder

LEMMA CalmKeeps ==
    ASSUME Billed, NEW h, Keeps(h), C!TypeOK', UNCHANGED <<paid, prompts>>,
           job'[h].pc = "post" => \A c \in Containers : paid[c] # job[h].op
    PROVE  Billed'
<1>1. OneHolder'
  BY KeepsHolder
<1>2. C!SpokenOnce'
  BY DEF C!SpokenOnce, Billed
<1>3. \A g \in Handlers, c \in Containers :
          job'[g].pc = "post" /\ job'[g].op \in Typed => paid[c] # job'[g].op
  <2> SUFFICES ASSUME NEW g \in Handlers, NEW c \in Containers,
                      job'[g].pc = "post", job'[g].op \in Typed
               PROVE  paid[c] # job'[g].op
    OBVIOUS
  <2>1. CASE g = h
    BY <2>1, CreationGiven DEF Keeps, Ops
  <2>2. CASE g # h
    BY <2>2 DEF Keeps, Worked, Billed, OnePayment
  <2> QED BY <2>1, <2>2
<1>4. OnePayment'
  BY <1>3 DEF Billed, OnePayment
<1> QED BY <1>1, <1>2, <1>4 DEF Billed

LEMMA IdleTyped == C!Idle \in Work /\ C!Idle.pc = "idle" /\ C!Idle.op = None
BY DEF C!Idle, Work, C!Seats

LEMMA WorkTyped == Billed => job \in [Handlers -> Work]
BY DEF Billed, C!TypeOK, Work, C!Ops, Ops

LEMMA WorkFields ==
    ASSUME Billed, NEW h \in Handlers
    PROVE  /\ job[h].seat \in C!Seats /\ job[h].box \in Containers \cup {None}
           /\ job[h].op \in Ops \cup {None} /\ (job[h].pc # "idle" => job[h].op \in Ops)
           /\ job[h].pc \in Held => job[h].box \in Containers
<1>1. job[h] \in Work
  BY WorkTyped
<1> QED BY <1>1 DEF Work, Billed, OneHolder

Pcs == {"quota", "seat", "look", "post", "paid", "unsure", "room", "bind", "route", "ask"}

\* Where a handler goes on with its intent.
LEMMA OnwardWorks ==
    ASSUME Billed, NEW h \in Handlers, job[h].pc # "idle", pending' = pending,
           NEW pc \in Pcs, NEW s \in C!Seats, NEW c \in Containers \cup {None},
           pc \in Held => c \in Containers,
           job' = [job EXCEPT ![h] = [pc |-> pc, op |-> job[h].op, seat |-> s, box |-> c]]
    PROVE  Keeps(h) /\ job'[h].pc = pc
<1>1. job \in [Handlers -> Work]
  BY WorkTyped
<1>2. job[h].op # None /\ job[h].op \in Ops \cup {None}
  BY <1>1 DEF Billed, OneHolder, Work
<1>3. [pc |-> pc, op |-> job[h].op, seat |-> s, box |-> c] \in Work
  BY <1>2 DEF Work, Pcs
<1>4. pc # "idle"
  BY DEF Pcs
<1> QED BY <1>1, <1>2, <1>3, <1>4 DEF Keeps, Worked

LEMMA EndWorks ==
    ASSUME Billed, NEW h \in Handlers, C!End(h), pending' \subseteq pending \cup Spoken
    PROVE  Keeps(h) /\ job'[h].pc = "idle"
<1>1. job \in [Handlers -> Work]
  BY WorkTyped
<1> QED BY <1>1, IdleTyped DEF C!End, Keeps, Worked, Held

LEMMA EndedTyped == ASSUME Billed, NEW h, C!Ended(h) PROVE form' \in C!Forms
BY DEF Billed, C!TypeOK, C!Ended, C!Cleared, C!Forms

LEMMA FailsKeeps ==
    ASSUME Billed, NEW h \in Handlers, C!Fails(h),
           UNCHANGED <<dm, paid, row, seat, bound, roomOf, prompts, begun>>
    PROVE  Billed'
<1>1. pending' \subseteq pending \cup Spoken /\ pending' \subseteq Typed \cup Spoken
  BY DEF C!Fails, Billed, C!TypeOK
<1>2. Keeps(h) /\ job'[h].pc = "idle"
  BY <1>1, EndWorks DEF C!Fails
<1>3. form' \in C!Forms
  BY EndedTyped DEF C!Fails
<1>4. dm' \in BOOLEAN
  BY Zenon DEF Billed, C!TypeOK
<1>5. C!TypeOK'
  BY <1>1, <1>2, <1>3, <1>4 DEF Keeps, Worked, Work, Billed, C!TypeOK, C!Ops, Ops
<1> QED BY <1>2, <1>5, CalmKeeps

LEMMA ToWorks ==
    ASSUME Billed, NEW h \in Handlers, job[h].pc # "idle", pending' = pending,
           NEW pc \in Pcs, C!To(h, pc), pc \in Held => job[h].box \in Containers
    PROVE  Keeps(h) /\ job'[h].pc = pc
<1>1. job \in [Handlers -> Work]
  BY WorkTyped
<1>2. job[h].seat \in C!Seats /\ job[h].box \in Containers \cup {None}
  BY <1>1 DEF Work
<1>3. job' = [job EXCEPT ![h] =
                [pc |-> pc, op |-> job[h].op, seat |-> job[h].seat, box |-> job[h].box]]
  <2>1. job[h] \in Work
    BY <1>1
  <2>2. [job[h] EXCEPT !.pc = pc] =
          [pc |-> pc, op |-> job[h].op, seat |-> job[h].seat, box |-> job[h].box]
    BY <2>1 DEF Work
  <2>3. job' = [job EXCEPT ![h] = [job[h] EXCEPT !.pc = pc]]
    BY DEF C!To
  <2> QED BY <2>2, <2>3
<1> QED BY <1>2, <1>3, OnwardWorks

\* What is left to say of a step that neither pays nor asks.
LEMMA OnwardKeeps ==
    ASSUME Billed, NEW h, Keeps(h), UNCHANGED <<dm, paid, prompts, begun, form, pending>>,
           row' \in [C!Ops -> Containers \cup {None}],
           seat' \in [Containers -> C!Seats \cup {None}], bound' \subseteq Containers,
           roomOf' \in [C!Seats -> Containers \cup {None}],
           job'[h].pc = "post" => \A c \in Containers : paid[c] # job[h].op
    PROVE  Billed'
<1>1. dm' \in BOOLEAN
  BY Zenon DEF Billed, C!TypeOK
<1>2. C!TypeOK'
  BY <1>1 DEF Keeps, Worked, Work, Billed, C!TypeOK, C!Ops, Ops
<1> QED BY <1>2, CalmKeeps

LEMMA BilledTypes ==
    ASSUME Billed
    PROVE  /\ row \in [C!Ops -> Containers \cup {None}]
           /\ seat \in [Containers -> C!Seats \cup {None}] /\ bound \subseteq Containers
           /\ roomOf \in [C!Seats -> Containers \cup {None}]
           /\ paid \in [Containers -> C!Ops \cup {None}] /\ prompts \in [C!Ops -> Nat]
           /\ dm \in BOOLEAN /\ begun \in 0..MaxBegun /\ form \in C!Forms
           /\ pending \subseteq Typed \cup Spoken
<1>1. dm \in BOOLEAN
  BY Zenon DEF Billed, C!TypeOK
<1> QED BY <1>1 DEF Billed, C!TypeOK

LEMMA Repointed ==
    ASSUME NEW w \in Work, NEW pc, NEW s, NEW c
    PROVE  /\ [w EXCEPT !.pc = pc, !.seat = s] = [pc |-> pc, op |-> w.op, seat |-> s, box |-> w.box]
           /\ [w EXCEPT !.pc = pc, !.box = c] = [pc |-> pc, op |-> w.op, seat |-> w.seat, box |-> c]
<1>1. [w EXCEPT !.pc = pc] = [pc |-> pc, op |-> w.op, seat |-> w.seat, box |-> w.box]
  BY DEF Work
<1>2. ASSUME NEW v, v = [pc |-> pc, op |-> w.op, seat |-> w.seat, box |-> w.box]
      PROVE  /\ [v EXCEPT !.seat = s] = [pc |-> pc, op |-> w.op, seat |-> s, box |-> w.box]
             /\ [v EXCEPT !.box = c] = [pc |-> pc, op |-> w.op, seat |-> w.seat, box |-> c]
  <2>1. [v EXCEPT !.seat = s] = [pc |-> pc, op |-> w.op, seat |-> s, box |-> w.box]
    BY <1>2
  <2>2. [v EXCEPT !.box = c] = [pc |-> pc, op |-> w.op, seat |-> w.seat, box |-> c]
    BY <1>2
  <2> QED BY <2>1, <2>2
<1>3. /\ [w EXCEPT !.pc = pc, !.seat = s] = [[w EXCEPT !.pc = pc] EXCEPT !.seat = s]
      /\ [w EXCEPT !.pc = pc, !.box = c] = [[w EXCEPT !.pc = pc] EXCEPT !.box = c]
  OBVIOUS
<1> QED BY <1>1, <1>2, <1>3

LEMMA QuotaKeeps == ASSUME Billed, NEW h \in Handlers, C!Quota(h) PROVE Billed'
<1>1. CASE C!Fails(h)
  BY <1>1, FailsKeeps DEF C!Quota, C!moneyVars, C!roomVars
<1>2. CASE C!To(h, "seat") /\ UNCHANGED <<form, pending>>
  <2>1. Keeps(h) /\ job'[h].pc = "seat"
    BY <1>2, ToWorks, WorkFields DEF C!Quota, C!At, Pcs, Held
  <2> QED BY <1>2, <2>1, BilledTypes, OnwardKeeps DEF C!Quota, C!moneyVars, C!roomVars
<1> QED BY <1>1, <1>2 DEF C!Quota

LEMMA SeatKeeps == ASSUME Billed, NEW h \in Handlers, C!Seat(h) PROVE Billed'
<1>1. CASE C!Fails(h)
  BY <1>1, FailsKeeps DEF C!Seat, C!moneyVars, C!roomVars
<1>2. ASSUME NEW t \in C!Rooms(job[h].op), UNCHANGED <<form, pending>>,
             job' = [job EXCEPT ![h].pc = "look", ![h].seat = t]
      PROVE  Billed'
  <2>1. t \in C!Seats
    <3>1. job[h].op \in C!Ops
      BY WorkFields DEF C!Seat, C!At, C!Ops, Ops
    <3> QED BY <1>2, <3>1, BilledTypes
        DEF C!Rooms, C!PriorRoom, C!Empty, C!Unopened, C!Seats
  <2>2. job' = [job EXCEPT ![h] =
                  [pc |-> "look", op |-> job[h].op, seat |-> t, box |-> job[h].box]]
    <3>1. job[h] \in Work
      BY WorkTyped
    <3>2. [job[h] EXCEPT !.pc = "look", !.seat = t] =
            [pc |-> "look", op |-> job[h].op, seat |-> t, box |-> job[h].box]
      BY <3>1, Repointed
    <3>3. job' = [job EXCEPT ![h] = [job[h] EXCEPT !.pc = "look", !.seat = t]]
      BY <1>2, WorkTyped
    <3> QED BY <3>2, <3>3
  <2>3. Keeps(h) /\ job'[h].pc = "look"
    <3>1. "look" \in Pcs \ Held /\ job[h].pc # "idle" /\ pending' = pending
      BY <1>2 DEF C!Seat, C!At, Pcs, Held
    <3>2. job[h].box \in Containers \cup {None}
      BY WorkFields
    <3> QED BY <2>1, <2>2, <3>1, <3>2, OnwardWorks
  <2> QED BY <1>2, <2>3, BilledTypes, OnwardKeeps DEF C!Seat, C!moneyVars, C!roomVars
<1> QED BY <1>1, <1>2 DEF C!Seat

\* _persist_workspace, whoever found or paid for the workspace.
LEMMA PersistKeeps ==
    ASSUME Billed, NEW h \in Handlers, job[h].pc # "idle", NEW c \in Containers, C!Persist(h, c),
           UNCHANGED <<dm, paid, seat, bound, roomOf, prompts, begun>>
    PROVE  Billed'
<1>1. CASE row[job[h].op] \notin {None, c}
  BY <1>1, FailsKeeps DEF C!Persist
<1>2. CASE row[job[h].op] \in {None, c}
  <2>1. /\ row' = [row EXCEPT ![job[h].op] = c] /\ UNCHANGED <<form, pending>>
        /\ job' = [job EXCEPT ![h].pc = "room", ![h].box = c]
    BY <1>2 DEF C!Persist
  <2>2. job' = [job EXCEPT ![h] =
                  [pc |-> "room", op |-> job[h].op, seat |-> job[h].seat, box |-> c]]
    <3>1. job[h] \in Work
      BY WorkTyped
    <3>2. [job[h] EXCEPT !.pc = "room", !.box = c] =
            [pc |-> "room", op |-> job[h].op, seat |-> job[h].seat, box |-> c]
      BY <3>1, Repointed
    <3>3. job' = [job EXCEPT ![h] = [job[h] EXCEPT !.pc = "room", !.box = c]]
      BY <2>1, WorkTyped
    <3> QED BY <3>2, <3>3
  <2>3. Keeps(h) /\ job'[h].pc = "room"
    BY <2>1, <2>2, WorkFields, OnwardWorks DEF Pcs, Held
  <2>4. row' \in [C!Ops -> Containers \cup {None}]
    BY <2>1, BilledTypes
  <2> QED BY <2>1, <2>3, <2>4, BilledTypes, OnwardKeeps
<1> QED BY <1>1, <1>2

LEMMA FoundTyped ==
    ASSUME Billed, NEW h \in Handlers, job[h].pc # "idle"
    PROVE  /\ C!Found(job[h].op) \subseteq Containers
           /\ C!Found(job[h].op) = {} => \A c \in Containers : paid[c] # job[h].op
BY BilledTypes, WorkFields DEF C!Found, C!Ops, Ops

LEMMA LookKeeps == ASSUME Billed, NEW h \in Handlers, C!Look(h) PROVE Billed'
<1>1. CASE C!Fails(h) /\ UNCHANGED row
  BY <1>1, FailsKeeps DEF C!Look, C!roomVars
<1>2. ASSUME NEW c \in C!Found(job[h].op), C!Persist(h, c) PROVE Billed'
  BY <1>2, FoundTyped, PersistKeeps DEF C!Look, C!At, C!roomVars
<1>3. CASE C!Found(job[h].op) = {} /\ C!To(h, "post") /\ UNCHANGED <<row, form, pending>>
  <2>1. Keeps(h) /\ job'[h].pc = "post"
    BY <1>3, ToWorks, WorkFields DEF C!Look, C!At, Pcs, Held
  <2>2. \A c \in Containers : paid[c] # job[h].op
    BY <1>3, FoundTyped DEF C!Look, C!At
  <2> QED BY <1>3, <2>1, <2>2, BilledTypes, OnwardKeeps DEF C!Look, C!roomVars
<1> QED BY <1>1, <1>2, <1>3 DEF C!Look

LEMMA PostKeeps == ASSUME Billed, NEW h \in Handlers, C!Post(h) PROVE Billed'
<1>1. CASE C!Fails(h) /\ UNCHANGED paid
  BY <1>1, FailsKeeps DEF C!Post, C!roomVars
<1>2. CASE C!To(h, "unsure") /\ UNCHANGED <<paid, form, pending>>
  <2>1. Keeps(h) /\ job'[h].pc = "unsure"
    BY <1>2, ToWorks, WorkFields DEF C!Post, C!At, Pcs, Held
  <2> QED BY <1>2, <2>1, BilledTypes, OnwardKeeps DEF C!Post, C!roomVars
<1>3. ASSUME NEW c \in Containers, NEW answer \in {"paid", "unsure"},
             C!Pay(h, c, answer), UNCHANGED <<form, pending>>
      PROVE  Billed'
  <2> DEFINE box == IF answer = "paid" THEN c ELSE None
  <2>0. job[h].pc = "post" /\ job[h].op \in Ops
    BY WorkFields DEF C!Post, C!At
  <2>1. job' = [job EXCEPT ![h] =
                  [pc |-> answer, op |-> job[h].op, seat |-> job[h].seat, box |-> box]]
    <3>1. job[h] \in Work
      BY WorkTyped
    <3>2. [job[h] EXCEPT !.pc = answer, !.box = box] =
            [pc |-> answer, op |-> job[h].op, seat |-> job[h].seat, box |-> box]
      BY <3>1, Repointed
    <3>3. job' = [job EXCEPT ![h] = [job[h] EXCEPT !.pc = answer, !.box = box]]
      BY <1>3, WorkTyped DEF C!Pay
    <3> QED BY <3>2, <3>3
  <2>2. Keeps(h) /\ job'[h].pc = answer
    <3>1. box \in Containers \cup {None} /\ (answer \in Held => box \in Containers)
      BY DEF Held
    <3>2. answer \in Pcs /\ job[h].pc # "idle" /\ pending' = pending /\ job[h].seat \in C!Seats
      BY <1>3, <2>0, WorkFields DEF Pcs
    <3> HIDE DEF box
    <3> QED BY <2>1, <3>1, <3>2, OnwardWorks
  <2>3. paid' = [paid EXCEPT ![c] = job[h].op] /\ paid[c] = None
    BY <1>3 DEF C!Pay
  <2>4. paid' \in [Containers -> C!Ops \cup {None}]
    BY <2>0, <2>3, BilledTypes DEF C!Ops, Ops
  <2>5. OneHolder'
    BY <2>2, KeepsHolder
  <2>6. \A o \in Typed, d, e \in Containers : paid'[d] = o /\ paid'[e] = o => d = e
    <3>1. \A d \in Containers : paid'[d] = IF d = c THEN job[h].op ELSE paid[d]
      BY <2>3, BilledTypes
    <3>2. job[h].op \in Typed => \A d \in Containers : paid[d] # job[h].op
      BY <2>0 DEF Billed, OnePayment
    <3> QED BY <3>1, <3>2 DEF Billed, OnePayment
  <2>7. \A g \in Handlers, d \in Containers :
            job'[g].pc = "post" /\ job'[g].op \in Typed => paid'[d] # job'[g].op
    <3> SUFFICES ASSUME NEW g \in Handlers, NEW d \in Containers,
                        job'[g].pc = "post", job'[g].op \in Typed
                 PROVE  paid'[d] # job'[g].op
      OBVIOUS
    <3>1. g # h /\ job'[g] = job[g]
      BY <2>2 DEF Keeps, Worked
    <3>2. job[g].op # job[h].op
      BY <3>1 DEF Billed, OneHolder
    <3>3. paid[d] # job[g].op
      BY <3>1 DEF Billed, OnePayment
    <3> QED BY <2>3, <3>1, <3>2, <3>3, BilledTypes
  <2>8. dm' \in BOOLEAN /\ UNCHANGED <<dm, row, seat, bound, roomOf, prompts, begun>>
    BY BilledTypes DEF C!Post, C!roomVars
  <2>9. C!TypeOK'
    BY <1>3, <2>2, <2>4, <2>8, BilledTypes DEF Keeps, Worked, Work, C!TypeOK, C!Ops, Ops
  <2> QED BY <2>5, <2>6, <2>7, <2>8, <2>9 DEF Billed, OnePayment, C!SpokenOnce
<1> QED BY <1>1, <1>2, <1>3 DEF C!Post

LEMMA PaidKeeps == ASSUME Billed, NEW h \in Handlers, C!Paid(h) PROVE Billed'
<1>1. job[h].box \in Containers
  BY WorkFields DEF C!Paid, C!At, Held
<1> QED BY <1>1, PersistKeeps DEF C!Paid, C!At, C!roomVars

LEMMA UnsureKeeps == ASSUME Billed, NEW h \in Handlers, C!Unsure(h) PROVE Billed'
<1>1. CASE C!Fails(h) /\ UNCHANGED row
  BY <1>1, FailsKeeps DEF C!Unsure, C!roomVars
<1>2. ASSUME NEW c \in C!Found(job[h].op), C!Persist(h, c) PROVE Billed'
  BY <1>2, FoundTyped, PersistKeeps DEF C!Unsure, C!At, C!roomVars
<1> QED BY <1>1, <1>2 DEF C!Unsure

LEMMA RoomKeeps == ASSUME Billed, NEW h \in Handlers, C!Room(h) PROVE Billed'
<1>1. CASE C!Fails(h) /\ UNCHANGED seat
  BY <1>1, FailsKeeps DEF C!Room, C!moneyVars
<1>2. CASE /\ seat' = [seat EXCEPT ![job[h].box] = job[h].seat]
           /\ C!To(h, "bind") /\ UNCHANGED <<form, pending>>
  <2>1. Keeps(h) /\ job'[h].pc = "bind"
    BY <1>2, ToWorks, WorkFields DEF C!Room, C!At, Pcs, Held
  <2>2. seat' \in [Containers -> C!Seats \cup {None}]
    BY <1>2, BilledTypes, WorkFields DEF C!Room, C!At, Held
  <2> QED BY <1>2, <2>1, <2>2, BilledTypes, OnwardKeeps DEF C!Room, C!moneyVars
<1> QED BY <1>1, <1>2 DEF C!Room

LEMMA BindKeeps == ASSUME Billed, NEW h \in Handlers, C!Bind(h) PROVE Billed'
<1>1. Keeps(h) /\ job'[h].pc = "route"
  BY ToWorks, WorkFields DEF C!Bind, C!At, Pcs, Held
<1>2. bound' \subseteq Containers
  BY BilledTypes, WorkFields DEF C!Bind, C!At, Held
<1> QED BY <1>1, <1>2, BilledTypes, OnwardKeeps DEF C!Bind, C!moneyVars

LEMMA RouteKeeps == ASSUME Billed, NEW h \in Handlers, C!Route(h) PROVE Billed'
<1>1. CASE C!Fails(h) /\ UNCHANGED roomOf
  BY <1>1, FailsKeeps DEF C!Route, C!moneyVars
<1>2. CASE C!To(h, "ask") /\ UNCHANGED <<form, pending>> /\ ~UNCHANGED roomOf
  <2>1. Keeps(h) /\ job'[h].pc = "ask"
    BY <1>2, ToWorks, WorkFields DEF C!Route, C!At, Pcs, Held
  <2>2. roomOf' = [x \in C!Seats |-> IF x = job[h].seat THEN job[h].box
                                     ELSE IF roomOf[x] = job[h].box THEN None ELSE roomOf[x]]
    BY <1>2 DEF C!Route
  <2>3. roomOf' \in [C!Seats -> Containers \cup {None}]
    BY <2>2, BilledTypes, WorkFields
  <2> QED BY <1>2, <2>1, <2>3, BilledTypes, OnwardKeeps DEF C!Route, C!moneyVars
<1>3. CASE C!To(h, "ask") /\ UNCHANGED <<form, pending>> /\ UNCHANGED roomOf
  <2>1. Keeps(h) /\ job'[h].pc = "ask"
    BY <1>3, ToWorks, WorkFields DEF C!Route, C!At, Pcs, Held
  <2> QED BY <1>3, <2>1, BilledTypes, OnwardKeeps DEF C!Route, C!moneyVars
<1> QED BY <1>1, <1>2, <1>3 DEF C!Route

LEMMA AskKeeps == ASSUME Billed, NEW h \in Handlers, C!Ask(h) PROVE Billed'
<1>0. job[h].op \in C!Ops
  BY WorkFields DEF C!Ask, C!At, C!Ops, Ops
<1>1. Keeps(h) /\ job'[h].pc = "idle"
  BY EndWorks DEF C!Ask
<1>2. form' \in C!Forms
  BY EndedTyped DEF C!Ask
<1>3. prompts' = IF C!Asked(job[h].op) THEN prompts
                 ELSE [prompts EXCEPT ![job[h].op] = prompts[job[h].op] + 1]
  BY DEF C!Ask
<1>4. prompts' \in [C!Ops -> Nat]
  BY <1>0, <1>3, BilledTypes
<1>5. ASSUME NEW o \in Spoken PROVE prompts'[o] <= 1
  <2>1. o \in C!Ops /\ prompts[o] \in Nat /\ prompts[o] <= 1
    BY BilledTypes DEF Billed, C!SpokenOnce, C!Ops
  <2> QED BY <1>0, <1>3, <2>1, BilledTypes DEF C!Asked
<1>6. dm' \in BOOLEAN /\ UNCHANGED <<dm, paid, row, seat, bound, roomOf, begun, pending>>
  BY BilledTypes DEF C!Ask, C!moneyVars, C!roomVars
<1>7. C!TypeOK'
  BY <1>1, <1>2, <1>4, <1>6, BilledTypes DEF Keeps, Worked, Work, C!TypeOK, C!Ops, Ops
<1>8. OneHolder'
  BY <1>1, KeepsHolder
<1>9. OnePayment'
  <2>1. \A g \in Handlers : job'[g].pc = "post" => job'[g] = job[g]
    BY <1>1 DEF Keeps, Worked
  <2> QED BY <1>6, <2>1 DEF Billed, OnePayment
<1> QED BY <1>5, <1>7, <1>8, <1>9 DEF Billed, C!SpokenOnce

\* An intent that a handler takes up: a typed one was pending until then.
LEMMA BeginKeeps ==
    ASSUME Billed, NEW h \in Handlers, NEW o \in C!Ops, NEW pc \in {"quota", "seat"},
           C!Begin(h, o, pc), form' \in C!Forms, pending' \subseteq pending,
           o \in Typed => o \in pending /\ o \notin pending'
    PROVE  Billed'
<1> USE CreationGiven
<1>1. job' = [job EXCEPT ![h] = [C!Idle EXCEPT !.pc = pc, !.op = o]]
  BY DEF C!Begin
<1>2. [C!Idle EXCEPT !.pc = pc, !.op = o]
        = [pc |-> pc, op |-> o, seat |-> Root, box |-> None]
  <2>1. [C!Idle EXCEPT !.pc = pc] = [pc |-> pc, op |-> None, seat |-> Root, box |-> None]
    BY DEF C!Idle
  <2>2. ASSUME NEW v, v = [pc |-> pc, op |-> None, seat |-> Root, box |-> None]
        PROVE  [v EXCEPT !.op = o] = [pc |-> pc, op |-> o, seat |-> Root, box |-> None]
    BY <2>2
  <2> QED BY <2>1, <2>2
<1>3. [pc |-> pc, op |-> o, seat |-> Root, box |-> None] \in Work
  BY DEF Work, C!Ops, Ops, C!Seats
<1>4. /\ job' \in [Handlers -> Work] /\ \A g \in Handlers \ {h} : job'[g] = job[g]
      /\ job'[h].op = o /\ job'[h].pc = pc
  BY <1>1, <1>2, <1>3, WorkTyped
<1>5. \A g \in Handlers :
          /\ job'[g].pc = "idle" <=> job'[g].op = None
          /\ job'[g].pc \in Held => job'[g].box \in Containers
  BY <1>4 DEF Billed, OneHolder, C!Ops, Ops, Held
<1>6. ASSUME NEW p \in Typed, NEW g \in Handlers, job'[g].op = p
      PROVE  p \notin pending' /\ \A f \in Handlers \ {g} : job'[f].op # p
  <2>1. CASE p = o
    <3>1. \A f \in Handlers : job[f].op # o
      BY <2>1 DEF Billed, OneHolder
    <3> QED BY <1>4, <2>1, <3>1, <1>6
  <2>2. CASE p # o
    <3>1. g # h /\ job[g].op = p
      BY <1>4, <1>6, <2>2
    <3>2. p \notin pending /\ \A f \in Handlers \ {g} : job[f].op # p
      BY <3>1 DEF Billed, OneHolder
    <3> QED BY <1>4, <2>2, <3>2
  <2> QED BY <2>1, <2>2
<1>7. dm' \in BOOLEAN /\ UNCHANGED <<dm, paid, row, seat, bound, roomOf, prompts>>
  BY BilledTypes DEF C!Begin, C!moneyVars, C!roomVars
<1>8. begun' \in 0..MaxBegun
  BY BilledTypes DEF C!Begin
<1>9. C!TypeOK'
  BY <1>4, <1>7, <1>8, BilledTypes DEF Work, C!TypeOK, C!Ops, Ops
<1>10. OnePayment'
  <2>1. \A g \in Handlers : job'[g].pc = "post" => job'[g] = job[g]
    BY <1>4
  <2> QED BY <1>7, <2>1 DEF Billed, OnePayment
<1> QED BY <1>5, <1>6, <1>7, <1>9, <1>10 DEF Billed, OneHolder, C!SpokenOnce

LEMMA IntentsKeep ==
    ASSUME Billed, NEW h \in Handlers, NEW o \in C!Ops,
           C!NewLine(h, o) \/ C!PromptLine(h, o) \/ C!TapStart(h, o) \/ C!Hear(h, o)
    PROVE  Billed'
<1>1. "closed" \in C!Forms /\ form \in C!Forms
  BY BilledTypes DEF C!Forms
<1>2. CASE C!NewLine(h, o)
  BY <1>1, <1>2, BeginKeeps DEF C!NewLine
<1>3. CASE C!PromptLine(h, o)
  BY <1>1, <1>3, BeginKeeps DEF C!PromptLine
<1>4. CASE C!TapStart(h, o)
  BY <1>1, <1>4, BeginKeeps, CreationGiven DEF C!TapStart
<1>5. CASE C!Hear(h, o)
  <2>1. \E pc \in {"quota", "seat"} : C!Begin(h, o, pc)
    BY <1>5 DEF C!Hear
  <2>2. o \notin Typed /\ pending' \subseteq pending /\ form' \in C!Forms
    BY <1>1, <1>5, CreationGiven DEF C!Hear
  <2> QED BY <2>1, <2>2, BeginKeeps
<1> QED BY <1>2, <1>3, <1>4, <1>5

LEMMA FormKeeps ==
    ASSUME Billed, NEW states, NEW next, C!Rewrite(states, next), next \subseteq C!Forms
    PROVE  Billed'
<1>1. /\ UNCHANGED <<dm, paid, row, seat, bound, roomOf, prompts, begun, pending, job>>
      /\ form' \in C!Forms /\ dm' \in BOOLEAN
  BY BilledTypes DEF C!Rewrite, C!moneyVars, C!roomVars
<1>2. C!TypeOK'
  BY <1>1 DEF Billed, C!TypeOK
<1> QED BY <1>1, <1>2 DEF Billed, OneHolder, OnePayment, C!SpokenOnce

LEMMA CutShortKeeps == ASSUME Billed, C!Crash PROVE Billed'
<1>1. job' = [h \in Handlers |-> C!Idle] /\ pending' \subseteq Typed \cup Spoken
  BY BilledTypes DEF C!Crash
<1>2. \A h \in Handlers : job'[h] \in Work /\ job'[h].pc = "idle" /\ job'[h].op = None
  BY <1>1, IdleTyped
<1>3. /\ UNCHANGED <<dm, paid, row, seat, bound, roomOf, prompts, begun, form>>
      /\ dm' \in BOOLEAN
  BY BilledTypes DEF C!Crash, C!moneyVars, C!roomVars
<1>4. C!TypeOK'
  BY <1>1, <1>2, <1>3, BilledTypes DEF Work, C!TypeOK, C!Ops, Ops
<1>5. OneHolder' /\ OnePayment'
  BY <1>2, <1>3, CreationGiven DEF Billed, OneHolder, OnePayment, Ops, Held
<1> QED BY <1>3, <1>4, <1>5 DEF Billed, C!SpokenOnce

LEMMA BilledStep == Billed /\ [C!Next]_(C!vars) => Billed'
<1> SUFFICES ASSUME Billed, [C!Next]_(C!vars) PROVE Billed'
  OBVIOUS
<1>1. CASE C!StartWizard \/ C!StartTask \/ C!Advance \/ C!TypedOption \/ C!Change \/ C!CloseForm
  BY <1>1, FormKeeps DEF C!StartWizard, C!StartTask, C!Advance, C!TypedOption, C!Change,
     C!CloseForm, C!Cleared, C!Forms
<1>2. ASSUME NEW h \in Handlers, C!Step(h) PROVE Billed'
  BY <1>2, IntentsKeep, QuotaKeeps, SeatKeeps, LookKeeps, PostKeeps, PaidKeeps, UnsureKeeps,
     RoomKeeps, BindKeeps, RouteKeeps, AskKeeps DEF C!Step
<1>3. CASE C!Crash
  BY <1>3, CutShortKeeps
<1>4. CASE UNCHANGED C!vars
  <2>1. /\ UNCHANGED <<dm, paid, row, seat, bound, roomOf, prompts, form, begun, pending, job>>
        /\ dm' \in BOOLEAN
    BY <1>4, BilledTypes DEF C!vars, C!moneyVars, C!roomVars
  <2>2. C!TypeOK'
    BY <2>1 DEF Billed, C!TypeOK
  <2> QED BY <2>1, <2>2 DEF Billed, OneHolder, OnePayment, C!SpokenOnce
<1> QED BY <1>1, <1>2, <1>3, <1>4 DEF C!Next

LEMMA OnlyOneBill == Billed => OneIntentOneBill
<1> SUFFICES ASSUME Billed, NEW o \in Typed PROVE C!Bills(o) <= 1
  BY DEF OneIntentOneBill, C!OneBillPerLine, Billed
<1> DEFINE billed == {c \in Containers : paid[c] = o}
<1>1. C!Bills(o) = Cardinality(billed)
  BY DEF C!Bills, C!Cardinality, Cardinality
<1>2. CASE billed = {}
  BY <1>1, <1>2, FS_EmptySet
<1>3. ASSUME NEW c \in billed PROVE billed = {c}
  BY <1>3 DEF Billed, OnePayment
<1>4. \A c \in Containers : Cardinality({c}) = 1
  BY FS_Singleton
<1> QED BY <1>1, <1>2, <1>3, <1>4

\* However its update is redelivered, its handler killed or its POST left
\* unanswered, one typed line pays for at most one workspace and a spoken
\* task is asked once (stable_nonce, reconcile_workspace, create_and_bind_input).
THEOREM OneLineOneWorkspace == SideBySide => []OneIntentOneBill
<1>1. C!Spec => []Billed
  BY BilledInit, BilledStep, PTL DEF C!Spec
<1> QED BY <1>1, CreationSteps, OnlyOneBill, PTL

-----------------------------------------------------------------------------
(* The receipts.                                                           *)
LEMMA ReceiptSteps == SideBySide => R!Spec
<1>1. Start => R!Init
  BY DEF Start
<1>2. [Step]_<<world, vars, creationVars, receiptVars>> => [R!Next]_(R!vars)
  BY DEF Step, receiptVars, R!vars
<1> QED BY <1>1, <1>2, PTL DEF SideBySide, R!Spec

LEMMA ReceiptsGiven == MaxPrompts \in Nat \ {0} /\ MaxFinals \in Nat \ {0} /\ MaxMishaps \in Nat
BY ConstantsFit DEF R!ReceiptsAssumption

(* The invariant.  The receipt of a prompt is the row of its number; one   *)
(* not marked yet shows no more than it says, and has rung only for the    *)
(* deaths so far, and once for itself if it has landed.                    *)
Numbered ==
    /\ \A k \in R!Keys : receipt[k].prompt \in {0, k}
    /\ sink.pc # "idle" => prompt > 0
    /\ sink.pc \in {"announce", "revise"} => sink.key = sink.prompt /\ sink.key > 0

Counted ==
    \A k \in R!Keys :
        rings[k] <= mishaps + (IF receipt[k].state \in {"landed", "sent"} THEN 1 ELSE 0)

Shown ==
    /\ \A k \in R!Keys : screen[k] <= finals /\ receipt[k].text <= finals
    /\ \A k \in R!Keys : receipt[k].state # "sent" => screen[k] <= receipt[k].text

Receipted == R!TypeOK /\ Numbered /\ Counted /\ Shown

RowType ==
    [state : {"none", "pending", "sending", "landed", "sent"}, text : 0..MaxFinals,
     prompt : 0..MaxPrompts]
Places == {"idle", "read", "announce", "revise", "link", "queueLink", "markLink"}

LEMMA ReceiptedInit == R!Init => Receipted
<1> SUFFICES ASSUME R!Init PROVE Receipted
  OBVIOUS
<1>1. R!TypeOK
  <2>1. R!Idle \in [pc : Places, key : R!Rows, prompt : 0..MaxPrompts]
    BY ReceiptsGiven DEF R!Idle, Places, R!Rows
  <2>2. [state |-> "none", text |-> 0, prompt |-> 0] \in RowType
    BY ReceiptsGiven DEF RowType
  <2>3. receipt \in [R!Rows -> RowType]
    BY <2>2 DEF R!Init
  <2>4. muted \in BOOLEAN
    BY DEF R!Init
  <2> QED BY <2>1, <2>3, <2>4, ReceiptsGiven DEF R!Init, R!TypeOK, Places, RowType
<1>2. \A k \in R!Keys : k \in R!Rows
  BY DEF R!Rows
<1>3. Numbered /\ Counted /\ Shown
  BY <1>2, ReceiptsGiven DEF R!Init, Numbered, Counted, Shown, R!Idle
<1> QED BY <1>1, <1>3 DEF Receipted

LEMMA ReceiptTypes ==
    ASSUME Receipted
    PROVE  /\ prompt \in 0..MaxPrompts /\ finals \in 0..MaxFinals /\ mishaps \in 0..MaxMishaps
           /\ sink \in [pc : Places, key : R!Rows, prompt : 0..MaxPrompts]
           /\ receipt \in [R!Rows -> RowType]
           /\ screen \in [R!Rows -> 0..MaxFinals] /\ rings \in [R!Rows -> Nat]
           /\ muted \in BOOLEAN
           /\ 0 \in R!Rows /\ R!Keys \subseteq R!Rows \ {0} /\ R!Keys \subseteq Nat
           /\ 1..MaxPrompts \subseteq R!Keys
<1>1. muted \in BOOLEAN
  BY Zenon DEF Receipted, R!TypeOK
<1>2. 0 \in R!Rows /\ R!Keys \subseteq R!Rows \ {0} /\ R!Keys \subseteq Nat
      /\ 1..MaxPrompts \subseteq R!Keys
  BY ReceiptsGiven DEF R!Rows, R!Keys, R!Link
<1> QED BY <1>1, <1>2 DEF Receipted, R!TypeOK, RowType, Places

LEMMA SinkFields ==
    ASSUME Receipted
    PROVE  sink.pc \in Places /\ sink.key \in R!Rows /\ sink.prompt \in 0..MaxPrompts
BY ReceiptTypes

\* Where the poller stands next.
LEMMA SinkMoves ==
    ASSUME Receipted, NEW pc \in Places, sink' = [sink EXCEPT !.pc = pc]
    PROVE  /\ sink' \in [pc : Places, key : R!Rows, prompt : 0..MaxPrompts]
           /\ sink'.pc = pc /\ sink'.key = sink.key /\ sink'.prompt = sink.prompt
BY ReceiptTypes

\* A step that leaves the rows alone.
LEMMA RowsStand ==
    ASSUME Receipted, UNCHANGED <<finals, receipt, screen, rings, mishaps>>,
           prompt' \in 0..MaxPrompts, prompt' >= prompt, muted' \in BOOLEAN,
           sink' \in [pc : Places, key : R!Rows, prompt : 0..MaxPrompts],
           sink'.pc = "idle" \/ prompt > 0,
           sink'.pc \in {"announce", "revise"} => sink'.key = sink'.prompt /\ sink'.key > 0
    PROVE  Receipted' /\ \A k \in R!Keys : screen'[k] >= screen[k]
<1>1. R!TypeOK'
  BY ReceiptTypes DEF R!TypeOK, RowType, Places
<1>2. Numbered'
  BY ReceiptTypes DEF Receipted, Numbered
<1>3. Counted' /\ Shown'
  BY DEF Receipted, Counted, Shown
<1>4. \A k \in R!Keys : screen'[k] >= screen[k]
  BY ReceiptTypes
<1> QED BY <1>1, <1>2, <1>3, <1>4 DEF Receipted

LEMMA AskReceipts ==
    ASSUME Receipted, R!Ask
    PROVE  Receipted' /\ \A k \in R!Keys : screen'[k] >= screen[k]
<1>1. prompt' \in 0..MaxPrompts /\ prompt' >= prompt
  BY ReceiptTypes, ReceiptsGiven DEF R!Ask
<1>2. muted' \in BOOLEAN
  BY ReceiptTypes DEF R!Ask
<1> QED BY <1>1, <1>2, ReceiptTypes, RowsStand DEF R!Ask, Receipted, Numbered

LEMMA FinalizeReceipts ==
    ASSUME Receipted, R!Finalize
    PROVE  Receipted' /\ \A k \in R!Keys : screen'[k] >= screen[k]
<1>1. finals' \in 0..MaxFinals /\ finals' >= finals /\ muted' \in BOOLEAN
  BY ReceiptTypes, ReceiptsGiven DEF R!Finalize
<1>2. sink' = [pc |-> "read", key |-> 0, prompt |-> 0]
  BY DEF R!Finalize, R!Idle, R!Link
<1>3. R!TypeOK'
  <2>1. sink' \in [pc : Places, key : R!Rows, prompt : 0..MaxPrompts]
    BY <1>2, ReceiptTypes, ReceiptsGiven DEF Places
  <2> QED BY <1>1, <2>1, ReceiptTypes DEF R!Finalize, R!TypeOK, RowType, Places
<1>4. Numbered'
  BY <1>2, ReceiptTypes DEF R!Finalize, Receipted, Numbered
<1>5. Counted'
  BY DEF R!Finalize, Receipted, Counted
<1>6. \A k \in R!Keys : screen[k] \in Nat /\ receipt[k].text \in Nat /\ finals \in Nat
  BY ReceiptTypes DEF RowType
<1>7. Shown'
  BY <1>1, <1>6, ReceiptsGiven DEF R!Finalize, Receipted, Shown
<1> QED BY <1>3, <1>4, <1>5, <1>6, <1>7 DEF R!Finalize, Receipted

LEMMA ReadSeatReceipts ==
    ASSUME Receipted, R!ReadSeat
    PROVE  Receipted' /\ \A k \in R!Keys : screen'[k] >= screen[k]
<1>0. prompt > 0 /\ prompt \in 0..MaxPrompts /\ prompt \in R!Rows
  BY ReceiptTypes DEF R!ReadSeat, R!At, Receipted, Numbered
<1>1. muted' \in BOOLEAN /\ prompt' \in 0..MaxPrompts /\ prompt' >= prompt
  BY ReceiptTypes DEF R!ReadSeat
<1>2. CASE muted
  <2>1. sink' = [sink EXCEPT !.pc = "link"]
    BY <1>2 DEF R!ReadSeat
  <2>2. /\ sink' \in [pc : Places, key : R!Rows, prompt : 0..MaxPrompts]
        /\ sink'.pc = "link"
    BY <2>1, SinkMoves DEF Places
  <2> QED BY <1>0, <1>1, <2>2, RowsStand DEF R!ReadSeat
<1>3. CASE ~muted
  <2>1. sink' = [pc |-> "announce", key |-> prompt, prompt |-> prompt]
    BY <1>3 DEF R!ReadSeat, R!FinishKey
  <2>2. sink' \in [pc : Places, key : R!Rows, prompt : 0..MaxPrompts]
    BY <1>0, <2>1 DEF Places
  <2> QED BY <1>0, <1>1, <2>1, <2>2, RowsStand DEF R!ReadSeat
<1> QED BY <1>2, <1>3

LEMMA SinkGoes ==
    ASSUME Receipted, sink.pc # "idle", NEW pc \in Places \ {"announce"}, R!To(pc),
           sink.pc = "announce" \/ pc # "revise",
           UNCHANGED <<prompt, finals, muted, receipt, screen, rings, mishaps>>
    PROVE  Receipted' /\ \A k \in R!Keys : screen'[k] >= screen[k]
<1>1. /\ sink' \in [pc : Places, key : R!Rows, prompt : 0..MaxPrompts]
      /\ sink'.pc = pc /\ sink'.key = sink.key /\ sink'.prompt = sink.prompt
  BY SinkMoves DEF R!To
<1>2. muted' \in BOOLEAN /\ prompt' \in 0..MaxPrompts /\ prompt' >= prompt
  BY ReceiptTypes
<1>3. prompt > 0 /\ (pc = "revise" => sink'.key = sink'.prompt /\ sink'.key > 0)
  BY <1>1 DEF Receipted, Numbered
<1> QED BY <1>1, <1>2, <1>3, RowsStand

\* A step that writes one row, and may show and ring it.
LEMMA OneRow ==
    ASSUME Receipted, NEW k \in R!Rows, NEW r \in RowType, NEW n \in Nat, NEW text \in 0..MaxFinals,
           receipt' = [receipt EXCEPT ![k] = r],
           rings' = [rings EXCEPT ![k] = n], screen' = [screen EXCEPT ![k] = text],
           UNCHANGED <<prompt, finals, muted, mishaps>>,
           sink' \in [pc : Places, key : R!Rows, prompt : 0..MaxPrompts],
           sink'.pc = "idle" \/ prompt > 0,
           sink'.pc \in {"announce", "revise"} => sink'.key = sink'.prompt /\ sink'.key > 0,
           k \in R!Keys =>
              /\ r.prompt \in {0, k}
              /\ n <= mishaps + (IF r.state \in {"landed", "sent"} THEN 1 ELSE 0)
              /\ screen[k] <= text /\ text <= finals /\ r.text <= finals
              /\ r.state # "sent" => text <= r.text
    PROVE  Receipted' /\ \A j \in R!Keys : screen'[j] >= screen[j]
<1>1. /\ receipt' \in [R!Rows -> RowType] /\ rings' \in [R!Rows -> Nat]
      /\ screen' \in [R!Rows -> 0..MaxFinals] /\ muted' \in BOOLEAN
  BY ReceiptTypes
<1>2. \A j \in R!Rows :
          /\ receipt'[j] = IF j = k THEN r ELSE receipt[j]
          /\ rings'[j] = IF j = k THEN n ELSE rings[j]
          /\ screen'[j] = IF j = k THEN text ELSE screen[j]
  BY ReceiptTypes
<1>3. R!TypeOK'
  BY <1>1, ReceiptTypes DEF R!TypeOK, RowType, Places
<1>4. R!Keys \subseteq R!Rows
  BY ReceiptTypes
<1>5. Numbered'
  BY <1>2, <1>4 DEF Receipted, Numbered
<1>6. Counted'
  BY <1>2, <1>4 DEF Receipted, Counted
<1>7. Shown'
  BY <1>2, <1>4 DEF Receipted, Shown
<1>8. \A j \in R!Keys : screen'[j] >= screen[j]
  <2>1. \A j \in R!Keys : screen[j] \in Nat
    BY <1>4, ReceiptTypes
  <2> QED BY <1>2, <1>4, <2>1
<1> QED BY <1>3, <1>5, <1>6, <1>7, <1>8 DEF Receipted

LEMMA RowFields ==
    ASSUME Receipted, NEW k \in R!Rows
    PROVE  /\ receipt[k] \in RowType /\ rings[k] \in Nat /\ screen[k] \in 0..MaxFinals
           /\ receipt[k].text \in 0..MaxFinals /\ receipt[k].prompt \in 0..MaxPrompts
           /\ receipt = [receipt EXCEPT ![k] = receipt[k]]
           /\ rings = [rings EXCEPT ![k] = rings[k]]
           /\ screen = [screen EXCEPT ![k] = screen[k]]
<1>1. receipt[k] \in RowType /\ rings[k] \in Nat /\ screen[k] \in 0..MaxFinals
  BY ReceiptTypes
<1> QED BY <1>1, ReceiptTypes DEF RowType

LEMMA Enqueues ==
    ASSUME Receipted, NEW k \in R!Rows, receipt[k].state = "none", R!Queue(k), sink.pc # "idle",
           k \in R!Keys => k = sink.prompt,
           NEW pc \in Places \ {"announce", "revise"}, R!To(pc),
           UNCHANGED <<prompt, finals, muted, screen, rings, mishaps>>
    PROVE  Receipted' /\ \A j \in R!Keys : screen'[j] >= screen[j]
<1> DEFINE r == [state |-> "pending", text |-> finals, prompt |-> sink.prompt]
<1>1. /\ sink' \in [pc : Places, key : R!Rows, prompt : 0..MaxPrompts] /\ sink'.pc = pc
  BY SinkMoves DEF R!To
<1>2. r \in RowType /\ r.state = "pending" /\ r.text = finals /\ r.prompt = sink.prompt
  BY ReceiptTypes, SinkFields DEF RowType
<1>3. receipt' = [receipt EXCEPT ![k] = r]
  BY DEF R!Queue
<1> HIDE DEF r
<1>4. rings' = [rings EXCEPT ![k] = rings[k]] /\ screen' = [screen EXCEPT ![k] = screen[k]]
  BY RowFields
<1>5. prompt > 0
  BY DEF Receipted, Numbered
<1>6. finals \in Nat /\ mishaps \in Nat /\ rings[k] \in Nat /\ screen[k] \in 0..MaxFinals
  BY ReceiptTypes, RowFields
<1>7. k \in R!Keys =>
          /\ r.prompt \in {0, k}
          /\ rings[k] <= mishaps + (IF r.state \in {"landed", "sent"} THEN 1 ELSE 0)
          /\ screen[k] <= screen[k] /\ screen[k] <= finals /\ r.text <= finals
          /\ r.state # "sent" => screen[k] <= r.text
  BY <1>2, <1>6 DEF Receipted, Counted, Shown
<1>8. sink'.pc \notin {"announce", "revise"}
  BY <1>1
<1> QED BY <1>1, <1>2, <1>3, <1>4, <1>5, <1>6, <1>7, <1>8, OneRow

LEMMA AnnounceReceipts ==
    ASSUME Receipted, R!Announce
    PROVE  Receipted' /\ \A k \in R!Keys : screen'[k] >= screen[k]
<1>1. CASE R!Enqueued(sink.key)
  BY <1>1, SinkGoes DEF R!Announce, R!At, Places
<1>2. CASE ~R!Enqueued(sink.key)
  <2>1. sink.key = sink.prompt /\ sink.key \in R!Rows
    BY SinkFields DEF R!Announce, R!At, Receipted, Numbered
  <2>2. R!Queue(sink.key) /\ R!To("link") /\ receipt[sink.key].state = "none"
    BY <1>2 DEF R!Announce, R!Enqueued
  <2> QED BY <2>1, <2>2, Enqueues DEF R!Announce, R!At, Places
<1> QED BY <1>1, <1>2

LEMMA ReviseReceipts ==
    ASSUME Receipted, R!Revise
    PROVE  Receipted' /\ \A k \in R!Keys : screen'[k] >= screen[k]
<1>1. CASE UNCHANGED screen
  BY <1>1, SinkGoes DEF R!Revise, R!At, Places
<1>2. CASE receipt[sink.key].state = "sent" /\ screen' = [screen EXCEPT ![sink.key] = finals]
  <2> DEFINE k == sink.key
  <2>1. k \in R!Rows /\ prompt > 0
    BY SinkFields DEF R!Revise, R!At, Receipted, Numbered
  <2>2. /\ sink' \in [pc : Places, key : R!Rows, prompt : 0..MaxPrompts]
        /\ sink'.pc = "link"
    BY SinkMoves DEF R!Revise, R!To, Places
  <2>3. receipt' = [receipt EXCEPT ![k] = receipt[k]] /\ rings' = [rings EXCEPT ![k] = rings[k]]
    BY <2>1, RowFields DEF R!Revise
  <2>4. finals \in 0..MaxFinals /\ mishaps \in Nat /\ rings[k] \in Nat /\ receipt[k] \in RowType
    BY <2>1, ReceiptTypes, RowFields
  <2>5. k \in R!Keys =>
            /\ receipt[k].prompt \in {0, k}
            /\ rings[k] <= mishaps + (IF receipt[k].state \in {"landed", "sent"} THEN 1 ELSE 0)
            /\ screen[k] <= finals /\ receipt[k].text <= finals
    BY DEF Receipted, Numbered, Counted, Shown
  <2>6. receipt[k].state = "sent" /\ screen' = [screen EXCEPT ![k] = finals] /\ finals <= finals
    BY <1>2, <2>4
  <2>7. UNCHANGED <<prompt, finals, muted, mishaps>>
    BY DEF R!Revise
  <2> HIDE DEF k
  <2> QED BY <2>1, <2>2, <2>3, <2>4, <2>5, <2>6, <2>7, OneRow
<1> QED BY <1>1, <1>2 DEF R!Revise

LEMMA LinkReceipts ==
    ASSUME Receipted, R!NoLink \/ R!SendLink \/ R!QueueLink \/ R!MarkLink
    PROVE  Receipted' /\ \A k \in R!Keys : screen'[k] >= screen[k]
<1>0. 0 \in R!Rows /\ 0 \notin R!Keys /\ muted \in BOOLEAN /\ prompt \in 0..MaxPrompts
  BY ReceiptTypes
<1>1. R!Idle \in [pc : Places, key : R!Rows, prompt : 0..MaxPrompts] /\ R!Idle.pc = "idle"
  BY <1>0, ReceiptsGiven DEF R!Idle, R!Link, Places
<1>2. CASE R!NoLink
  BY <1>0, <1>1, <1>2, RowsStand DEF R!NoLink
<1>3. CASE R!SendLink
  <2>1. /\ sink' \in [pc : Places, key : R!Rows, prompt : 0..MaxPrompts]
        /\ sink'.pc = "queueLink"
    BY <1>3, SinkMoves DEF R!SendLink, R!To, Places
  <2>2. /\ rings' = [rings EXCEPT ![0] = rings[0] + 1] /\ rings[0] + 1 \in Nat
        /\ receipt' = [receipt EXCEPT ![0] = receipt[0]] /\ receipt[0] \in RowType
        /\ screen' = [screen EXCEPT ![0] = screen[0]] /\ screen[0] \in 0..MaxFinals
    BY <1>0, <1>3, RowFields DEF R!SendLink, R!Link
  <2>3. prompt > 0 /\ UNCHANGED <<prompt, finals, muted, mishaps>>
    BY <1>3 DEF R!SendLink, R!At, Receipted, Numbered
  <2> QED BY <1>0, <2>1, <2>2, <2>3, OneRow
<1>4. CASE R!QueueLink
  <2> DEFINE r == [state |-> "pending", text |-> finals, prompt |-> sink.prompt]
  <2>1. /\ sink' \in [pc : Places, key : R!Rows, prompt : 0..MaxPrompts]
        /\ sink'.pc = "markLink"
    BY <1>4, SinkMoves DEF R!QueueLink, R!To, Places
  <2>2. r \in RowType /\ receipt' = [receipt EXCEPT ![0] = r]
    BY <1>4, ReceiptTypes, SinkFields DEF R!QueueLink, R!Queue, R!Link, RowType
  <2>3. /\ rings' = [rings EXCEPT ![0] = rings[0]] /\ rings[0] \in Nat
        /\ screen' = [screen EXCEPT ![0] = screen[0]] /\ screen[0] \in 0..MaxFinals
    BY <1>0, <1>4, RowFields DEF R!QueueLink
  <2>4. prompt > 0 /\ UNCHANGED <<prompt, finals, muted, mishaps>>
    BY <1>4 DEF R!QueueLink, R!At, Receipted, Numbered
  <2> HIDE DEF r
  <2> QED BY <1>0, <2>1, <2>2, <2>3, <2>4, OneRow
<1>5. CASE R!MarkLink
  <2> DEFINE r == [receipt[0] EXCEPT !.state = "sent"]
  <2>1. r \in RowType
    BY <1>0, RowFields DEF RowType
  <2>2. receipt' = [receipt EXCEPT ![0] = r]
    BY <1>0, <1>5, ReceiptTypes DEF R!MarkLink, R!Link
  <2>3. /\ rings' = [rings EXCEPT ![0] = rings[0]] /\ rings[0] \in Nat
        /\ screen' = [screen EXCEPT ![0] = screen[0]] /\ screen[0] \in 0..MaxFinals
    BY <1>0, <1>5, RowFields DEF R!MarkLink
  <2>4. sink' = R!Idle /\ UNCHANGED <<prompt, finals, muted, mishaps>>
    BY <1>5 DEF R!MarkLink
  <2> HIDE DEF r
  <2> QED BY <1>0, <1>1, <2>1, <2>2, <2>3, <2>4, OneRow
<1> QED BY <1>2, <1>3, <1>4, <1>5

LEMMA DeliverReceipts ==
    ASSUME Receipted, R!Deliver
    PROVE  Receipted' /\ \A k \in R!Keys : screen'[k] >= screen[k]
<1>0. /\ UNCHANGED <<prompt, finals, muted, sink, mishaps>> /\ mishaps \in Nat
      /\ sink \in [pc : Places, key : R!Rows, prompt : 0..MaxPrompts]
      /\ sink.pc = "idle" \/ prompt > 0
      /\ sink.pc \in {"announce", "revise"} => sink.key = sink.prompt /\ sink.key > 0
  BY ReceiptTypes DEF R!Deliver, Receipted, Numbered
<1>1. PICK k \in R!Rows : R!Claim(k) \/ R!Land(k) \/ R!Mark(k)
  BY DEF R!Deliver
<1> DEFINE r(s) == [receipt[k] EXCEPT !.state = s]
<1>2. \A s \in {"sending", "landed", "sent"} :
          /\ r(s) \in RowType /\ r(s).state = s
          /\ r(s).text = receipt[k].text /\ r(s).prompt = receipt[k].prompt
          /\ receipt' = [receipt EXCEPT ![k].state = s] => receipt' = [receipt EXCEPT ![k] = r(s)]
  BY RowFields, ReceiptTypes DEF RowType
<1>3. /\ screen[k] \in 0..MaxFinals /\ rings[k] \in Nat /\ rings[k] + 1 \in Nat
      /\ receipt[k].text \in 0..MaxFinals
      /\ rings = [rings EXCEPT ![k] = rings[k]] /\ screen = [screen EXCEPT ![k] = screen[k]]
  BY RowFields
<1>4. k \in R!Keys =>
          /\ receipt[k].prompt \in {0, k}
          /\ rings[k] <= mishaps + (IF receipt[k].state \in {"landed", "sent"} THEN 1 ELSE 0)
          /\ screen[k] <= finals /\ receipt[k].text <= finals
          /\ receipt[k].state # "sent" => screen[k] <= receipt[k].text
  BY DEF Receipted, Numbered, Counted, Shown
<1> HIDE DEF r
<1>5. CASE R!Claim(k)
  <2>1. /\ receipt[k].state = "pending" /\ receipt' = [receipt EXCEPT ![k] = r("sending")]
        /\ rings' = [rings EXCEPT ![k] = rings[k]] /\ screen' = [screen EXCEPT ![k] = screen[k]]
    BY <1>2, <1>3, <1>5 DEF R!Claim
  <2>2. k \in R!Keys =>
          /\ r("sending").prompt \in {0, k}
          /\ rings[k] <= mishaps + (IF r("sending").state \in {"landed", "sent"} THEN 1 ELSE 0)
          /\ screen[k] <= screen[k] /\ screen[k] <= finals /\ r("sending").text <= finals
          /\ r("sending").state # "sent" => screen[k] <= r("sending").text
    BY <1>2, <1>3, <1>4, <2>1
  <2> QED BY <1>0, <1>2, <1>3, <2>1, <2>2, OneRow
<1>6. CASE R!Land(k)
  <2>1. /\ receipt[k].state = "sending" /\ receipt' = [receipt EXCEPT ![k] = r("landed")]
        /\ rings' = [rings EXCEPT ![k] = rings[k] + 1]
        /\ screen' = [screen EXCEPT ![k] = receipt[k].text]
    BY <1>2, <1>3, <1>6 DEF R!Land
  <2>2. k \in R!Keys =>
          /\ r("landed").prompt \in {0, k}
          /\ rings[k] + 1 <= mishaps + (IF r("landed").state \in {"landed", "sent"} THEN 1 ELSE 0)
          /\ screen[k] <= receipt[k].text /\ receipt[k].text <= finals /\ r("landed").text <= finals
          /\ r("landed").state # "sent" => receipt[k].text <= r("landed").text
    BY <1>0, <1>2, <1>3, <1>4, <2>1
  <2> QED BY <1>0, <1>2, <1>3, <2>1, <2>2, OneRow
<1>7. CASE R!Mark(k)
  <2>1. /\ receipt[k].state = "landed" /\ receipt' = [receipt EXCEPT ![k] = r("sent")]
        /\ rings' = [rings EXCEPT ![k] = rings[k]] /\ screen' = [screen EXCEPT ![k] = screen[k]]
    BY <1>2, <1>3, <1>7 DEF R!Mark
  <2>2. k \in R!Keys =>
          /\ r("sent").prompt \in {0, k}
          /\ rings[k] <= mishaps + (IF r("sent").state \in {"landed", "sent"} THEN 1 ELSE 0)
          /\ screen[k] <= screen[k] /\ screen[k] <= finals /\ r("sent").text <= finals
          /\ r("sent").state # "sent" => screen[k] <= r("sent").text
    BY <1>2, <1>3, <1>4, <2>1
  <2> QED BY <1>0, <1>2, <1>3, <2>1, <2>2, OneRow
<1> QED BY <1>1, <1>5, <1>6, <1>7

LEMMA CrashReceipts ==
    ASSUME Receipted, R!Crash
    PROVE  Receipted' /\ \A k \in R!Keys : screen'[k] >= screen[k]
<1> DEFINE back(k) == IF receipt[k].state \in {"sending", "landed"} THEN "pending" ELSE receipt[k].state
<1>1. /\ UNCHANGED <<prompt, finals, muted, screen, rings>> /\ sink' = R!Idle
      /\ mishaps' = mishaps + 1 /\ mishaps' \in 0..MaxMishaps
  BY ReceiptTypes, ReceiptsGiven DEF R!Crash
<1>2. receipt' = [k \in R!Rows |-> [receipt[k] EXCEPT !.state = back(k)]]
  BY DEF R!Crash
<1>3. ASSUME NEW k \in R!Rows
      PROVE  /\ receipt'[k] \in RowType /\ receipt'[k].state = back(k)
             /\ receipt'[k].text = receipt[k].text /\ receipt'[k].prompt = receipt[k].prompt
  <2>1. receipt[k] \in RowType /\ receipt'[k] = [receipt[k] EXCEPT !.state = back(k)]
    BY <1>2, ReceiptTypes
  <2> QED BY <2>1 DEF RowType
<1>4. receipt' \in [R!Rows -> RowType]
  BY <1>2, <1>3
<1>5. /\ R!Idle \in [pc : Places, key : R!Rows, prompt : 0..MaxPrompts] /\ R!Idle.pc = "idle"
  BY ReceiptTypes, ReceiptsGiven DEF R!Idle, R!Link, Places
<1>6. R!TypeOK'
  BY <1>1, <1>4, <1>5, ReceiptTypes DEF R!TypeOK, RowType, Places
<1>7. R!Keys \subseteq R!Rows /\ \A k \in R!Keys : screen[k] \in Nat /\ rings[k] \in Nat
  BY ReceiptTypes
<1>8. Numbered'
  BY <1>1, <1>3, <1>5, <1>7 DEF Receipted, Numbered
<1>9. Counted'
  BY <1>1, <1>3, <1>7, ReceiptTypes DEF Receipted, Counted
<1>10. Shown'
  BY <1>1, <1>3, <1>7 DEF Receipted, Shown
<1> QED BY <1>1, <1>6, <1>7, <1>8, <1>9, <1>10 DEF Receipted

LEMMA ReceiptedStep ==
    ASSUME Receipted, [R!Next]_(R!vars)
    PROVE  Receipted' /\ \A k \in R!Keys : screen'[k] >= screen[k]
<1>1. CASE UNCHANGED R!vars
  BY <1>1, ReceiptTypes, RowsStand DEF R!vars, Receipted, Numbered
<1>2. CASE R!Mute
  <2>1. muted' \in BOOLEAN /\ UNCHANGED <<prompt, finals, sink, receipt, screen, rings, mishaps>>
    BY <1>2 DEF R!Mute
  <2> QED BY <2>1, ReceiptTypes, RowsStand DEF Receipted, Numbered
<1> QED BY <1>1, <1>2, AskReceipts, FinalizeReceipts, ReadSeatReceipts, AnnounceReceipts,
        ReviseReceipts, LinkReceipts, DeliverReceipts, CrashReceipts DEF R!Next, R!Handle

\* At most one row is the receipt of a prompt, so its rings are the sum.
LEMMA SumOfOne ==
    ASSUME NEW S, NEW p, S = {} \/ S = {p}, rings[p] \in Nat
    PROVE  R!MapThenSumSet(LAMBDA k : rings[k], S) \in {0, rings[p]}
<1> DEFINE any(s) == CHOOSE x \in s : TRUE
           iter == CHOOSE f : f = [s \in SUBSET S |->
                       IF s = {} THEN 0 ELSE rings[any(s)] + f[s \ {any(s)}]]
           total == [s \in SUBSET S |-> IF s = {} THEN 0 ELSE rings[p]]
<1>1. R!MapThenSumSet(LAMBDA k : rings[k], S) = iter[S]
  BY DEF R!MapThenSumSet, R!MapThenFoldSet
<1>2. total = [s \in SUBSET S |-> IF s = {} THEN 0 ELSE rings[any(s)] + total[s \ {any(s)}]]
  <2>1. ASSUME NEW s \in SUBSET S, s # {}
        PROVE  any(s) = p /\ s \ {any(s)} = {}
    BY <2>1
  <2>2. total[{}] = 0
    OBVIOUS
  <2>3. ASSUME NEW s \in SUBSET S
        PROVE  total[s] = IF s = {} THEN 0 ELSE rings[any(s)] + total[s \ {any(s)}]
    BY <2>1, <2>2
  <2> HIDE DEF any
  <2> QED BY <2>3
<1>3. iter = [s \in SUBSET S |-> IF s = {} THEN 0 ELSE rings[any(s)] + iter[s \ {any(s)}]]
  <2> HIDE DEF total, any
  <2> QED BY <1>2
<1>4. iter[{}] = 0 /\ (S = {p} => iter[S] = rings[p])
  <2>1. S = {p} => any(S) = p /\ S \ {any(S)} = {}
    OBVIOUS
  <2> HIDE DEF iter, any
  <2>2. iter[{}] = 0
    BY <1>3
  <2>3. S # {} => iter[S] = rings[any(S)] + iter[S \ {any(S)}]
    BY <1>3
  <2>4. S = {p} => iter[S] = rings[p] + iter[{}]
    BY <2>1, <2>3
  <2> HIDE DEF total
  <2> QED BY <2>2, <2>4
<1> HIDE DEF iter
<1> QED BY <1>1, <1>4

LEMMA OneBuzz == Receipted => R!TypeOK /\ R!OneBuzzPerPrompt
<1> SUFFICES ASSUME Receipted PROVE R!OneBuzzPerPrompt
  BY DEF Receipted
<1> DEFINE rows(p) == {k \in R!Keys : receipt[k].prompt = p}
           total(p) == R!MapThenSumSet(LAMBDA k : rings[k], rows(p))
<1>1. ASSUME NEW p \in R!Prompts PROVE total(p) <= 1 + mishaps
  <2>1. p \in R!Keys /\ p # 0 /\ mishaps \in Nat /\ rings[p] \in Nat
    BY <1>1, ReceiptTypes DEF R!Prompts
  <2>2. rows(p) = {} \/ rows(p) = {p}
    BY <2>1 DEF Receipted, Numbered
  <2>3. total(p) \in {0, rings[p]}
    <3> HIDE DEF rows
    <3> QED BY <2>1, <2>2, SumOfOne
  <2>4. rings[p] <= 1 + mishaps
    BY <2>1 DEF Receipted, Counted
  <2> HIDE DEF total
  <2> QED BY <2>1, <2>3, <2>4
<1> QED BY <1>1, Zenon DEF R!OneBuzzPerPrompt

\* However often the machine concludes that a turn is over, the phone rings
\* once for a prompt and once more for a death at most, and a corrected
\* receipt is never put back (finish_key, _announce_finish, _revise_finish).
THEOREM OneReceiptStands == SideBySide => OneReceiptPerTurn
<1>1. Receipted /\ [R!Next]_(R!vars) => Receipted'
  BY ReceiptedStep
<1>2. Receipted /\ [R!Next]_(R!vars) => [\A k \in R!Keys : screen'[k] >= screen[k]]_(R!vars)
  BY ReceiptedStep
<1> QED BY <1>1, <1>2, ReceiptedInit, ReceiptSteps, OneBuzz, PTL
    DEF R!Spec, OneReceiptPerTurn, R!CorrectionsStand

-----------------------------------------------------------------------------
(* The rooms.                                                              *)
LEMMA RoomSteps == SideBySide => Spec
<1>1. Start => Init
  BY DEF Start
<1>2. [Step]_<<world, vars, creationVars, receiptVars>> => [Next]_vars
  BY DEF Step
<1> QED BY <1>1, <1>2, PTL DEF SideBySide, Spec

Row == [seat : Seats \cup {Nowhere}, bound : BOOLEAN, archived : BOOLEAN, born : BOOLEAN]
Pointer == [session : Sessions \cup {NoOne}, ours : BOOLEAN]
Errand == [pc : Steps, s : Sessions \cup {NoOne}, claim : Seats \cup {Nowhere},
           topic : Seats \cup {Nowhere}, fresh : BOOLEAN]

LEMMA RoomTypes ==
    ASSUME TypeOK
    PROVE  /\ session \in [Sessions -> Row] /\ route \in [Seats -> Pointer]
           /\ task \in [Actors -> Errand] /\ Threads \subseteq Seats /\ Root \in Seats
           /\ Nowhere \notin Seats /\ NoOne \notin Sessions /\ Root \notin Threads
           /\ Handlers \subseteq Actors /\ Discoverers \subseteq Actors
           /\ Handlers \cap Discoverers = {}
BY RoomsAssumption DEF TypeOK, Row, Pointer, Errand, Seats, Actors

(* What a step makes of one actor's errand.                                *)
Becomes(a, pc, s, claim, where, fresh) ==
    /\ a \in Actors /\ task' \in [Actors -> Errand]
    /\ \A b \in Actors \ {a} : task'[b] = task[b]
    /\ task'[a].pc = pc /\ task'[a].s = s /\ task'[a].claim = claim
    /\ task'[a].topic = where /\ (task'[a].fresh <=> fresh)

LEMMA IdleErrand == Idle \in Errand
BY DEF Idle, Errand, Steps, Seats

LEMMA ErrandFields ==
    ASSUME NEW w \in Errand
    PROVE  /\ w.pc \in Steps /\ w.s \in Sessions \cup {NoOne} /\ w.claim \in Seats \cup {Nowhere}
           /\ w.topic \in Seats \cup {Nowhere} /\ w.fresh \in BOOLEAN
BY DEF Errand

LEMMA Ends ==
    ASSUME TypeOK, NEW a \in Actors, End(a)
    PROVE  Becomes(a, "idle", NoOne, Root, Root, FALSE)
<1>1. task' \in [Actors -> Errand] /\ task'[a] = Idle
  BY RoomTypes, IdleErrand DEF End
<1> QED BY <1>1, RoomTypes DEF End, Becomes, Idle

LEMMA Goes ==
    ASSUME TypeOK, NEW a \in Actors, NEW pc \in Steps, To(a, pc)
    PROVE  Becomes(a, pc, task[a].s, task[a].claim, task[a].topic, task[a].fresh)
<1> DEFINE w == [task[a] EXCEPT !.pc = pc]
<1>1. task[a] \in Errand
  BY RoomTypes
<1>2. /\ w \in Errand /\ w.pc = pc /\ w.s = task[a].s /\ w.claim = task[a].claim
      /\ w.topic = task[a].topic /\ w.fresh = task[a].fresh
  BY <1>1 DEF Errand
<1>3. task' = [task EXCEPT ![a] = w]
  BY DEF To
<1> HIDE DEF w
<1> QED BY <1>2, <1>3, RoomTypes DEF Becomes

LEMMA ErrandPut ==
    ASSUME TypeOK, NEW a \in Actors, NEW w \in Errand, task' = [task EXCEPT ![a] = w]
    PROVE  task'[a] = w /\ task' \in [Actors -> Errand] /\ \A b \in Actors \ {a} : task'[b] = task[b]
<1>1. task \in [Actors -> Errand]
  BY RoomTypes
<1> QED BY <1>1

LEMMA GoesTo ==
    ASSUME TypeOK, NEW a \in Actors, NEW pc \in Steps, NEW t \in Seats \cup {Nowhere},
           task' = [task EXCEPT ![a].pc = pc, ![a].topic = t]
    PROVE  Becomes(a, pc, task[a].s, task[a].claim, t, task[a].fresh)
<1> DEFINE w == [task[a] EXCEPT !.pc = pc, !.topic = t]
<1>1. task[a] \in Errand
  BY RoomTypes
<1>2. /\ w \in Errand /\ w.pc = pc /\ w.s = task[a].s /\ w.claim = task[a].claim
      /\ w.topic = t /\ w.fresh = task[a].fresh
  BY <1>1 DEF Errand
<1>3. task' = [task EXCEPT ![a] = w]
  BY RoomTypes
<1> HIDE DEF w
<1>4. task'[a] = w /\ task' \in [Actors -> Errand] /\ \A b \in Actors \ {a} : task'[b] = task[b]
  BY <1>2, <1>3, ErrandPut
<1> QED BY <1>2, <1>4, Zenon DEF Becomes

LEMMA GoesToFresh ==
    ASSUME TypeOK, NEW a \in Actors, NEW pc \in Steps, NEW t \in Seats \cup {Nowhere},
           task' = [task EXCEPT ![a].pc = pc, ![a].topic = t, ![a].fresh = TRUE]
    PROVE  Becomes(a, pc, task[a].s, task[a].claim, t, TRUE)
<1> DEFINE w == [task[a] EXCEPT !.pc = pc, !.topic = t, !.fresh = TRUE]
<1>1. task[a] \in Errand
  BY RoomTypes
<1>0. w \in Errand
  BY <1>1 DEF Errand
<1>2. /\ w.pc = pc /\ w.s = task[a].s /\ w.claim = task[a].claim
      /\ w.topic = t /\ w.fresh = TRUE
  BY <1>1 DEF Errand
<1>3. task' = [task EXCEPT ![a] = w]
  BY RoomTypes
<1> HIDE DEF w
<1>4. task'[a] = w /\ task' \in [Actors -> Errand] /\ \A b \in Actors \ {a} : task'[b] = task[b]
  BY <1>0, <1>3, ErrandPut
<1> QED BY <1>2, <1>4, Zenon DEF Becomes

LEMMA SetsOutFrom ==
    ASSUME TypeOK, NEW a \in Actors, NEW pc \in Steps, NEW s \in Sessions, NEW c \in Seats \cup {Nowhere},
           task' = [task EXCEPT ![a] = [Idle EXCEPT !.pc = pc, !.s = s, !.claim = c]]
    PROVE  Becomes(a, pc, s, c, Root, FALSE)
<1> DEFINE w == [Idle EXCEPT !.pc = pc, !.s = s, !.claim = c]
<1>1. w \in Errand /\ w.pc = pc /\ w.s = s /\ w.claim = c /\ w.topic = Root /\ w.fresh = FALSE
  BY IdleErrand DEF Errand, Idle
<1>2. task' = [task EXCEPT ![a] = w]
  OBVIOUS
<1> HIDE DEF w
<1>3. task'[a] = w /\ task' \in [Actors -> Errand] /\ \A b \in Actors \ {a} : task'[b] = task[b]
  BY <1>1, <1>2, RoomTypes
<1> QED BY <1>1, <1>3, Zenon DEF Becomes

LEMMA SetsOutPlain ==
    ASSUME TypeOK, NEW a \in Actors, NEW pc \in Steps, NEW s \in Sessions,
           task' = [task EXCEPT ![a] = [Idle EXCEPT !.pc = pc, !.s = s]]
    PROVE  Becomes(a, pc, s, Root, Root, FALSE)
<1> DEFINE w == [Idle EXCEPT !.pc = pc, !.s = s]
<1>1. w \in Errand /\ w.pc = pc /\ w.s = s /\ w.claim = Root /\ w.topic = Root /\ w.fresh = FALSE
  BY IdleErrand DEF Errand, Idle
<1>2. task' = [task EXCEPT ![a] = w]
  OBVIOUS
<1> HIDE DEF w
<1>3. task'[a] = w /\ task' \in [Actors -> Errand] /\ \A b \in Actors \ {a} : task'[b] = task[b]
  BY <1>1, <1>2, RoomTypes
<1> QED BY <1>1, <1>3, Zenon DEF Becomes

LEMMA SetsOutTo ==
    ASSUME TypeOK, NEW a \in Actors, NEW pc \in Steps, NEW s \in Sessions, NEW t \in Seats \cup {Nowhere},
           task' = [task EXCEPT ![a] = [Idle EXCEPT !.pc = pc, !.s = s, !.topic = t]]
    PROVE  Becomes(a, pc, s, Root, t, FALSE)
<1> DEFINE w == [Idle EXCEPT !.pc = pc, !.s = s, !.topic = t]
<1>1. w \in Errand /\ w.pc = pc /\ w.s = s /\ w.claim = Root /\ w.topic = t /\ w.fresh = FALSE
  BY IdleErrand DEF Errand, Idle
<1>2. task' = [task EXCEPT ![a] = w]
  OBVIOUS
<1> HIDE DEF w
<1>3. task'[a] = w /\ task' \in [Actors -> Errand] /\ \A b \in Actors \ {a} : task'[b] = task[b]
  BY <1>1, <1>2, RoomTypes
<1> QED BY <1>1, <1>3, Zenon DEF Becomes

LEMMA Flags ==
    ASSUME NEW w \in Row, NEW r
    PROVE  /\ r = [w EXCEPT !.bound = FALSE] =>
                r \in Row /\ r.seat = w.seat /\ ~r.bound /\ (r.born <=> w.born)
           /\ r = [w EXCEPT !.born = TRUE] =>
                r \in Row /\ r.seat = w.seat /\ r.born /\ (r.bound <=> w.bound)
<1>1. [w EXCEPT !.bound = FALSE] \in Row /\ [w EXCEPT !.born = TRUE] \in Row
  BY DEF Row
<1>2. [w EXCEPT !.bound = FALSE].bound = FALSE /\ [w EXCEPT !.born = TRUE].born = TRUE
  BY DEF Row
<1>3. /\ [w EXCEPT !.bound = FALSE].seat = w.seat /\ [w EXCEPT !.bound = FALSE].born = w.born
      /\ [w EXCEPT !.born = TRUE].seat = w.seat /\ [w EXCEPT !.born = TRUE].bound = w.bound
  BY DEF Row
<1> QED BY <1>1, <1>2, <1>3, Zenon

(* What a step makes of a session's row, and of the pointers.              *)
LEMMA SeatWritten ==
    ASSUME TypeOK, NEW s, NEW v \in Seats \cup {Nowhere},
           session' = [session EXCEPT ![s].seat = v]
    PROVE  /\ session' \in [Sessions -> Row]
           /\ \A x \in Sessions :
                 /\ session'[x].seat = IF x = s THEN v ELSE session[x].seat
                 /\ session'[x].bound <=> session[x].bound
                 /\ session'[x].born <=> session[x].born
<1>1. ASSUME NEW x \in Sessions
      PROVE  session'[x] = IF x = s THEN [session[x] EXCEPT !.seat = v] ELSE session[x]
  BY RoomTypes
<1>2. ASSUME NEW x \in Sessions
      PROVE  /\ session'[x] \in Row
             /\ session'[x].seat = IF x = s THEN v ELSE session[x].seat
             /\ session'[x].bound = session[x].bound /\ session'[x].born = session[x].born
  <2>1. session[x] \in Row
    BY RoomTypes
  <2> QED BY <1>1, <2>1 DEF Row
<1>3. session' \in [Sessions -> Row]
  <2>1. session' = [x \in Sessions |-> session'[x]]
    BY RoomTypes
  <2> QED BY <1>2, <2>1
<1> QED BY <1>2, <1>3

LEMMA Unbound ==
    ASSUME TypeOK, NEW s, session' = [session EXCEPT ![s].bound = FALSE]
    PROVE  /\ session' \in [Sessions -> Row]
           /\ \A x \in Sessions :
                 /\ session'[x].seat = session[x].seat
                 /\ session'[x].bound <=> session[x].bound /\ x # s
                 /\ session'[x].born <=> session[x].born
<1>1. ASSUME NEW x \in Sessions
      PROVE  session'[x] = IF x = s THEN [session[x] EXCEPT !.bound = FALSE] ELSE session[x]
  BY RoomTypes
<1>2. ASSUME NEW x \in Sessions
      PROVE  /\ session'[x] \in Row /\ session'[x].seat = session[x].seat
             /\ session'[x].bound <=> session[x].bound /\ x # s
             /\ session'[x].born <=> session[x].born
  <2>1. session[x] \in Row
    BY RoomTypes
  <2>2. CASE x = s
    <3>1. session'[x] = [session[x] EXCEPT !.bound = FALSE]
      BY <1>1, <2>2
    <3>2. /\ session'[x] \in Row /\ session'[x].seat = session[x].seat /\ ~session'[x].bound
          /\ (session'[x].born <=> session[x].born)
      BY <2>1, <3>1, Flags, Zenon
    <3> QED BY <2>2, <3>2
  <2> QED BY <1>1, <2>1, <2>2
<1>3. session' \in [Sessions -> Row]
  <2>1. session' = [x \in Sessions |-> session'[x]]
    BY RoomTypes
  <2> QED BY <1>2, <2>1
<1> QED BY <1>2, <1>3

LEMMA BornWritten ==
    ASSUME TypeOK, NEW s, session' = [session EXCEPT ![s].born = TRUE]
    PROVE  /\ session' \in [Sessions -> Row]
           /\ \A x \in Sessions :
                 /\ session'[x].seat = session[x].seat
                 /\ session'[x].bound <=> session[x].bound
                 /\ session'[x].born <=> session[x].born \/ x = s
<1>1. ASSUME NEW x \in Sessions
      PROVE  session'[x] = IF x = s THEN [session[x] EXCEPT !.born = TRUE] ELSE session[x]
  BY RoomTypes
<1>2. ASSUME NEW x \in Sessions
      PROVE  /\ session'[x] \in Row /\ session'[x].seat = session[x].seat
             /\ session'[x].bound <=> session[x].bound
             /\ session'[x].born <=> session[x].born \/ x = s
  <2>1. session[x] \in Row
    BY RoomTypes
  <2>2. CASE x = s
    <3>1. session'[x] = [session[x] EXCEPT !.born = TRUE]
      BY <1>1, <2>2
    <3>2. /\ session'[x] \in Row /\ session'[x].seat = session[x].seat /\ session'[x].born
          /\ (session'[x].bound <=> session[x].bound)
      BY <2>1, <3>1, Flags, Zenon
    <3> QED BY <2>2, <3>2
  <2> QED BY <1>1, <2>1, <2>2
<1>3. session' \in [Sessions -> Row]
  <2>1. session' = [x \in Sessions |-> session'[x]]
    BY RoomTypes
  <2> QED BY <1>2, <2>1
<1> QED BY <1>2, <1>3

LEMMA Released ==
    ASSUME NEW rows \in [Sessions -> Row], NEW at, NEW keep
    PROVE  /\ Release(rows, at, keep) \in [Sessions -> Row]
           /\ \A x \in Sessions :
                 LET r == Release(rows, at, keep)[x]
                 IN  /\ r.seat = rows[x].seat /\ (r.born <=> rows[x].born)
                     /\ r.bound <=> rows[x].bound /\ (x = keep \/ rows[x].seat # at)
<1>1. ASSUME NEW x \in Sessions
      PROVE  LET r == Release(rows, at, keep)[x]
             IN  /\ r \in Row /\ r.seat = rows[x].seat /\ (r.born <=> rows[x].born)
                 /\ r.bound <=> rows[x].bound /\ (x = keep \/ rows[x].seat # at)
  <2>1. rows[x] \in Row
    OBVIOUS
  <2>2. CASE x # keep /\ rows[x].seat = at
    <3>1. Release(rows, at, keep)[x] = [rows[x] EXCEPT !.bound = FALSE]
      BY <2>2 DEF Release
    <3>2. LET r == Release(rows, at, keep)[x]
          IN  r \in Row /\ r.seat = rows[x].seat /\ ~r.bound /\ (r.born <=> rows[x].born)
      BY <2>1, <3>1, Flags, Zenon
    <3> QED BY <2>2, <3>2
  <2>3. CASE ~(x # keep /\ rows[x].seat = at)
    <3>1. Release(rows, at, keep)[x] = rows[x]
      BY <2>3 DEF Release
    <3> QED BY <2>1, <2>3, <3>1
  <2> QED BY <2>2, <2>3
<1>2. Release(rows, at, keep) = [x \in Sessions |-> Release(rows, at, keep)[x]]
  BY DEF Release
<1> QED BY <1>1, <1>2

LEMMA BindTyped ==
    ASSUME NEW rows \in [Sessions -> Row], NEW s \in Sessions, NEW at \in Seats \cup {Nowhere}
    PROVE  /\ Bind(rows, s, at) \in [Sessions -> Row]
           /\ \A x \in Sessions :
                 LET r == Bind(rows, s, at)[x]
                 IN  /\ r.seat = (IF x = s THEN at ELSE rows[x].seat) /\ (r.born <=> rows[x].born)
                     /\ r.bound <=> (x = s \/ (rows[x].bound /\ rows[x].seat # at))
<1> DEFINE rest == Release(rows, at, s)
<1>1. /\ rest \in [Sessions -> Row]
      /\ \A x \in Sessions :
            /\ rest[x].seat = rows[x].seat /\ (rest[x].born <=> rows[x].born)
            /\ rest[x].bound <=> rows[x].bound /\ (x = s \/ rows[x].seat # at)
  BY Released
<1> DEFINE mine == [rest[s] EXCEPT !.seat = at, !.bound = TRUE]
<1>2. Bind(rows, s, at) = [rest EXCEPT ![s] = mine]
  <2>1. Bind(rows, s, at) = [rest EXCEPT ![s].seat = at, ![s].bound = TRUE]
    BY DEF Bind
  <2> HIDE DEF rest
  <2> QED BY <1>1, <2>1
<1>3. mine \in Row /\ mine.seat = at /\ mine.bound /\ mine.born = rest[s].born
  <2> HIDE DEF rest
  <2>1. rest[s] \in Row
    BY <1>1
  <2> QED BY <2>1 DEF Row
<1> HIDE DEF rest, mine
<1>4. ASSUME NEW x \in Sessions, x = s
      PROVE  Bind(rows, s, at)[x] = mine
  BY <1>1, <1>2, <1>4
<1>5. ASSUME NEW x \in Sessions, x # s
      PROVE  Bind(rows, s, at)[x] = rest[x]
  BY <1>1, <1>2, <1>5
<1>6. Bind(rows, s, at) \in [Sessions -> Row]
  BY <1>1, <1>2, <1>3
<1> QED BY <1>1, <1>3, <1>4, <1>5, <1>6

LEMMA RouteWritten ==
    ASSUME TypeOK, NEW s \in Sessions, NEW at \in Seats, route' = RouteTo(s, at)
    PROVE  /\ route' \in [Seats -> Pointer]
           /\ \A x \in Seats :
                 /\ route'[x].session = IF x = at THEN s
                                        ELSE IF route[x].session = s THEN NoOne
                                        ELSE route[x].session
                 /\ route'[x].ours <=> x = at \/ route[x].ours
<1>1. ASSUME NEW x \in Seats
      PROVE  /\ route'[x] \in Pointer
             /\ route'[x].session = IF x = at THEN s
                                    ELSE IF route[x].session = s THEN NoOne
                                    ELSE route[x].session
             /\ route'[x].ours <=> x = at \/ route[x].ours
  <2>1. route[x] \in Pointer
    BY RoomTypes
  <2>2. CASE x = at
    <3>1. route'[x] = [session |-> s, ours |-> TRUE]
      BY <2>2 DEF RouteTo
    <3> QED BY <2>2, <3>1 DEF Pointer
  <2>3. CASE x # at /\ route[x].session = s
    <3>1. route'[x] = [route[x] EXCEPT !.session = NoOne]
      BY <2>3 DEF RouteTo
    <3>2. /\ route'[x] \in Pointer /\ route'[x].session = NoOne
          /\ route'[x].ours = route[x].ours
      BY <2>1, <3>1 DEF Pointer
    <3> QED BY <2>3, <3>2
  <2>4. CASE x # at /\ route[x].session # s
    <3>1. route'[x] = route[x]
      BY <2>4 DEF RouteTo
    <3> QED BY <2>1, <2>4, <3>1
  <2> QED BY <2>2, <2>3, <2>4
<1>2. route' = [x \in Seats |-> route'[x]]
  BY DEF RouteTo
<1> QED BY <1>1, <1>2

LEMMA UnroutedTyped ==
    ASSUME TypeOK, NEW at, route' = Unrouted(at)
    PROVE  /\ route' \in [Seats -> Pointer]
           /\ \A x \in Seats :
                 /\ route'[x].session = IF x = at THEN NoOne ELSE route[x].session
                 /\ route'[x].ours <=> route[x].ours /\ x # at
<1>1. [session |-> NoOne, ours |-> FALSE] \in Pointer
  BY DEF Pointer
<1>2. \A x \in Seats :
          route'[x] = IF x = at THEN [session |-> NoOne, ours |-> FALSE] ELSE route[x]
  BY RoomTypes DEF Unrouted
<1>3. route' \in [Seats -> Pointer]
  BY <1>1, RoomTypes DEF Unrouted
<1>4. ASSUME NEW x \in Seats, x = at
      PROVE  route'[x].session = NoOne /\ ~route'[x].ours
  BY <1>2, <1>4
<1>5. ASSUME NEW x \in Seats, x # at
      PROVE  route'[x] = route[x]
  BY <1>2, <1>5
<1> QED BY <1>3, <1>4, <1>5

LEMMA Detached ==
    ASSUME TypeOK, NEW at, route' = [route EXCEPT ![at].session = NoOne]
    PROVE  /\ route' \in [Seats -> Pointer]
           /\ \A x \in Seats :
                 /\ route'[x].session = IF x = at THEN NoOne ELSE route[x].session
                 /\ route'[x].ours <=> route[x].ours
<1>1. ASSUME NEW x \in Seats
      PROVE  route'[x] = IF x = at THEN [route[x] EXCEPT !.session = NoOne] ELSE route[x]
  BY RoomTypes
<1>2. ASSUME NEW x \in Seats
      PROVE  /\ route'[x] \in Pointer
             /\ route'[x].session = IF x = at THEN NoOne ELSE route[x].session
             /\ route'[x].ours = route[x].ours
  <2>1. route[x] \in Pointer
    BY RoomTypes
  <2> QED BY <1>1, <2>1 DEF Pointer
<1>3. route' = [x \in Seats |-> route'[x]]
  BY RoomTypes
<1> QED BY <1>2, <1>3

(* The invariant.  Adoptions take turns, a session being forked is nobody  *)
(* else's business, and in a group neither is the topic a command has just *)
(* opened; a session is routed from one seat at most, the one it is read   *)
(* in or, once it has fallen back to the root, was read in; and two        *)
(* sessions bound to one seat are on the way to being one.                 *)
Opened == {"create", "address", "bind", "route"}
ForkSteps == {"fork"} \cup Opened
LockSteps == {"probe", "seat", "open", "unbind", "seek"}
MoveSteps == {"unroute", "mark", "detach", "release"}

Errands ==
    \A a \in Actors :
        /\ a \in Handlers \/ task[a].pc \in {"idle", "gone", "detach", "release"}
        /\ task[a].pc # "idle" => task[a].s \in Sessions
        /\ task[a].pc \notin {"idle", "fork", "create"} => session[task[a].s].born
        /\ task[a].pc \in {"fork", "create"} => ~session[task[a].s].born
        /\ task[a].pc = "probe" => task[a].topic \in Threads
        /\ task[a].pc \in Opened \cup {"unbind", "seek"} => task[a].topic \in Seats
        /\ task[a].pc \in {"adopt", "probe", "seat", "open"} => task[a].claim \in Seats
        /\ task[a].pc \in {"gone", "retired", "detach", "release"} => kind = "group"
        /\ task[a].fresh => task[a].pc \in Opened \cup {"unbind", "seek"} /\ task[a].topic \in Threads
        /\ task[a].pc \in Opened => task[a].topic = Root \/ task[a].fresh

Exclusive ==
    \A h, g \in Handlers : h # g =>
        /\ ~(task[h].pc \in LockSteps /\ task[g].pc \in LockSteps)
        /\ task[h].pc \in ForkSteps => task[g].s # task[h].s

Pointed(s) == \E x \in Seats : route[x].session = s

Routed ==
    /\ \A x, y \in Seats : route[x].session # NoOne /\ route[x].session = route[y].session => x = y
    /\ \A x \in Seats : route[x].session # NoOne => route[x].ours
    /\ \A t \in Threads, s \in Sessions : route[t].session = s => session[s].seat \in {t, Root}
    /\ \A s \in Sessions :
          ~session[s].born => ~session[s].bound /\ session[s].seat = Nowhere /\ ~Pointed(s)
    /\ \A h \in Handlers :
          /\ task[h].pc \in {"address", "bind"} => ~session[task[h].s].bound /\ ~Pointed(task[h].s)
          /\ task[h].pc = "route" => session[task[h].s].seat \in {task[h].topic, Root}

Unused(t) ==
    /\ ~route[t].ours /\ \A x \in Sessions : session[x].seat # t
    /\ \A h \in Handlers : task[h].topic # t /\ task[h].claim # t

Apart ==
    kind = "group" =>
        /\ \A t \in Threads : topic[t] = "unused" => Unused(t)
        /\ \A h \in Handlers : task[h].fresh =>
              /\ ~route[task[h].topic].ours
              /\ \A g \in Handlers \ {h} :
                    task[g].topic # task[h].topic /\ task[g].claim # task[h].topic
              /\ \A x \in Sessions :
                    session[x].seat = task[h].topic => x = task[h].s /\ task[h].pc \in ForkSteps

Moving(s) == \E a \in Actors : task[a].s = s /\ task[a].pc \in MoveSteps
Shared(x, y) == x # y /\ session[x].bound /\ session[y].bound /\ session[x].seat = session[y].seat

Seated ==
    /\ \A x, y \in Sessions : Shared(x, y) =>
          (Moving(x) \/ Moving(y)) /\ (kind = "group" => session[x].seat = Root)
    /\ \A h \in Handlers : LET s == task[h].s IN
          task[h].pc = "probe" /\ session[s].bound =>
              IF kind = "group"
              THEN \A x \in Sessions \ {s} : session[x].bound => session[x].seat # task[h].topic
              ELSE session[s].seat = task[h].topic \/ Moving(s)

Housed == TypeOK /\ Errands /\ Exclusive /\ Routed /\ Apart /\ Seated


LEMMA Busy ==
    ASSUME Errands, NEW a \in Actors, task[a].pc # "idle"
    PROVE  task[a].s \in Sessions
BY DEF Errands

(* A seat that no other handler has just opened, and that Telegram has     *)
(* given out by the end of the step.                                       *)
Clear(a, v) ==
    v \in Threads =>
        /\ topic'[v] # "unused"
        /\ \A g \in Handlers \ {a} : ~(task[g].fresh /\ task[g].topic = v)

NoNewTopics == \A t \in Threads : topic'[t] = "unused" => topic[t] = "unused"

LEMMA OwnIsClear ==
    ASSUME Apart, kind = "group", NoNewTopics, NEW h \in Handlers
    PROVE  Clear(h, task[h].topic) /\ Clear(h, task[h].claim)
BY DEF Apart, Unused, Clear, NoNewTopics

LEMMA OursIsClear ==
    ASSUME Apart, kind = "group", NoNewTopics, NEW a, NEW t, route[t].ours
    PROVE  Clear(a, t)
BY DEF Apart, Unused, Clear, NoNewTopics

LEMMA SeatIsClear ==
    ASSUME Apart, kind = "group", NoNewTopics, NEW a, NEW s \in Sessions,
           \A g \in Handlers \ {a} : task[g].s = s => task[g].pc \notin ForkSteps
    PROVE  Clear(a, session[s].seat)
BY DEF Apart, Unused, Clear, NoNewTopics

LEMMA RootIsClear == ASSUME NEW a PROVE Clear(a, Root) /\ Clear(a, Nowhere)
BY RoomsAssumption DEF Clear

LEMMA ApartKept ==
    ASSUME TypeOK, Errands, Apart, kind' = kind, NoNewTopics, NEW a,
           NEW pc, NEW s, NEW claim, NEW where, NEW fresh, Becomes(a, pc, s, claim, where, fresh),
           kind = "group" =>
              /\ Clear(a, where) /\ Clear(a, claim)
              /\ \A t \in Seats : route'[t].ours => route[t].ours \/ Clear(a, t)
              /\ \A x \in Sessions : session'[x].seat = session[x].seat \/ Clear(a, session'[x].seat)
              /\ a \in Handlers /\ fresh =>
                    /\ where \in Threads /\ ~route'[where].ours
                    /\ \A g \in Handlers \ {a} : task[g].topic # where /\ task[g].claim # where
                    /\ \A x \in Sessions : session'[x].seat = where => x = s /\ pc \in ForkSteps
    PROVE  Apart'
<1> SUFFICES ASSUME kind = "group" PROVE Apart'
  BY DEF Apart
<1>0. /\ task'[a].pc = pc /\ task'[a].s = s /\ task'[a].claim = claim /\ task'[a].topic = where
      /\ (task'[a].fresh <=> fresh) /\ \A b \in Handlers \ {a} : task'[b] = task[b]
  BY RoomTypes DEF Becomes
<1>1. ASSUME NEW t \in Threads, topic'[t] = "unused" PROVE Unused(t)'
  <2>1. Unused(t) /\ t \in Seats
    BY <1>1, RoomTypes DEF Apart, NoNewTopics
  <2>2. ~route'[t].ours
    BY <1>1, <2>1 DEF Unused, Clear
  <2>3. \A x \in Sessions : session'[x].seat # t
    BY <1>1, <2>1 DEF Unused, Clear
  <2>4. \A h \in Handlers : task'[h].topic # t /\ task'[h].claim # t
    BY <1>0, <1>1, <2>1 DEF Unused, Clear
  <2> QED BY <2>2, <2>3, <2>4 DEF Unused
<1>2. ASSUME NEW h \in Handlers, task'[h].fresh, h # a
      PROVE  /\ ~route'[task'[h].topic].ours
             /\ \A g \in Handlers \ {h} :
                   task'[g].topic # task'[h].topic /\ task'[g].claim # task'[h].topic
             /\ \A x \in Sessions :
                   session'[x].seat = task'[h].topic => x = task'[h].s /\ task'[h].pc \in ForkSteps
  <2>1. task'[h] = task[h] /\ task[h].fresh
    BY <1>0, <1>2
  <2>2. /\ ~route[task[h].topic].ours
        /\ \A g \in Handlers \ {h} : task[g].topic # task[h].topic /\ task[g].claim # task[h].topic
        /\ \A x \in Sessions :
              session[x].seat = task[h].topic => x = task[h].s /\ task[h].pc \in ForkSteps
    BY <2>1 DEF Apart
  <2>3. task[h].topic \in Threads /\ \A v : Clear(a, v) => v # task[h].topic
    BY <1>2, <2>1, RoomTypes DEF Clear, Errands
  <2> QED BY <1>0, <2>1, <2>2, <2>3, RoomTypes
<1>3. ASSUME a \in Handlers, fresh
      PROVE  /\ ~route'[where].ours
             /\ \A g \in Handlers \ {a} : task'[g].topic # where /\ task'[g].claim # where
             /\ \A x \in Sessions : session'[x].seat = where => x = s /\ pc \in ForkSteps
  BY <1>0, <1>3
<1> QED BY <1>0, <1>1, <1>2, <1>3 DEF Apart

LEMMA ErrandsKept ==
    ASSUME TypeOK, Errands, Exclusive, kind' = kind, NEW a,
           NEW pc, NEW s, NEW claim, NEW where, NEW fresh, Becomes(a, pc, s, claim, where, fresh),
           \A x \in Sessions : session[x].born => session'[x].born,
           \A x \in Sessions : session'[x].born =>
               session[x].born \/ (x = task[a].s /\ task[a].pc = "create"),
           /\ a \in Handlers \/ pc \in {"idle", "gone", "detach", "release"}
           /\ pc # "idle" => s \in Sessions
           /\ pc \notin {"idle", "fork", "create"} => session'[s].born
           /\ pc \in {"fork", "create"} => ~session'[s].born
           /\ pc = "probe" => where \in Threads
           /\ pc \in Opened \cup {"unbind", "seek"} => where \in Seats
           /\ pc \in {"adopt", "probe", "seat", "open"} => claim \in Seats
           /\ pc \in {"gone", "retired", "detach", "release"} => kind = "group"
           /\ fresh => pc \in Opened \cup {"unbind", "seek"} /\ where \in Threads
           /\ pc \in Opened => where = Root \/ fresh
    PROVE  Errands'
<1>1. /\ task'[a].pc = pc /\ task'[a].s = s /\ task'[a].claim = claim /\ task'[a].topic = where
      /\ (task'[a].fresh <=> fresh) /\ \A b \in Actors \ {a} : task'[b] = task[b]
      /\ a \in Actors
  BY DEF Becomes
<1>2. ASSUME NEW b \in Actors, b # a, task[b].pc \in {"fork", "create"}
      PROVE  ~session'[task[b].s].born
  <2>1. b \in Handlers /\ task[b].s \in Sessions /\ ~session[task[b].s].born
    BY <1>2 DEF Errands
  <2>2. task[a].pc = "create" => a \in Handlers
    BY <1>1 DEF Errands
  <2> QED BY <1>1, <1>2, <2>1, <2>2 DEF Exclusive, ForkSteps, Opened
<1>3. ASSUME NEW b \in Actors, b # a, task[b].pc \notin {"idle", "fork", "create"}
      PROVE  session'[task[b].s].born
  BY <1>3 DEF Errands
<1> QED BY <1>1, <1>2, <1>3 DEF Errands

LEMMA ExclusiveKept ==
    ASSUME TypeOK, Errands, Exclusive, NEW a,
           NEW pc, NEW s, NEW claim, NEW where, NEW fresh, Becomes(a, pc, s, claim, where, fresh),
           a \in Handlers =>
              /\ pc \in LockSteps => task[a].pc \in LockSteps \/ ~LockHeld
              /\ pc \in ForkSteps =>
                    \/ task[a].pc \in ForkSteps /\ s = task[a].s
                    \/ \A g \in Handlers : task[g].s # s
              /\ \/ s = NoOne \/ s = task[a].s
                 \/ \A g \in Handlers \ {a} : task[g].s = s => task[g].pc \notin ForkSteps
    PROVE  Exclusive'
<1>1. /\ task'[a].pc = pc /\ task'[a].s = s
      /\ \A b \in Handlers \ {a} : task'[b] = task[b]
  BY RoomTypes DEF Becomes
<1>2. \A g \in Handlers : task[g].pc \in ForkSteps => task[g].s \in Sessions
  BY RoomTypes DEF Errands, ForkSteps, Opened
<1> QED BY <1>1, <1>2, RoomTypes DEF Exclusive, LockHeld, LockSteps

LEMMA TypesKept ==
    ASSUME TypeOK, kind' = kind, owed' \in [Sessions -> SUBSET Seats], asked' \in 0 .. MaxTasks,
           topic' \in [Threads -> {"unused", "users", "open", "closed", "left", "gone"}],
           session' \in [Sessions -> Row], route' \in [Seats -> Pointer],
           task' \in [Actors -> Errand]
    PROVE  TypeOK'
BY DEF TypeOK, Row, Pointer, Errand

LEMMA RoutedKept ==
    ASSUME TypeOK, Errands, Routed, UNCHANGED <<session, route>>, NEW a,
           NEW pc, NEW s, NEW claim, NEW where, NEW fresh, Becomes(a, pc, s, claim, where, fresh),
           pc \notin {"address", "bind", "route"}
    PROVE  Routed'
<1>1. task'[a].pc = pc /\ \A b \in Handlers \ {a} : task'[b] = task[b]
  BY RoomTypes DEF Becomes
<1> QED BY <1>1 DEF Routed, Pointed

LEMMA SeatedKept ==
    ASSUME TypeOK, Seated, kind' = kind, UNCHANGED session, NEW a,
           NEW pc, NEW s, NEW claim, NEW where, NEW fresh, Becomes(a, pc, s, claim, where, fresh),
           task[a].pc \in MoveSteps => pc \in MoveSteps /\ s = task[a].s,
           pc = "probe" => where \in Threads /\ where = session[s].seat /\ s \in Sessions
    PROVE  Seated'
<1>1. /\ task'[a].pc = pc /\ task'[a].s = s /\ task'[a].topic = where /\ a \in Actors
      /\ \A b \in Actors \ {a} : task'[b] = task[b]
  BY DEF Becomes
<1>2. \A x : Moving(x) => \E b \in Actors : task'[b].s = x /\ task'[b].pc \in MoveSteps
  BY <1>1 DEF Moving
<1>3. \A x, y \in Sessions : Shared(x, y)' <=> Shared(x, y)
  BY DEF Shared
<1>4. ASSUME NEW h \in Handlers, task'[h].pc = "probe", session'[task'[h].s].bound, h # a
      PROVE  IF kind' = "group"
             THEN \A x \in Sessions \ {task'[h].s} : session'[x].bound => session'[x].seat # task'[h].topic
             ELSE \/ session'[task'[h].s].seat = task'[h].topic
                  \/ \E b \in Actors : task'[b].s = task'[h].s /\ task'[b].pc \in MoveSteps
  <2>1. task'[h] = task[h]
    BY <1>1, <1>4, RoomTypes
  <2>2. IF kind = "group"
        THEN \A x \in Sessions \ {task[h].s} : session[x].bound => session[x].seat # task[h].topic
        ELSE session[task[h].s].seat = task[h].topic \/ Moving(task[h].s)
    BY <1>4, <2>1 DEF Seated
  <2> QED BY <1>2, <2>1, <2>2
<1>5. ASSUME pc = "probe", session[s].bound, kind = "group", NEW x \in Sessions \ {s}, session[x].bound
      PROVE  session[x].seat # where
  BY <1>5, RoomTypes DEF Seated, Shared
<1>6. ASSUME NEW x \in Sessions, NEW y \in Sessions, Shared(x, y)'
      PROVE  (Moving(x)' \/ Moving(y)') /\ (kind' = "group" => session'[x].seat = Root)
  BY <1>2, <1>3, <1>6 DEF Seated, Moving
<1>7. ASSUME NEW h \in Handlers, task'[h].pc = "probe", session'[task'[h].s].bound
      PROVE  IF kind' = "group"
             THEN \A x \in Sessions \ {task'[h].s} : session'[x].bound => session'[x].seat # task'[h].topic
             ELSE \/ session'[task'[h].s].seat = task'[h].topic
                  \/ \E b \in Actors : task'[b].s = task'[h].s /\ task'[b].pc \in MoveSteps
  BY <1>1, <1>4, <1>5, <1>7
<1> QED BY <1>6, <1>7 DEF Seated, Moving

(* The whole invariant, for a step that touches neither table.             *)
LEMMA Walks ==
    ASSUME Housed, UNCHANGED <<kind, session, route>>, owed' \in [Sessions -> SUBSET Seats],
           asked' \in 0 .. MaxTasks,
           topic' \in [Threads -> {"unused", "users", "open", "closed", "left", "gone"}],
           NoNewTopics, NEW a,
           NEW pc, NEW s, NEW claim, NEW where, NEW fresh, Becomes(a, pc, s, claim, where, fresh),
           /\ a \in Handlers \/ pc \in {"idle", "gone", "detach", "release"}
           /\ pc # "idle" => s \in Sessions
           /\ pc \notin {"idle", "fork", "create"} => session[s].born
           /\ pc \in {"fork", "create"} => ~session[s].born
           /\ pc = "probe" => where \in Threads /\ where = session[s].seat
           /\ pc \in {"create", "unbind", "seek"} => where \in Seats
           /\ pc \in {"adopt", "probe", "seat", "open"} => claim \in Seats
           /\ pc \in {"gone", "retired", "detach", "release"} => kind = "group"
           /\ fresh => pc \in {"create", "unbind", "seek"} /\ where \in Threads
           /\ pc = "create" => where = Root \/ fresh
           /\ pc \notin {"address", "bind", "route"},
           task[a].pc \in MoveSteps => pc \in MoveSteps /\ s = task[a].s,
           a \in Handlers =>
              /\ pc \in LockSteps => task[a].pc \in LockSteps \/ ~LockHeld
              /\ pc \in ForkSteps =>
                    \/ task[a].pc \in ForkSteps /\ s = task[a].s
                    \/ \A g \in Handlers : task[g].s # s
              /\ \/ s = NoOne \/ s = task[a].s
                 \/ \A g \in Handlers \ {a} : task[g].s = s => task[g].pc \notin ForkSteps,
           kind = "group" =>
              /\ Clear(a, where) /\ Clear(a, claim)
              /\ a \in Handlers /\ fresh =>
                    /\ where \in Threads /\ ~route[where].ours
                    /\ \A g \in Handlers \ {a} : task[g].topic # where /\ task[g].claim # where
                    /\ \A x \in Sessions : session[x].seat = where => x = s /\ pc \in ForkSteps
    PROVE  Housed'
<1>1. TypeOK /\ Errands /\ Exclusive /\ Routed /\ Apart /\ Seated
  BY DEF Housed
<1>2. TypeOK'
  BY <1>1, TypesKept, RoomTypes DEF Becomes
<1>3. Errands'
  BY <1>1, ErrandsKept DEF Opened
<1>4. Exclusive'
  BY <1>1, ExclusiveKept
<1>5. Routed'
  BY <1>1, RoutedKept
<1>6. Apart'
  BY <1>1, ApartKept
<1>7. Seated'
  BY <1>1, SeatedKept
<1> QED BY <1>2, <1>3, <1>4, <1>5, <1>6, <1>7 DEF Housed

TopicStates == {"unused", "users", "open", "closed", "left", "gone"}

LEMMA Given ==
    ASSUME TypeOK
    PROVE  /\ kind \in {"dm", "group"} /\ owed \in [Sessions -> SUBSET Seats]
           /\ asked \in 0 .. MaxTasks /\ topic \in [Threads -> TopicStates]
           /\ \A a \in Actors : /\ task[a].pc \in Steps /\ task[a].s \in Sessions \cup {NoOne}
                                /\ task[a].claim \in Seats \cup {Nowhere}
                                /\ task[a].topic \in Seats \cup {Nowhere} /\ task[a].fresh \in BOOLEAN
           /\ \A s \in Sessions : session[s].seat \in Seats \cup {Nowhere}
           /\ MaxTasks \in Nat
BY RoomTypes, RoomsAssumption DEF TypeOK, TopicStates, Errand, Row

LEMMA TopicsStand == ASSUME topic' = topic PROVE NoNewTopics
BY DEF NoNewTopics

LEMMA Offers ==
    ASSUME Housed, NEW s \in Offered
    PROVE  /\ s \in Sessions /\ session[s].born
           /\ \A g \in Handlers : task[g].s = s => task[g].pc \notin ForkSteps
BY RoomTypes DEF Offered, Born, Housed, Errands, ForkSteps, Opened

LEMMA Started ==
    ASSUME TypeOK, NEW h \in Handlers, NEW w, Starts(h, w)
    PROVE  /\ task[h].pc = "idle" /\ task' = [task EXCEPT ![h] = w] /\ asked' \in 0 .. MaxTasks
           /\ UNCHANGED <<kind, topic, session, route, owed>>
BY Given DEF Starts, At

LEMMA AdoptWalks ==
    ASSUME Housed, NEW h \in Handlers, NEW s \in Sessions, NEW at \in Seats, Adopt(h, s, at)
    PROVE  Housed'
<1>1. TypeOK /\ Apart /\ Errands
  BY DEF Housed
<1>2. /\ task[h].pc = "idle" /\ asked' \in 0 .. MaxTasks
      /\ task' = [task EXCEPT ![h] = [Idle EXCEPT !.pc = "adopt", !.s = s, !.claim = Claim(at)]]
      /\ UNCHANGED <<kind, topic, session, route, owed>> /\ s \in Offered
  BY <1>1, Started DEF Adopt
<1>3. /\ Claim(at) \in Seats /\ (Claim(at) = Root \/ kind = "dm" \/ route[Claim(at)].ours)
      /\ Claim(at) \in Seats \cup {Nowhere} /\ "adopt" \in Steps /\ h \in Actors
  BY RoomTypes, <1>1 DEF Claim, Steps
<1>5. Becomes(h, "adopt", s, Claim(at), Root, FALSE)
  BY <1>1, <1>2, <1>3, SetsOutFrom
<1>6. NoNewTopics
  BY <1>2, TopicsStand
<1>7. kind = "group" => Clear(h, Root) /\ Clear(h, Claim(at))
  BY <1>1, <1>3, <1>6, OursIsClear, RootIsClear, RoomsAssumption
<1>8. session[s].born /\ \A g \in Handlers : task[g].s = s => task[g].pc \notin ForkSteps
  BY <1>2, Offers
<1> QED BY <1>1, <1>2, <1>3, <1>5, <1>6, <1>7, <1>8, Walks, Given, RoomTypes
    DEF TopicStates, MoveSteps, LockSteps, ForkSteps, Opened

LEMMA Idles ==
    ASSUME Housed, UNCHANGED <<kind, session, route, task, asked>>,
           owed' \in [Sessions -> SUBSET Seats],
           topic' \in [Threads -> TopicStates], NoNewTopics
    PROVE  Housed'
<1>1. TypeOK /\ Errands /\ Exclusive /\ Routed /\ Apart /\ Seated
  BY DEF Housed
<1>2. TypeOK'
  BY <1>1, TypesKept, RoomTypes, Given DEF TopicStates
<1>3. Errands' /\ Exclusive'
  BY <1>1 DEF Errands, Exclusive
<1>4. Routed'
  BY <1>1 DEF Routed, Pointed
<1>5. Apart'
  BY <1>1 DEF Apart, Unused, NoNewTopics
<1>6. Seated'
  BY <1>1 DEF Seated, Shared, Moving
<1> QED BY <1>2, <1>3, <1>4, <1>5, <1>6 DEF Housed

LEMMA Quits ==
    ASSUME Housed, NEW a \in Actors, End(a), UNCHANGED <<kind, session, route, owed, asked>>,
           topic' \in [Threads -> TopicStates], NoNewTopics, task[a].pc \notin MoveSteps
    PROVE  Housed'
<1>1. TypeOK /\ Becomes(a, "idle", NoOne, Root, Root, FALSE)
  BY Ends DEF Housed
<1>2. Clear(a, Root)
  BY RootIsClear
<1> QED BY <1>1, <1>2, Walks, Given, RoomTypes
    DEF TopicStates, MoveSteps, LockSteps, ForkSteps, Opened

\* A step of an errand that keeps what it carries.
LEMMA WalksOn ==
    ASSUME Housed, NEW h \in Handlers, NEW pc \in Steps, To(h, pc),
           UNCHANGED <<kind, session, route, owed, asked>>,
           topic' \in [Threads -> TopicStates], NoNewTopics,
           task[h].pc \notin MoveSteps \cup {"idle"}, ~task[h].fresh,
           pc \notin ForkSteps \cup {"idle", "probe", "unbind", "seek", "adopt"},
           task[h].pc \notin ForkSteps, pc \in {"seat", "open"} => task[h].claim \in Seats,
           pc \in {"gone", "retired", "detach", "release"} => kind = "group",
           pc \in LockSteps => task[h].pc \in LockSteps
    PROVE  Housed'
<1>1. TypeOK /\ Apart /\ Errands /\ task[h].s \in Sessions /\ session[task[h].s].born
  BY RoomTypes DEF Housed, Errands, ForkSteps, Opened
<1>2. Becomes(h, pc, task[h].s, task[h].claim, task[h].topic, task[h].fresh)
  BY <1>1, Goes, RoomTypes
<1>3. kind = "group" => Clear(h, task[h].topic) /\ Clear(h, task[h].claim)
  BY <1>1, OwnIsClear
<1> QED BY <1>1, <1>2, <1>3, Walks, Given, RoomTypes
    DEF TopicStates, MoveSteps, LockSteps, ForkSteps, Opened

LEMMA Discards ==
    ASSUME TypeOK, NEW a, topic' \in Discarded(a)
    PROVE  topic' \in [Threads -> TopicStates] /\ NoNewTopics
<1>1. topic \in [Threads -> TopicStates]
  BY Given
<1>2. CASE topic' = topic
  BY <1>1, <1>2 DEF NoNewTopics
<1>3. CASE \E v \in {"gone", "closed", "left"} : topic' = [topic EXCEPT ![task[a].topic] = v]
  BY <1>1, <1>3 DEF NoNewTopics, TopicStates
<1> QED BY <1>2, <1>3 DEF Discarded

LEMMA FailedWalks ==
    ASSUME Housed, NEW a \in Actors, Failed(a), UNCHANGED <<kind, session, route, owed, asked>>,
           task[a].pc \notin MoveSteps
    PROVE  Housed'
<1>1. TypeOK
  BY DEF Housed
<1> QED BY <1>1, Discards, Quits DEF Failed

LEMMA AdoptLookWalks ==
    ASSUME Housed, NEW h \in Handlers, AdoptLook(h)
    PROVE  Housed'
<1>1. /\ TypeOK /\ Apart /\ Errands /\ Exclusive /\ h \in Actors
      /\ task[h].pc = "adopt" /\ ~LockHeld
      /\ UNCHANGED <<kind, topic, session, route, owed, asked>>
  BY RoomTypes DEF Housed, AdoptLook, At
<1>2. /\ NoNewTopics /\ topic' \in [Threads -> TopicStates] /\ owed' \in [Sessions -> SUBSET Seats]
      /\ asked' \in 0 .. MaxTasks
  BY <1>1, TopicsStand, Given
<1>3. CASE End(h)
  BY <1>1, <1>2, <1>3, Quits DEF MoveSteps
<1> DEFINE s == task[h].s
           pc == IF HasRoom(s) THEN "probe" ELSE "seat"
           at == IF HasRoom(s) THEN session[s].seat ELSE Root
<1>4. CASE task' = [task EXCEPT ![h].pc = pc, ![h].topic = at]
  <2>1. /\ s \in Sessions /\ session[s].born /\ at \in Seats \cup {Nowhere} /\ pc \in Steps
        /\ pc \in {"probe", "seat"} /\ task[h].claim \in Seats /\ ~task[h].fresh
        /\ pc = "probe" => at \in Threads /\ at = session[s].seat
        /\ at = Root \/ at = session[s].seat
    BY <1>1, Given, RoomTypes DEF Errands, Steps, HasRoom, Opened
  <2> HIDE DEF s, pc, at
  <2>2. Becomes(h, pc, task[h].s, task[h].claim, at, task[h].fresh)
    BY <1>1, <1>4, <2>1, GoesTo
  <2>3. \A g \in Handlers \ {h} : task[g].s = s => task[g].pc \notin ForkSteps
    BY <1>1 DEF Exclusive, s
  <2>4. kind = "group" => Clear(h, at) /\ Clear(h, task[h].claim)
    BY <1>1, <1>2, <2>1, <2>3, OwnIsClear, SeatIsClear, RootIsClear
  <2> QED BY <1>1, <1>2, <2>1, <2>2, <2>4, Walks, RoomTypes
      DEF TopicStates, MoveSteps, LockSteps, ForkSteps, Opened, s
<1> QED BY <1>3, <1>4 DEF AdoptLook

LEMMA AdoptForgetWalks ==
    ASSUME Housed, NEW h \in Handlers, AdoptForget(h)
    PROVE  Housed'
<1>1. /\ TypeOK /\ Errands /\ h \in Actors /\ task[h].pc = "probe" /\ To(h, "seat")
      /\ UNCHANGED <<kind, topic, session, route, owed, asked>>
  BY RoomTypes DEF Housed, AdoptForget, At
<1>2. NoNewTopics /\ topic' \in [Threads -> TopicStates] /\ task[h].claim \in Seats /\ ~task[h].fresh
  BY <1>1, TopicsStand, Given DEF Errands, Opened
<1> QED BY <1>1, <1>2, WalksOn DEF MoveSteps, LockSteps, ForkSteps, Opened, Steps

LEMMA AdoptSeatWalks ==
    ASSUME Housed, NEW h \in Handlers, AdoptSeat(h)
    PROVE  Housed'
<1>1. /\ TypeOK /\ Errands /\ Apart /\ h \in Actors /\ task[h].pc = "seat"
      /\ UNCHANGED <<kind, topic, session, route, owed, asked>>
  BY RoomTypes DEF Housed, AdoptSeat, At
<1>2. /\ NoNewTopics /\ topic' \in [Threads -> TopicStates] /\ task[h].claim \in Seats /\ ~task[h].fresh
      /\ owed' \in [Sessions -> SUBSET Seats] /\ asked' \in 0 .. MaxTasks
      /\ task[h].s \in Sessions /\ session[task[h].s].born
  BY <1>1, TopicsStand, Given DEF Errands, Opened
<1>3. CASE To(h, "open")
  BY <1>1, <1>2, <1>3, WalksOn DEF MoveSteps, LockSteps, ForkSteps, Opened, Steps
<1>4. CASE task' = [task EXCEPT ![h].pc = "unbind", ![h].topic = task[h].claim]
  <2>1. Becomes(h, "unbind", task[h].s, task[h].claim, task[h].claim, task[h].fresh)
    BY <1>1, <1>2, <1>4, GoesTo DEF Steps
  <2>2. kind = "group" => Clear(h, task[h].claim)
    BY <1>1, <1>2, OwnIsClear
  <2> QED BY <1>1, <1>2, <2>1, <2>2, Walks, RoomTypes
      DEF TopicStates, MoveSteps, LockSteps, ForkSteps, Opened
<1> QED BY <1>3, <1>4 DEF AdoptSeat

LEMMA OpenWalks ==
    ASSUME Housed, NEW h \in Handlers, NEW pc, NEW next,
           <<pc, next>> \in {<<"open", "unbind">>, <<"fork", "create">>}, Open(h, pc, next)
    PROVE  Housed'
<1>1. /\ TypeOK /\ Errands /\ Apart /\ h \in Actors /\ task[h].pc = pc /\ next \in Steps
      /\ UNCHANGED <<kind, session, route, owed, asked>>
      /\ (pc = "open" /\ next = "unbind") \/ (pc = "fork" /\ next = "create")
  BY RoomTypes DEF Housed, Open, At, Steps
<1>2. /\ ~task[h].fresh /\ owed' \in [Sessions -> SUBSET Seats] /\ asked' \in 0 .. MaxTasks
      /\ task[h].s \in Sessions /\ (session[task[h].s].born <=> pc = "open")
      /\ topic \in [Threads -> TopicStates]
  BY <1>1, Given DEF Errands, Opened
<1>3. CASE kind = "group" /\ End(h) /\ UNCHANGED topic
  BY <1>1, <1>2, <1>3, Quits, TopicsStand DEF MoveSteps
<1>4. CASE kind = "dm" /\ task' = [task EXCEPT ![h].pc = next, ![h].topic = Root] /\ UNCHANGED topic
  <2>1. Becomes(h, next, task[h].s, task[h].claim, Root, task[h].fresh)
    BY <1>1, <1>4, GoesTo, RoomTypes
  <2>2. NoNewTopics
    BY <1>4, TopicsStand
  <2> QED BY <1>1, <1>2, <1>4, <2>1, <2>2, Walks, RoomTypes
      DEF TopicStates, MoveSteps, LockSteps, ForkSteps, Opened
<1>5. ASSUME NEW t \in Fresh, topic' = [topic EXCEPT ![t] = "open"],
             task' = [task EXCEPT ![h].pc = next, ![h].topic = t, ![h].fresh = TRUE]
      PROVE  Housed'
  <2>1. t \in Threads /\ t \in Seats /\ topic[t] = "unused"
    BY <1>1, RoomTypes DEF Fresh
  <2>2. Becomes(h, next, task[h].s, task[h].claim, t, TRUE)
    BY <1>1, <1>5, <2>1, GoesToFresh
  <2>3. NoNewTopics /\ topic' \in [Threads -> TopicStates]
    BY <1>2, <1>5, <2>1 DEF NoNewTopics, TopicStates
  <2>4. kind = "group" => Unused(t) /\ Clear(h, task[h].claim)
    BY <1>1, <2>1, <2>3, OwnIsClear DEF Apart
  <2>5. kind = "group" => Clear(h, t)
    BY <1>2, <1>5, <2>1, <2>4 DEF Unused, Clear
  <2> QED BY <1>1, <1>2, <2>1, <2>2, <2>3, <2>4, <2>5, Walks, RoomTypes
      DEF TopicStates, MoveSteps, LockSteps, ForkSteps, Opened, Unused
<1> QED BY <1>3, <1>4, <1>5 DEF Open

LEMMA AdoptFailWalks ==
    ASSUME Housed, NEW h \in Handlers, AdoptFail(h)
    PROVE  Housed'
BY FailedWalks, RoomTypes DEF Housed, AdoptFail, At, MoveSteps

LEMMA ForkWalks ==
    ASSUME Housed, NEW h \in Handlers, NEW n \in Sessions, NEW at \in Seats, Fork(h, n, at)
    PROVE  Housed'
<1>1. TypeOK /\ Apart /\ Errands
  BY DEF Housed
<1>2. /\ task[h].pc = "idle" /\ asked' \in 0 .. MaxTasks
      /\ task' = [task EXCEPT ![h] = [Idle EXCEPT !.pc = "fork", !.s = n]]
      /\ UNCHANGED <<kind, topic, session, route, owed>>
  BY <1>1, Started DEF Fork
<1>3. ~session[n].born /\ \A g \in Handlers : task[g].s # n
  BY RoomsAssumption DEF Fork, Born
<1>4. Becomes(h, "fork", n, Root, Root, FALSE)
  BY <1>1, <1>2, SetsOutPlain, RoomTypes DEF Steps
<1>5. NoNewTopics /\ Clear(h, Root)
  BY <1>2, TopicsStand, RootIsClear
<1> QED BY <1>1, <1>2, <1>3, <1>4, <1>5, Walks, Given, RoomTypes
    DEF TopicStates, MoveSteps, LockSteps, ForkSteps, Opened

LEMMA DoneWalks ==
    ASSUME Housed, NEW h \in Handlers, NEW s \in Sessions, Done(h, s)
    PROVE  Housed'
<1>1. TypeOK /\ Apart /\ Errands
  BY DEF Housed
<1>2. /\ task[h].pc = "idle" /\ asked' \in 0 .. MaxTasks
      /\ task' = [task EXCEPT ![h] = [Idle EXCEPT !.pc = "archive", !.s = s, !.claim = session[s].seat]]
      /\ UNCHANGED <<kind, topic, session, route, owed>> /\ s \in Offered
  BY <1>1, Started DEF Done
<1>3. session[s].seat \in Seats \cup {Nowhere} /\ "archive" \in Steps /\ h \in Actors
  BY RoomTypes, <1>1, Given DEF Steps
<1>4. session[s].born /\ \A g \in Handlers : task[g].s = s => task[g].pc \notin ForkSteps
  BY <1>2, Offers
<1>5. Becomes(h, "archive", s, session[s].seat, Root, FALSE)
  BY <1>1, <1>2, <1>3, SetsOutFrom
<1>6. NoNewTopics
  BY <1>2, TopicsStand
<1>7. kind = "group" => Clear(h, Root) /\ Clear(h, session[s].seat)
  BY <1>1, <1>4, <1>6, SeatIsClear, RootIsClear
<1> QED BY <1>1, <1>2, <1>4, <1>5, <1>6, <1>7, Walks, Given, RoomTypes
    DEF TopicStates, MoveSteps, LockSteps, ForkSteps, Opened

LEMMA DoneArchiveWalks ==
    ASSUME Housed, NEW h \in Handlers, DoneArchive(h)
    PROVE  Housed'
<1>1. /\ TypeOK /\ Errands /\ h \in Actors /\ task[h].pc = "archive"
      /\ UNCHANGED <<kind, topic, session, route, owed, asked>>
  BY RoomTypes DEF Housed, DoneArchive, At
<1>2. NoNewTopics /\ topic' \in [Threads -> TopicStates] /\ ~task[h].fresh
  BY <1>1, TopicsStand, Given DEF Errands, Opened
<1>3. CASE To(h, "retire")
  BY <1>1, <1>2, <1>3, WalksOn DEF MoveSteps, LockSteps, ForkSteps, Opened, Steps
<1>4. CASE End(h)
  BY <1>1, <1>2, <1>4, Quits DEF MoveSteps
<1> QED BY <1>3, <1>4 DEF DoneArchive

\* Into a step of /done that moves the session: it has just begun to move.
LEMMA DoneWalksOn ==
    ASSUME Housed, NEW h \in Handlers, task[h].pc = "retire", To(h, "mark"),
           UNCHANGED <<kind, session, route, owed, asked>>,
           topic' \in [Threads -> TopicStates], NoNewTopics
    PROVE  Housed'
<1>1. TypeOK /\ Errands /\ ~task[h].fresh
  BY RoomTypes DEF Housed, Errands, Opened
<1> QED BY <1>1, WalksOn DEF MoveSteps, LockSteps, ForkSteps, Opened, Steps

LEMMA DoneRetireWalks ==
    ASSUME Housed, NEW h \in Handlers, DoneRetire(h)
    PROVE  Housed'
<1> DEFINE s == task[h].s
           t == session[s].seat
<1>1. /\ TypeOK /\ Errands /\ Exclusive /\ Apart /\ h \in Actors /\ task[h].pc = "retire"
      /\ UNCHANGED <<kind, session, route, owed, asked>>
  BY RoomTypes DEF Housed, DoneRetire, At
<1>2. /\ ~task[h].fresh /\ owed' \in [Sessions -> SUBSET Seats] /\ asked' \in 0 .. MaxTasks
      /\ s \in Sessions /\ session[s].born /\ topic \in [Threads -> TopicStates]
      /\ t \in Seats \cup {Nowhere}
  BY <1>1, Given DEF Errands, Opened
<1>3. \A g \in Handlers \ {h} : task[g].s = s => task[g].pc \notin ForkSteps
  BY <1>1 DEF Exclusive
<1> HIDE DEF s, t
<1>4. ASSUME NEW pc \in {"unseat", "retired"}, pc = "retired" => kind = "group",
             task' = [task EXCEPT ![h].pc = pc, ![h].topic = t],
             NoNewTopics, topic' \in [Threads -> TopicStates]
      PROVE  Housed'
  <2>1. Becomes(h, pc, task[h].s, task[h].claim, t, task[h].fresh)
    BY <1>1, <1>2, <1>4, GoesTo DEF Steps
  <2>2. kind = "group" => Clear(h, task[h].claim) /\ Clear(h, t)
    BY <1>1, <1>2, <1>3, <1>4, OwnIsClear, SeatIsClear DEF t
  <2> QED BY <1>1, <1>2, <1>4, <2>1, <2>2, Walks, RoomTypes
      DEF TopicStates, MoveSteps, LockSteps, ForkSteps, Opened, s
<1>5. topic' = topic \/ (t \in Threads /\ \E v \in {"gone", "closed", "left"} :
          topic' = [topic EXCEPT ![t] = v])
      => NoNewTopics /\ topic' \in [Threads -> TopicStates]
  BY <1>2 DEF NoNewTopics, TopicStates
<1>6. CASE t \notin Threads /\ To(h, "mark") /\ UNCHANGED topic
  BY <1>1, <1>5, <1>6, DoneWalksOn
<1>7. CASE /\ t \in Threads /\ topic' = [topic EXCEPT ![t] = "gone"]
           /\ task' = [task EXCEPT ![h].pc = "unseat", ![h].topic = t]
  BY <1>4, <1>5, <1>7
<1>8. CASE /\ t \in Threads /\ topic' \in {[topic EXCEPT ![t] = v] : v \in {"closed", "left"}}
           /\ To(h, "mark")
  BY <1>1, <1>5, <1>8, DoneWalksOn
<1>9. CASE /\ UNCHANGED topic
           /\ task' = IF RenameProvesDeletion
                      THEN [task EXCEPT ![h].pc = "retired", ![h].topic = t]
                      ELSE [task EXCEPT ![h].pc = "mark"]
  <2>1. CASE RenameProvesDeletion
    BY <1>4, <1>5, <1>9, <2>1 DEF RenameProvesDeletion
  <2>2. CASE ~RenameProvesDeletion
    BY <1>1, <1>5, <1>9, <2>2, DoneWalksOn DEF To
  <2> QED BY <2>1, <2>2
<1> QED BY <1>6, <1>7, <1>8, <1>9 DEF DoneRetire, s, t

LEMMA DiscoverWalks ==
    ASSUME Housed, NEW d \in Discoverers, NEW s \in Sessions, Discover(d, s), kind = "group",
           HasRoom(s), task[d].pc = "idle", UNCHANGED <<kind, topic, session, route, asked>>,
           owed' \in [Sessions -> SUBSET Seats]
    PROVE  Housed'
<1>1. /\ TypeOK /\ Errands /\ Apart /\ Exclusive /\ Routed /\ d \in Actors /\ d \notin Handlers
      /\ Root \in Seats
  BY RoomTypes DEF Housed
<1>2. /\ session[s].seat \in Threads /\ session[s].born /\ session[s].seat \in Seats \cup {Nowhere}
      /\ topic' \in [Threads -> TopicStates] /\ NoNewTopics /\ asked' \in 0 .. MaxTasks
  BY <1>1, RoomsAssumption, RoomTypes, Given, TopicsStand DEF HasRoom, Routed
<1>3. Becomes(d, "gone", s, Root, session[s].seat, FALSE)
  BY <1>1, <1>2, SetsOutTo DEF Discover, Steps
<1>4. TypeOK'
  BY <1>1, <1>2, <1>3, TypesKept, RoomTypes DEF Becomes, TopicStates
<1>5. Errands'
  BY <1>1, <1>2, <1>3, ErrandsKept DEF Opened
<1>6. Exclusive'
  BY <1>1, <1>3, ExclusiveKept
<1>7. Routed'
  BY <1>1, <1>3, RoutedKept
<1>8. Seated'
  BY <1>1, <1>3, SeatedKept DEF Housed, MoveSteps
<1>9. \A h \in Handlers : task'[h] = task[h]
  BY <1>1, <1>3, RoomTypes DEF Becomes
<1>10. Apart'
  BY <1>1, <1>9 DEF Apart, Unused
<1> QED BY <1>4, <1>5, <1>6, <1>7, <1>8, <1>10 DEF Housed

LEMMA OthersWalk ==
    ASSUME Housed,
           \/ \E d \in Discoverers, s \in Sessions : RenameRefused(d, s)
           \/ \E d \in Discoverers, s \in Sessions, t \in Threads : SendRefused(d, s, t)
           \/ \E s \in Sessions : Queue(s)
           \/ \E s \in Sessions, t \in Threads : Deliver(s, t)
           \/ \E t \in Threads : DeleteTopic(t) \/ OpenThread(t)
           \/ UNCHANGED vars
    PROVE  Housed'
<1>1. /\ TypeOK /\ owed \in [Sessions -> SUBSET Seats] /\ topic \in [Threads -> TopicStates]
      /\ Threads \subseteq Seats
  BY Given, RoomTypes DEF Housed
<1>2. ASSUME NEW d \in Discoverers, NEW s \in Sessions, RenameRefused(d, s) PROVE Housed'
  BY <1>1, <1>2, DiscoverWalks DEF RenameRefused, RenameProvesDeletion, At
<1>3. ASSUME NEW d \in Discoverers, NEW s \in Sessions, NEW t \in Threads, SendRefused(d, s, t)
      PROVE  Housed'
  <2>1. owed' \in [Sessions -> SUBSET Seats]
    BY <1>1, <1>3 DEF SendRefused
  <2>2. CASE HasRoom(s)
    BY <1>3, <2>1, <2>2, DiscoverWalks DEF SendRefused, At
  <2>3. CASE ~HasRoom(s)
    BY <1>1, <1>3, <2>1, <2>3, Idles, TopicsStand DEF SendRefused
  <2> QED BY <2>2, <2>3
<1>4. ASSUME NEW s \in Sessions, Queue(s) PROVE Housed'
  <2>1. owed' \in [Sessions -> SUBSET Seats]
    BY <1>1, <1>4 DEF Queue, HasRoom
  <2> QED BY <1>1, <1>4, <2>1, Idles, TopicsStand DEF Queue
<1>5. ASSUME NEW s \in Sessions, NEW t \in Threads, Deliver(s, t) PROVE Housed'
  <2>1. owed' \in [Sessions -> SUBSET Seats]
    BY <1>1, <1>5 DEF Deliver
  <2> QED BY <1>1, <1>5, <2>1, Idles, TopicsStand DEF Deliver
<1>6. ASSUME NEW t \in Threads, DeleteTopic(t) \/ OpenThread(t) PROVE Housed'
  <2>1. topic' \in [Threads -> TopicStates] /\ NoNewTopics
    BY <1>1, <1>6 DEF DeleteTopic, OpenThread, NoNewTopics, TopicStates
  <2> QED BY <1>1, <1>6, <2>1, Idles DEF DeleteTopic, OpenThread
<1>7. CASE UNCHANGED vars
  BY <1>1, <1>7, Idles, TopicsStand DEF vars
<1> QED BY <1>2, <1>3, <1>4, <1>5, <1>6, <1>7

(* A step that writes the tables keeps everything but what they say.       *)
Onward ==
    {<<"unbind", "seek">>, <<"create", "address">>, <<"address", "bind">>, <<"bind", "route">>,
     <<"unseat", "unroute">>, <<"unroute", "mark">>, <<"mark", "forget">>, <<"gone", "detach">>,
     <<"retired", "detach">>, <<"detach", "release">>, <<"release", "mark">>}

LEMMA Writes ==
    ASSUME Housed, NEW a \in Actors, NEW pc,
           \/ pc = "idle" /\ End(a)
           \/ To(a, pc) /\ <<task[a].pc, pc>> \in Onward,
           a \in Handlers \/ pc # "mark",
           UNCHANGED <<kind, topic, owed, asked>>,
           session' \in [Sessions -> Row], route' \in [Seats -> Pointer],
           \A x \in Sessions :
              /\ session[x].born => session'[x].born
              /\ session'[x].born => session[x].born \/ (x = task[a].s /\ task[a].pc = "create"),
           pc = "address" => session'[task[a].s].born,
           kind = "group" =>
              /\ \A t \in Seats : route'[t].ours => route[t].ours \/ Clear(a, t)
              /\ \A x \in Sessions : session'[x].seat = session[x].seat \/ Clear(a, session'[x].seat)
              /\ a \in Handlers /\ task[a].fresh /\ pc # "idle" =>
                    /\ ~route'[task[a].topic].ours
                    /\ \A x \in Sessions :
                          session'[x].seat = task[a].topic => x = task[a].s /\ pc \in ForkSteps
    PROVE  /\ TypeOK' /\ Errands' /\ Exclusive' /\ Apart'
           /\ \A b \in Actors \ {a} : task'[b] = task[b]
           /\ task'[a].pc = pc
           /\ pc # "idle" => /\ task'[a].s = task[a].s /\ task'[a].topic = task[a].topic
                             /\ task[a].s \in Sessions /\ task[a].pc # "idle"
<1>1. TypeOK /\ Errands /\ Exclusive /\ Apart /\ (a \in Handlers \/ task[a].pc \notin ForkSteps \cup LockSteps)
  BY DEF Housed, Errands, ForkSteps, LockSteps, Opened
<1>2. /\ NoNewTopics /\ topic' \in [Threads -> TopicStates] /\ owed' \in [Sessions -> SUBSET Seats]
      /\ asked' \in 0 .. MaxTasks
  BY <1>1, TopicsStand, Given
<1>3. CASE pc = "idle" /\ End(a)
  <2>1. Becomes(a, "idle", NoOne, Root, Root, FALSE)
    BY <1>1, <1>3, Ends
  <2>2. Clear(a, Root)
    BY RootIsClear
  <2>3. TypeOK'
    BY <1>1, <1>2, <2>1, TypesKept DEF Becomes, TopicStates
  <2>4. Errands'
    BY <1>1, <1>3, <2>1, ErrandsKept DEF Opened
  <2>5. Exclusive'
    BY <1>1, <1>3, <2>1, ExclusiveKept DEF LockSteps, ForkSteps, Opened
  <2>6. Apart'
    BY <1>1, <1>2, <1>3, <2>1, <2>2, ApartKept
  <2> QED BY <1>3, <2>1, <2>3, <2>4, <2>5, <2>6 DEF Becomes
<1>4. CASE To(a, pc) /\ <<task[a].pc, pc>> \in Onward
  <2>0. pc \in Steps /\ pc # "idle" /\ task[a].pc # "idle"
    BY <1>4 DEF Onward, Steps
  <2>1. Becomes(a, pc, task[a].s, task[a].claim, task[a].topic, task[a].fresh)
    BY <1>1, <1>4, <2>0, Goes
  <2>2. a \in Handlers /\ kind = "group" => Clear(a, task[a].topic) /\ Clear(a, task[a].claim)
    BY <1>1, <1>2, OwnIsClear
  <2>3. TypeOK'
    BY <1>1, <1>2, <2>1, TypesKept DEF Becomes, TopicStates
  <2>4. Errands'
    <3>1. /\ task[a].s \in Sessions
          /\ (pc # "address" => session[task[a].s].born /\ task[a].pc # "create")
          /\ pc \in {"seek", "address", "bind", "route"} => task[a].topic \in Seats
          /\ pc \in {"detach", "release"} => kind = "group"
          /\ task[a].fresh => pc \in {"seek", "address", "bind", "route"} /\ task[a].topic \in Threads
          /\ pc \in {"address", "bind", "route"} => task[a].topic = Root \/ task[a].fresh
      BY <1>1, <1>4, <2>0 DEF Onward, Errands, Opened
    <3>2. a \in Handlers \/ pc \in {"detach", "release"}
      BY <1>1, <1>4 DEF Onward, Errands
    <3>3. pc \in {"seek", "address", "bind", "route", "unroute", "mark", "forget", "detach", "release"}
      BY <1>4 DEF Onward
    <3> QED BY <1>1, <2>1, <3>1, <3>2, <3>3, ErrandsKept DEF Opened
  <2>5. Exclusive'
    <3>1. /\ pc \in LockSteps => task[a].pc \in LockSteps
          /\ pc \in ForkSteps => task[a].pc \in ForkSteps
      BY <1>4 DEF Onward, LockSteps, ForkSteps, Opened
    <3> QED BY <1>1, <2>1, <3>1, ExclusiveKept
  <2>6. Apart'
    <3>1. CASE a \in Handlers
      <4>1. kind = "group" /\ task[a].fresh =>
               \A g \in Handlers \ {a} : task[g].topic # task[a].topic /\ task[g].claim # task[a].topic
        BY <1>1, <3>1 DEF Apart
      <4>2. task[a].fresh => task[a].topic \in Threads
        BY <1>1 DEF Errands
      <4> QED BY <1>1, <1>2, <2>0, <2>1, <2>2, <3>1, <4>1, <4>2, ApartKept
    <3>2. CASE a \notin Handlers
      <4>1. \A h \in Handlers : task'[h] = task[h]
        BY <2>1, <3>2, <1>1, RoomTypes DEF Becomes
      <4>3. ASSUME kind = "group", NEW t \in Threads, topic[t] = "unused" PROVE Unused(t)'
        BY <1>1, <4>1, <4>3, RoomTypes, Given DEF Apart, Unused, Clear
      <4>4. ASSUME kind = "group", NEW h \in Handlers, task[h].fresh
            PROVE  /\ ~route'[task[h].topic].ours
                   /\ \A x \in Sessions :
                         session'[x].seat = task[h].topic => x = task[h].s /\ task[h].pc \in ForkSteps
        <5>1. task[h].topic \in Threads
          BY <1>1, <4>4, RoomTypes DEF Errands
        <5> QED BY <1>1, <3>2, <4>4, <5>1, RoomTypes DEF Apart, Clear
      <4> QED BY <1>1, <4>1, <4>3, <4>4 DEF Apart
    <3> QED BY <3>1, <3>2
  <2>7. task[a].s \in Sessions
    BY <1>1, <2>0 DEF Errands
  <2> QED BY <2>0, <2>1, <2>3, <2>4, <2>5, <2>6, <2>7 DEF Becomes
<1> QED BY <1>3, <1>4

LEMMA RoutedStays ==
    ASSUME TypeOK, Routed, NEW a \in Actors,
           \A b \in Actors \ {a} : task'[b] = task[b],
           task'[a].pc \notin {"address", "bind", "route"},
           \A x \in Seats :
              /\ route'[x].session \in {NoOne, route[x].session}
              /\ route'[x].session # NoOne => route'[x].ours,
           \A x \in Sessions :
              /\ session'[x].seat # session[x].seat => session[x].born /\ session'[x].seat = Root
              /\ session'[x].bound => session[x].bound
              /\ session'[x].born <=> session[x].born,
           \A h \in Handlers : task[h].pc \in {"address", "bind", "route"} => task[h].s \in Sessions
    PROVE  Routed'
<1>1. \A x \in Sessions : Pointed(x)' => Pointed(x)
  BY RoomTypes DEF Pointed
<1>2. ASSUME NEW h \in Handlers, task'[h].pc \in {"address", "bind", "route"}
      PROVE  /\ task[h] = task'[h]
             /\ task[h].pc \in {"address", "bind"} => ~session'[task[h].s].bound /\ ~Pointed(task[h].s)'
             /\ task[h].pc = "route" => session'[task[h].s].seat \in {task[h].topic, Root}
  <2>1. task[h] = task'[h] /\ task[h].s \in Sessions
    BY <1>2, RoomTypes
  <2> QED BY <1>1, <1>2, <2>1 DEF Routed
<1>3. \A x \in Sessions :
         ~session'[x].born => ~session'[x].bound /\ session'[x].seat = Nowhere /\ ~Pointed(x)'
  BY <1>1 DEF Routed
<1>4. /\ \A x, y \in Seats : route'[x].session # NoOne /\ route'[x].session = route'[y].session => x = y
      /\ \A x \in Seats : route'[x].session # NoOne => route'[x].ours
      /\ \A t \in Threads, x \in Sessions : route'[t].session = x => session'[x].seat \in {t, Root}
  BY RoomTypes DEF Routed
<1> QED BY <1>2, <1>3, <1>4 DEF Routed, Pointed

LEMMA SeatedStays ==
    ASSUME TypeOK, Seated, kind' = kind, NEW a \in Actors,
           \A b \in Actors \ {a} : task'[b] = task[b],
           task'[a].pc # "probe",
           task[a].pc \in MoveSteps =>
              \/ task[a].s \in Sessions /\ ~session'[task[a].s].bound
              \/ task'[a].pc \in MoveSteps /\ task'[a].s = task[a].s,
           \A x \in Sessions :
              session'[x].seat = session[x].seat /\ (session'[x].bound => session[x].bound),
           \A h \in Handlers : task[h].pc = "probe" => task[h].s \in Sessions
    PROVE  Seated'
<1>1. ASSUME NEW x \in Sessions, Moving(x), session'[x].bound
      PROVE  \E b \in Actors : task'[b].s = x /\ task'[b].pc \in MoveSteps
  BY <1>1 DEF Moving
<1>2. ASSUME NEW x \in Sessions, NEW y \in Sessions, Shared(x, y)'
      PROVE  (Moving(x)' \/ Moving(y)') /\ (kind' = "group" => session'[x].seat = Root)
  <2>1. Shared(x, y) /\ session'[x].bound /\ session'[y].bound
    BY <1>2 DEF Shared
  <2>2. (Moving(x) \/ Moving(y)) /\ (kind = "group" => session[x].seat = Root)
    BY <2>1 DEF Seated
  <2> QED BY <1>1, <2>1, <2>2 DEF Moving
<1>3. ASSUME NEW h \in Handlers, task'[h].pc = "probe", session'[task'[h].s].bound
      PROVE  IF kind' = "group"
             THEN \A x \in Sessions \ {task'[h].s} : session'[x].bound => session'[x].seat # task'[h].topic
             ELSE \/ session'[task'[h].s].seat = task'[h].topic
                  \/ \E b \in Actors : task'[b].s = task'[h].s /\ task'[b].pc \in MoveSteps
  <2>1. task'[h] = task[h] /\ task[h].s \in Sessions
    BY <1>3, RoomTypes
  <2>2. IF kind = "group"
        THEN \A x \in Sessions \ {task[h].s} : session[x].bound => session[x].seat # task[h].topic
        ELSE session[task[h].s].seat = task[h].topic \/ Moving(task[h].s)
    BY <1>3, <2>1 DEF Seated
  <2> QED BY <1>1, <1>3, <2>1, <2>2
<1> QED BY <1>2, <1>3 DEF Seated, Moving

LEMMA Carried ==
    ASSUME TypeOK, Errands
    PROVE  \A h \in Handlers : task[h].pc # "idle" => task[h].s \in Sessions
BY RoomTypes DEF Errands

LEMMA UnbindHouses ==
    ASSUME Housed, NEW h \in Handlers, AdoptUnbind(h)
    PROVE  Housed'
<1>1. /\ TypeOK /\ Errands /\ Routed /\ Apart /\ Seated /\ Exclusive /\ h \in Actors
      /\ task[h].pc = "unbind"
      /\ UNCHANGED <<kind, topic, route, owed, asked>> /\ To(h, "seek")
  BY RoomTypes DEF Housed, AdoptUnbind, At
<1>2. /\ session' \in [Sessions -> Row] /\ route' \in [Seats -> Pointer]
      /\ \A x \in Sessions :
            /\ session'[x].seat = session[x].seat /\ (session'[x].born <=> session[x].born)
            /\ session'[x].bound => session[x].bound
  BY <1>1, Unbound, RoomTypes DEF AdoptUnbind
<1>3. kind = "group" /\ task[h].fresh =>
         /\ ~route[task[h].topic].ours
         /\ \A x \in Sessions : session[x].seat = task[h].topic => x = task[h].s /\ FALSE
  BY <1>1 DEF Apart, ForkSteps, Opened
<1>4. /\ TypeOK' /\ Errands' /\ Exclusive' /\ Apart'
      /\ \A b \in Actors \ {h} : task'[b] = task[b]
      /\ task'[h].pc = "seek" /\ task'[h].s = task[h].s /\ task'[h].topic = task[h].topic
  BY <1>1, <1>2, <1>3, Writes DEF Onward
<1>5. Routed'
  BY <1>1, <1>2, <1>4, Carried, RoutedStays DEF Routed
<1>6. Seated'
  BY <1>1, <1>2, <1>4, Carried, SeatedStays DEF MoveSteps
<1> QED BY <1>4, <1>5, <1>6 DEF Housed

\* A session that is routed, and read, in one seat.
LEMMA RoutedTo ==
    ASSUME TypeOK, Errands, Exclusive, Routed, NEW h \in Handlers, NEW s \in Sessions, NEW t \in Seats,
           s = task[h].s, session[s].born,
           \A b \in Actors \ {h} : task'[b] = task[b], task'[h].pc = "idle",
           \A x \in Seats :
              /\ route'[x].session = IF x = t THEN s
                                     ELSE IF route[x].session = s THEN NoOne
                                     ELSE route[x].session
              /\ route'[x].ours <=> x = t \/ route[x].ours,
           session'[s].seat \in {t, Root},
           \A x \in Sessions :
              /\ x # s => session'[x].seat = session[x].seat
              /\ session'[x].bound => session[x].bound \/ x = s
              /\ session'[x].born <=> session[x].born,
           task[h].pc \in LockSteps \cup ForkSteps
    PROVE  Routed'
<1>1. \A x, y \in Seats : route'[x].session # NoOne /\ route'[x].session = route'[y].session => x = y
  BY RoomTypes DEF Routed
<1>2. \A x \in Seats : route'[x].session # NoOne => route'[x].ours
  BY DEF Routed
<1>3. \A v \in Threads, x \in Sessions : route'[v].session = x => session'[x].seat \in {v, Root}
  BY RoomTypes DEF Routed
<1>4. \A x \in Sessions : Pointed(x)' => Pointed(x) \/ x = s
  BY RoomTypes DEF Pointed
<1>5. \A x \in Sessions :
         ~session'[x].born => ~session'[x].bound /\ session'[x].seat = Nowhere /\ ~Pointed(x)'
  BY <1>4 DEF Routed
<1>6. ASSUME NEW g \in Handlers, task'[g].pc \in {"address", "bind", "route"}
      PROVE  task'[g] = task[g] /\ task[g].s # s /\ task[g].s \in Sessions
  BY <1>6, RoomTypes DEF Exclusive, Errands, ForkSteps, Opened
<1>7. ASSUME NEW g \in Handlers, task'[g].pc \in {"address", "bind"}
      PROVE  ~session'[task'[g].s].bound /\ ~Pointed(task[g].s)'
  BY <1>4, <1>6, <1>7 DEF Routed
<1>8. ASSUME NEW g \in Handlers, task'[g].pc = "route"
      PROVE  session'[task'[g].s].seat \in {task'[g].topic, Root}
  BY <1>6, <1>8 DEF Routed
<1> QED BY <1>1, <1>2, <1>3, <1>5, <1>6, <1>7, <1>8 DEF Routed, Pointed

LEMMA JumpHouses ==
    ASSUME Housed, NEW h \in Handlers, AdoptJump(h)
    PROVE  Housed'
<1> DEFINE s == task[h].s
           t == task[h].topic
<1>1. /\ TypeOK /\ Errands /\ Routed /\ Apart /\ Seated /\ Exclusive /\ h \in Actors
      /\ task[h].pc = "probe" /\ UNCHANGED <<kind, topic, owed, asked>> /\ End(h)
  BY RoomTypes DEF Housed, AdoptJump, At
<1>2. /\ s \in Sessions /\ session[s].born /\ t \in Threads /\ t \in Seats /\ ~task[h].fresh
      /\ topic \in [Threads -> TopicStates]
  BY <1>1, RoomTypes, Given DEF Errands, Opened
<1>3. CASE Taken(t, s)
  <2>1. UNCHANGED <<session, route>>
    BY <1>3 DEF AdoptJump
  <2> QED BY <1>1, <1>2, <2>1, Quits, TopicsStand DEF MoveSteps
<1>4. CASE ~Taken(t, s)
  <2>1. session' = [session EXCEPT ![s].seat = t] /\ (route[t].session = s => route' = route)
        /\ (route[t].session # s => route' = RouteTo(s, t))
        /\ route[t].session \in {NoOne, s}
    BY <1>2, <1>4 DEF AdoptJump, Taken
  <2> HIDE DEF s, t
  <2>2. /\ session' \in [Sessions -> Row]
        /\ \A x \in Sessions :
              /\ session'[x].seat = IF x = s THEN t ELSE session[x].seat
              /\ session'[x].bound <=> session[x].bound
              /\ session'[x].born <=> session[x].born
    BY <1>1, <1>2, <2>1, SeatWritten
  <2>3. /\ route' \in [Seats -> Pointer]
        /\ route[t].session # s =>
             \A x \in Seats :
                /\ route'[x].session = IF x = t THEN s
                                       ELSE IF route[x].session = s THEN NoOne
                                       ELSE route[x].session
                /\ route'[x].ours <=> x = t \/ route[x].ours
    BY <1>1, <1>2, <2>1, RouteWritten, RoomTypes
  <2>4. kind = "group" => Clear(h, t)
    BY <1>1, OwnIsClear, TopicsStand DEF t
  <2>5. kind = "group" =>
           /\ \A x \in Seats : route'[x].ours => route[x].ours \/ Clear(h, x)
           /\ \A x \in Sessions : session'[x].seat = session[x].seat \/ Clear(h, session'[x].seat)
    BY <2>1, <2>2, <2>3, <2>4
  <2>6. /\ TypeOK' /\ Errands' /\ Exclusive' /\ Apart'
        /\ \A b \in Actors \ {h} : task'[b] = task[b]
        /\ task'[h].pc = "idle"
    <3>1. /\ session' \in [Sessions -> Row] /\ route' \in [Seats -> Pointer]
          /\ \A x \in Sessions :
                /\ session[x].born => session'[x].born
                /\ session'[x].born => session[x].born \/ (x = task[h].s /\ task[h].pc = "create")
      BY <2>2, <2>3
    <3>2. /\ Housed /\ h \in Actors /\ h \in Handlers /\ End(h)
          /\ UNCHANGED <<kind, topic, owed, asked>>
      BY <1>1
    <3> QED BY <2>5, <3>1, <3>2, Writes
  <2>7. \A x \in Seats :
           /\ route'[x].session = IF x = t THEN s
                                  ELSE IF route[x].session = s THEN NoOne
                                  ELSE route[x].session
           /\ route'[x].ours <=> x = t \/ route[x].ours
    BY <1>1, <1>2, <2>1, <2>3, RoomTypes DEF Routed
  <2>8. Routed'
    BY <1>1, <1>2, <2>2, <2>6, <2>7, RoutedTo DEF LockSteps, s
  <2>9. Seated'
    <3>1. \A x : Moving(x) => \E b \in Actors : task'[b].s = x /\ task'[b].pc \in MoveSteps
      BY <1>1, <2>6 DEF Moving, MoveSteps
    <3>2. \A g \in Handlers : task'[g].pc # "probe"
      BY <1>1, <2>6, RoomTypes DEF Exclusive, LockSteps
    <3>3. session[s].bound =>
             IF kind = "group"
             THEN \A x \in Sessions \ {s} : session[x].bound => session[x].seat # t
             ELSE session[s].seat = t \/ Moving(s)
      BY <1>1 DEF Seated, s, t
    <3>4. ASSUME NEW x \in Sessions, NEW y \in Sessions, Shared(x, y)'
          PROVE  (Moving(x)' \/ Moving(y)') /\ (kind' = "group" => session'[x].seat = Root)
      <4>1. CASE Shared(x, y)
        <5>1. (Moving(x) \/ Moving(y)) /\ (kind = "group" => session[x].seat = Root)
          BY <1>1, <4>1 DEF Seated
        <5>2. kind = "group" => x # s /\ y # s
          BY <1>1, <1>2, <2>2, <3>3, <3>4, <5>1 DEF Shared
        <5> QED BY <1>1, <2>2, <3>1, <5>1, <5>2 DEF Moving
      <4>2. CASE ~Shared(x, y)
        BY <1>1, <1>2, <2>2, <3>1, <3>3, <3>4, <4>2 DEF Shared, Moving
      <4> QED BY <4>1, <4>2
    <3> QED BY <3>2, <3>4 DEF Seated
  <2> QED BY <2>6, <2>8, <2>9 DEF Housed
<1> QED BY <1>3, <1>4

LEMMA AllUnbound ==
    ASSUME TypeOK, NEW rows, rows = [x \in Sessions |-> [session[x] EXCEPT !.bound = FALSE]]
    PROVE  /\ rows \in [Sessions -> Row]
           /\ \A x \in Sessions :
                 rows[x].seat = session[x].seat /\ ~rows[x].bound /\ (rows[x].born <=> session[x].born)
<1>1. ASSUME NEW x \in Sessions
      PROVE  /\ rows[x] \in Row /\ rows[x].seat = session[x].seat /\ ~rows[x].bound
             /\ rows[x].born <=> session[x].born
  <2>1. rows[x] = [session[x] EXCEPT !.bound = FALSE] /\ session[x] \in Row
    BY RoomTypes
  <2> QED BY <2>1, Flags, Zenon
<1> QED BY <1>1

LEMMA CommitHouses ==
    ASSUME Housed, NEW h \in Handlers, AdoptCommit(h)
    PROVE  Housed'
<1> DEFINE s == task[h].s
           t == task[h].topic
           rows == [x \in Sessions |-> [session[x] EXCEPT !.bound = FALSE]]
<1>1. /\ TypeOK /\ Errands /\ Routed /\ Apart /\ Seated /\ Exclusive /\ h \in Actors
      /\ task[h].pc = "seek" /\ UNCHANGED <<kind, owed, asked>>
  BY RoomTypes DEF Housed, AdoptCommit, At
<1>2. s \in Sessions /\ session[s].born /\ t \in Seats
  BY <1>1, RoomTypes DEF Errands
<1>3. CASE Taken(t, s)
  BY <1>1, <1>3, FailedWalks DEF AdoptCommit, MoveSteps
<1>4. CASE ~Taken(t, s)
  <2>1. session' = Bind(rows, s, t) /\ route' = RouteTo(s, t) /\ End(h) /\ UNCHANGED topic
    BY <1>4 DEF AdoptCommit
  <2>2. /\ rows \in [Sessions -> Row]
        /\ \A x \in Sessions :
              rows[x].seat = session[x].seat /\ ~rows[x].bound /\ (rows[x].born <=> session[x].born)
    BY <1>1, AllUnbound
  <2> HIDE DEF s, t, rows
  <2>3. /\ session' \in [Sessions -> Row]
        /\ \A x \in Sessions :
              /\ session'[x].seat = IF x = s THEN t ELSE session[x].seat
              /\ session'[x].bound <=> x = s
              /\ session'[x].born <=> session[x].born
    <3>1. /\ Bind(rows, s, t) \in [Sessions -> Row]
          /\ \A x \in Sessions :
                LET r == Bind(rows, s, t)[x]
                IN  /\ r.seat = (IF x = s THEN t ELSE rows[x].seat) /\ (r.born <=> rows[x].born)
                    /\ r.bound <=> (x = s \/ (rows[x].bound /\ rows[x].seat # t))
      <4>1. rows \in [Sessions -> Row] /\ s \in Sessions /\ t \in Seats \cup {Nowhere}
        BY <1>2, <2>2
      <4> QED BY <4>1, BindTyped
    <3> QED BY <2>1, <2>2, <3>1
  <2>4. /\ route' \in [Seats -> Pointer]
        /\ \A x \in Seats :
              /\ route'[x].session = IF x = t THEN s
                                     ELSE IF route[x].session = s THEN NoOne
                                     ELSE route[x].session
              /\ route'[x].ours <=> x = t \/ route[x].ours
    BY <1>1, <1>2, <2>1, RouteWritten
  <2>5. kind = "group" => Clear(h, t)
    BY <1>1, <2>1, OwnIsClear, TopicsStand DEF t
  <2>6. kind = "group" =>
           /\ \A x \in Seats : route'[x].ours => route[x].ours \/ Clear(h, x)
           /\ \A x \in Sessions : session'[x].seat = session[x].seat \/ Clear(h, session'[x].seat)
    BY <2>3, <2>4, <2>5
  <2>7. \A x \in Sessions :
           /\ session[x].born => session'[x].born
           /\ session'[x].born => session[x].born \/ (x = task[h].s /\ task[h].pc = "create")
    BY <2>3
  <2>8. session' \in [Sessions -> Row] /\ route' \in [Seats -> Pointer]
    BY <2>3, <2>4
  <2>9. /\ TypeOK' /\ Errands' /\ Exclusive' /\ Apart'
        /\ \A b \in Actors \ {h} : task'[b] = task[b]
        /\ task'[h].pc = "idle"
    <3>1. /\ Housed /\ h \in Actors /\ h \in Handlers /\ End(h)
          /\ UNCHANGED <<kind, topic, owed, asked>>
      BY <1>1, <2>1
    <3> QED BY <2>6, <2>7, <2>8, <3>1, Writes
  <2>10. Routed'
    BY <1>1, <1>2, <2>3, <2>4, <2>9, RoutedTo DEF LockSteps, s
  <2>11. Seated'
    <3>1. \A g \in Handlers : task'[g].pc # "probe"
      BY <1>1, <2>9, RoomTypes DEF Exclusive, LockSteps
    <3>2. \A x, y \in Sessions : ~Shared(x, y)'
      BY <2>3 DEF Shared
    <3> QED BY <3>1, <3>2 DEF Seated
  <2> QED BY <2>9, <2>10, <2>11 DEF Housed
<1> QED BY <1>3, <1>4

(* /fork.                                                                  *)
LEMMA RoutedFork ==
    ASSUME TypeOK, Errands, Exclusive, Routed, NEW h \in Handlers, NEW s \in Sessions,
           s = task[h].s, task[h].pc \in ForkSteps, route' = route,
           \A b \in Actors \ {h} : task'[b] = task[b], task'[h].s = s,
           \A x \in Sessions :
              x # s => /\ session'[x].seat = session[x].seat
                       /\ session'[x].bound => session[x].bound
                       /\ session'[x].born <=> session[x].born,
           session'[s].born, ~Pointed(s),
           task'[h].pc \in {"address", "bind"} => ~session'[s].bound,
           task'[h].pc = "route" => session'[s].seat \in {task'[h].topic, Root}
    PROVE  Routed'
<1>1. \A x : Pointed(x)' <=> Pointed(x)
  BY DEF Pointed
<1>2. ASSUME NEW t \in Threads, NEW x \in Sessions, route'[t].session = x
      PROVE  session'[x].seat \in {t, Root}
  BY <1>2, RoomTypes DEF Routed, Pointed
<1>3. \A x \in Sessions :
         ~session'[x].born => ~session'[x].bound /\ session'[x].seat = Nowhere /\ ~Pointed(x)'
  BY <1>1 DEF Routed
<1>4. ASSUME NEW g \in Handlers, g # h, task'[g].pc \in {"address", "bind", "route"}
      PROVE  task'[g] = task[g] /\ task[g].s # s /\ task[g].s \in Sessions
  BY <1>4, RoomTypes DEF Exclusive, Errands, ForkSteps, Opened
<1>5. ASSUME NEW g \in Handlers, task'[g].pc \in {"address", "bind"}
      PROVE  ~session'[task'[g].s].bound /\ ~Pointed(task'[g].s)
  BY <1>4, <1>5 DEF Routed
<1>6. ASSUME NEW g \in Handlers, task'[g].pc = "route"
      PROVE  session'[task'[g].s].seat \in {task'[g].topic, Root}
  BY <1>4, <1>6 DEF Routed
<1>7. /\ \A x, y \in Seats : route'[x].session # NoOne /\ route'[x].session = route'[y].session => x = y
      /\ \A x \in Seats : route'[x].session # NoOne => route'[x].ours
  BY DEF Routed
<1> QED BY <1>1, <1>2, <1>3, <1>5, <1>6, <1>7 DEF Routed, Pointed

LEMMA SeatedFork ==
    ASSUME TypeOK, Errands, Exclusive, Seated, kind' = kind, NEW h \in Handlers, NEW s \in Sessions,
           s = task[h].s, task[h].pc \in ForkSteps, task'[h].pc \in ForkSteps,
           \A b \in Actors \ {h} : task'[b] = task[b],
           \A x \in Sessions :
              x # s => /\ session'[x].seat = session[x].seat
                       /\ session'[x].bound => session[x].bound,
           session'[s].bound =>
              /\ \A x \in Sessions : x # s /\ session'[x].bound => session'[x].seat # session'[s].seat
              /\ kind = "group" =>
                    \A g \in Handlers : task[g].pc = "probe" => task[g].topic # session'[s].seat
    PROVE  Seated'
<1>1. \A x : Moving(x) => \E b \in Actors : task'[b].s = x /\ task'[b].pc \in MoveSteps
  BY RoomTypes DEF Moving, MoveSteps, ForkSteps, Opened
<1>2. ASSUME NEW x \in Sessions, NEW y \in Sessions, Shared(x, y)'
      PROVE  (Moving(x)' \/ Moving(y)') /\ (kind' = "group" => session'[x].seat = Root)
  <2>1. x # s /\ y # s /\ Shared(x, y)
    BY <1>2 DEF Shared
  <2>2. (Moving(x) \/ Moving(y)) /\ (kind = "group" => session[x].seat = Root)
    BY <2>1 DEF Seated
  <2> QED BY <1>1, <2>1, <2>2 DEF Moving
<1>3. ASSUME NEW g \in Handlers, task'[g].pc = "probe", session'[task'[g].s].bound
      PROVE  IF kind' = "group"
             THEN \A x \in Sessions \ {task'[g].s} : session'[x].bound => session'[x].seat # task'[g].topic
             ELSE \/ session'[task'[g].s].seat = task'[g].topic
                  \/ \E b \in Actors : task'[b].s = task'[g].s /\ task'[b].pc \in MoveSteps
  <2>1. g # h /\ task'[g] = task[g] /\ task[g].s \in Sessions /\ task[g].s # s
    BY <1>3, RoomTypes DEF Exclusive, Errands, ForkSteps, Opened
  <2>2. IF kind = "group"
        THEN \A x \in Sessions \ {task[g].s} : session[x].bound => session[x].seat # task[g].topic
        ELSE session[task[g].s].seat = task[g].topic \/ Moving(task[g].s)
    BY <1>3, <2>1 DEF Seated
  <2> QED BY <1>1, <1>3, <2>1, <2>2
<1> QED BY <1>2, <1>3 DEF Seated, Moving

LEMMA CreateHouses ==
    ASSUME Housed, NEW h \in Handlers, ForkCreate(h)
    PROVE  Housed'
<1>1. /\ TypeOK /\ Errands /\ Routed /\ Apart /\ Seated /\ Exclusive /\ h \in Actors
      /\ task[h].pc = "create" /\ UNCHANGED <<kind, route, owed, asked>>
  BY RoomTypes DEF Housed, ForkCreate, At
<1>2. CASE Failed(h) /\ UNCHANGED session
  BY <1>1, <1>2, FailedWalks DEF MoveSteps
<1>3. CASE session' = [session EXCEPT ![task[h].s].born = TRUE] /\ To(h, "address") /\ UNCHANGED topic
  <2> DEFINE s == task[h].s
  <2>0. s \in Sessions /\ ~session[s].born
    BY <1>1 DEF Errands
  <2>1. /\ session' \in [Sessions -> Row]
        /\ \A x \in Sessions :
              /\ session'[x].seat = session[x].seat
              /\ session'[x].bound <=> session[x].bound
              /\ session'[x].born <=> session[x].born \/ x = s
    BY <1>1, <1>3, BornWritten
  <2>2. /\ session' \in [Sessions -> Row] /\ route' \in [Seats -> Pointer] /\ session'[s].born
        /\ \A x \in Sessions :
              /\ session[x].born => session'[x].born
              /\ session'[x].born => session[x].born \/ (x = s /\ task[h].pc = "create")
              /\ session'[x].seat = session[x].seat
              /\ session'[x].bound => session[x].bound
    BY <1>1, <2>0, <2>1, RoomTypes
  <2>3. kind = "group" /\ task[h].fresh =>
           /\ ~route[task[h].topic].ours
           /\ \A x \in Sessions : session[x].seat = task[h].topic => x = task[h].s
    BY <1>1 DEF Apart
  <2>4. /\ TypeOK' /\ Errands' /\ Exclusive' /\ Apart'
        /\ \A b \in Actors \ {h} : task'[b] = task[b]
        /\ task'[h].pc = "address" /\ task'[h].s = s /\ task'[h].topic = task[h].topic
    <3>1. /\ Housed /\ h \in Actors /\ h \in Handlers /\ To(h, "address")
          /\ <<task[h].pc, "address">> \in Onward
          /\ UNCHANGED <<kind, topic, owed, asked>> /\ route' = route
      BY <1>1, <1>3 DEF Onward
    <3>2. "address" \in ForkSteps
      BY DEF ForkSteps, Opened
    <3>3. /\ \A x \in Seats : route'[x].ours => route[x].ours \/ Clear(h, x)
          /\ \A x \in Sessions : session'[x].seat = session[x].seat \/ Clear(h, session'[x].seat)
          /\ kind = "group" /\ h \in Handlers /\ task[h].fresh /\ "address" # "idle" =>
               /\ ~route'[task[h].topic].ours
               /\ \A x \in Sessions :
                     session'[x].seat = task[h].topic => x = task[h].s /\ "address" \in ForkSteps
      BY <2>2, <2>3, <3>1, <3>2
    <3> QED BY <2>2, <3>1, <3>3, Writes
  <2>5. ~Pointed(s) /\ ~session[s].bound
    BY <1>1, <2>0 DEF Routed
  <2>6. Routed'
    BY <1>1, <2>0, <2>1, <2>4, <2>5, RoutedFork DEF ForkSteps, Opened
  <2>7. Seated'
    BY <1>1, <2>2, <2>4, Carried, SeatedStays DEF MoveSteps
  <2> QED BY <2>4, <2>6, <2>7 DEF Housed
<1> QED BY <1>2, <1>3 DEF ForkCreate

LEMMA AddressHouses ==
    ASSUME Housed, NEW h \in Handlers, ForkAddress(h)
    PROVE  Housed'
<1> DEFINE s == task[h].s
           t == task[h].topic
<1>1. /\ TypeOK /\ Errands /\ Routed /\ Apart /\ Seated /\ Exclusive /\ h \in Actors
      /\ task[h].pc = "address" /\ UNCHANGED <<kind, topic, route, owed, asked>> /\ To(h, "bind")
  BY RoomTypes DEF Housed, ForkAddress, At
<1>2. s \in Sessions /\ session[s].born /\ t \in Seats /\ ~session[s].bound /\ ~Pointed(s)
  BY <1>1, RoomTypes DEF Errands, Opened, Routed
<1>3. /\ session' \in [Sessions -> Row] /\ route' \in [Seats -> Pointer]
      /\ \A x \in Sessions :
            /\ session'[x].seat = (IF x = s /\ t # Root THEN t ELSE session[x].seat)
            /\ session'[x].bound <=> session[x].bound
            /\ session'[x].born <=> session[x].born
  <2>1. CASE t = Root
    BY <1>1, <2>1, RoomTypes DEF ForkAddress
  <2>2. CASE t # Root
    <3>1. session' = [session EXCEPT ![s].seat = t]
      BY <2>2 DEF ForkAddress
    <3> HIDE DEF s, t
    <3>2. /\ session' \in [Sessions -> Row]
          /\ \A x \in Sessions :
                /\ session'[x].seat = IF x = s THEN t ELSE session[x].seat
                /\ session'[x].bound <=> session[x].bound
                /\ session'[x].born <=> session[x].born
      BY <1>1, <1>2, <3>1, SeatWritten
    <3> QED BY <1>1, <2>2, <3>2, RoomTypes
  <2> QED BY <2>1, <2>2
<1> HIDE DEF s, t
<1>4. kind = "group" => Clear(h, t)
  BY <1>1, OwnIsClear, TopicsStand DEF t
<1>5. kind = "group" =>
         /\ \A x \in Seats : route'[x].ours => route[x].ours \/ Clear(h, x)
         /\ \A x \in Sessions : session'[x].seat = session[x].seat \/ Clear(h, session'[x].seat)
         /\ h \in Handlers /\ task[h].fresh /\ "bind" # "idle" =>
               /\ ~route'[task[h].topic].ours
               /\ \A x \in Sessions :
                     session'[x].seat = task[h].topic => x = task[h].s /\ "bind" \in ForkSteps
  BY <1>1, <1>3, <1>4 DEF Apart, s, ForkSteps, Opened
<1>6. \A x \in Sessions :
         /\ session[x].born => session'[x].born
         /\ session'[x].born => session[x].born \/ (x = task[h].s /\ task[h].pc = "create")
  BY <1>3
<1>7. /\ TypeOK' /\ Errands' /\ Exclusive' /\ Apart'
      /\ \A b \in Actors \ {h} : task'[b] = task[b]
      /\ task'[h].pc = "bind" /\ task'[h].s = s /\ task'[h].topic = t
  <2>1. /\ Housed /\ h \in Actors /\ h \in Handlers /\ To(h, "bind") /\ <<task[h].pc, "bind">> \in Onward
        /\ UNCHANGED <<kind, topic, owed, asked>> /\ session' \in [Sessions -> Row]
        /\ route' \in [Seats -> Pointer]
    BY <1>1, <1>3 DEF Onward
  <2> QED BY <1>5, <1>6, <2>1, Writes DEF s, t
<1>8. Routed'
  <2>1. \A x \in Sessions :
           x # s => /\ session'[x].seat = session[x].seat
                    /\ session'[x].bound => session[x].bound
                    /\ session'[x].born <=> session[x].born
    BY <1>3
  <2> QED BY <1>1, <1>2, <1>3, <1>7, <2>1, RoutedFork DEF ForkSteps, Opened, s
<1>9. Seated'
  BY <1>1, <1>2, <1>3, <1>7, SeatedFork DEF ForkSteps, Opened, s
<1> QED BY <1>7, <1>8, <1>9 DEF Housed

LEMMA BindHouses ==
    ASSUME Housed, NEW h \in Handlers, ForkBind(h)
    PROVE  Housed'
<1> DEFINE s == task[h].s
           t == task[h].topic
<1>1. /\ TypeOK /\ Errands /\ Routed /\ Apart /\ Seated /\ Exclusive /\ h \in Actors
      /\ task[h].pc = "bind" /\ UNCHANGED <<kind, topic, route, owed, asked>> /\ To(h, "route")
  BY RoomTypes DEF Housed, ForkBind, At
<1>2. s \in Sessions /\ session[s].born /\ t \in Seats /\ ~Pointed(s)
  BY <1>1, RoomTypes DEF Errands, Opened, Routed
<1>3. /\ session' \in [Sessions -> Row] /\ route' \in [Seats -> Pointer]
      /\ \A x \in Sessions :
            /\ session'[x].seat = (IF x = s THEN t ELSE session[x].seat)
            /\ session'[x].bound <=> (x = s \/ (session[x].bound /\ session[x].seat # t))
            /\ session'[x].born <=> session[x].born
  <2>1. session' = Bind(session, s, t) /\ session \in [Sessions -> Row] /\ t \in Seats \cup {Nowhere}
    BY <1>1, <1>2, RoomTypes DEF ForkBind
  <2>2. /\ Bind(session, s, t) \in [Sessions -> Row]
        /\ \A x \in Sessions :
              LET r == Bind(session, s, t)[x]
              IN  /\ r.seat = (IF x = s THEN t ELSE session[x].seat) /\ (r.born <=> session[x].born)
                  /\ r.bound <=> (x = s \/ (session[x].bound /\ session[x].seat # t))
    BY <1>2, <2>1, BindTyped
  <2> HIDE DEF s, t
  <2> QED BY <1>1, <2>1, <2>2, RoomTypes
<1> HIDE DEF s, t
<1>4. kind = "group" => Clear(h, t)
  BY <1>1, OwnIsClear, TopicsStand DEF t
<1>5. kind = "group" =>
         /\ \A x \in Seats : route'[x].ours => route[x].ours \/ Clear(h, x)
         /\ \A x \in Sessions : session'[x].seat = session[x].seat \/ Clear(h, session'[x].seat)
         /\ h \in Handlers /\ task[h].fresh /\ "route" # "idle" =>
               /\ ~route'[task[h].topic].ours
               /\ \A x \in Sessions :
                     session'[x].seat = task[h].topic => x = task[h].s /\ "route" \in ForkSteps
  BY <1>1, <1>3, <1>4 DEF Apart, s, ForkSteps, Opened
<1>6. \A x \in Sessions :
         /\ session[x].born => session'[x].born
         /\ session'[x].born => session[x].born \/ (x = task[h].s /\ task[h].pc = "create")
  BY <1>3
<1>7. /\ TypeOK' /\ Errands' /\ Exclusive' /\ Apart'
      /\ \A b \in Actors \ {h} : task'[b] = task[b]
      /\ task'[h].pc = "route" /\ task'[h].s = s /\ task'[h].topic = t
  <2>1. /\ Housed /\ h \in Actors /\ h \in Handlers /\ To(h, "route") /\ <<task[h].pc, "route">> \in Onward
        /\ UNCHANGED <<kind, topic, owed, asked>> /\ session' \in [Sessions -> Row]
        /\ route' \in [Seats -> Pointer]
    BY <1>1, <1>3 DEF Onward
  <2> QED BY <1>5, <1>6, <2>1, Writes DEF s, t
<1>8. \A x \in Sessions :
         x # s => /\ session'[x].seat = session[x].seat
                  /\ session'[x].bound => session[x].bound
                  /\ session'[x].born <=> session[x].born
  BY <1>3
<1>9. Routed'
  BY <1>1, <1>2, <1>3, <1>7, <1>8, RoutedFork DEF ForkSteps, Opened, s
<1>10. \A g \in Handlers : kind = "group" /\ task[g].pc = "probe" => task[g].topic # t
  <2>1. t = Root \/ task[h].fresh
    BY <1>1 DEF Errands, Opened, t
  <2> QED BY <1>1, <2>1, RoomTypes DEF Apart, Errands, t
<1>11. Seated'
  BY <1>1, <1>2, <1>3, <1>7, <1>8, <1>10, SeatedFork DEF ForkSteps, Opened, s
<1> QED BY <1>7, <1>9, <1>11 DEF Housed

LEMMA RouteHouses ==
    ASSUME Housed, NEW h \in Handlers, ForkRoute(h)
    PROVE  Housed'
<1> DEFINE s == task[h].s
           t == task[h].topic
<1>1. /\ TypeOK /\ Errands /\ Routed /\ Apart /\ Seated /\ Exclusive /\ h \in Actors
      /\ task[h].pc = "route" /\ UNCHANGED <<kind, session, owed, asked>>
  BY RoomTypes DEF Housed, ForkRoute, At
<1>2. s \in Sessions /\ session[s].born /\ t \in Seats /\ session[s].seat \in {t, Root}
  BY <1>1, RoomTypes DEF Errands, Opened, Routed
<1>3. CASE Taken(t, s)
  BY <1>1, <1>3, FailedWalks DEF ForkRoute, MoveSteps
<1>4. CASE ~Taken(t, s)
  <2>1. route' = RouteTo(s, t) /\ End(h) /\ UNCHANGED topic
    BY <1>4 DEF ForkRoute
  <2> HIDE DEF s, t
  <2>2. /\ route' \in [Seats -> Pointer]
        /\ \A x \in Seats :
              /\ route'[x].session = IF x = t THEN s
                                     ELSE IF route[x].session = s THEN NoOne
                                     ELSE route[x].session
              /\ route'[x].ours <=> x = t \/ route[x].ours
    BY <1>1, <1>2, <2>1, RouteWritten
  <2>3. kind = "group" => Clear(h, t)
    BY <1>1, <2>1, OwnIsClear, TopicsStand DEF t
  <2>4. kind = "group" => \A x \in Seats : route'[x].ours => route[x].ours \/ Clear(h, x)
    BY <2>2, <2>3
  <2>5. /\ Housed /\ h \in Actors /\ h \in Handlers /\ End(h)
        /\ UNCHANGED <<kind, topic, owed, asked>>
        /\ session' \in [Sessions -> Row] /\ route' \in [Seats -> Pointer]
    BY <1>1, <2>1, <2>2, RoomTypes
  <2>6. /\ TypeOK' /\ Errands' /\ Exclusive' /\ Apart'
        /\ \A b \in Actors \ {h} : task'[b] = task[b]
        /\ task'[h].pc = "idle"
    <3>1. /\ \A x \in Sessions :
                /\ session[x].born => session'[x].born
                /\ session'[x].born => session[x].born \/ (x = task[h].s /\ task[h].pc = "create")
          /\ \A x \in Sessions : session'[x].seat = session[x].seat \/ Clear(h, session'[x].seat)
      BY <1>1
    <3> QED BY <2>4, <2>5, <3>1, Writes
  <2>7. Routed'
    BY <1>1, <1>2, <2>2, <2>6, RoutedTo DEF ForkSteps, Opened, s
  <2>8. Seated'
    BY <1>1, <2>6, Carried, SeatedStays DEF MoveSteps
  <2> QED BY <2>6, <2>7, <2>8 DEF Housed
<1> QED BY <1>3, <1>4

(* /done and room_gone.                                                    *)
LEMMA UnseatHouses ==
    ASSUME Housed, NEW a \in Actors, NEW pc \in {"unroute", "detach"},
           <<task[a].pc, pc>> \in Onward, task[a].pc \in {"unseat", "gone", "retired"}, To(a, pc),
           session' = [session EXCEPT ![task[a].s].seat = Root],
           UNCHANGED <<kind, topic, route, owed, asked>>
    PROVE  Housed'
<1> DEFINE s == task[a].s
<1>1. TypeOK /\ Errands /\ Routed /\ Apart /\ Seated /\ Exclusive /\ Root \in Seats \cup {Nowhere}
  BY RoomTypes DEF Housed
<1>2. s \in Sessions /\ session[s].born /\ ~task[a].fresh
  BY <1>1 DEF Errands, Opened
<1>3. /\ session' \in [Sessions -> Row]
      /\ \A x \in Sessions :
            /\ session'[x].seat = IF x = s THEN Root ELSE session[x].seat
            /\ session'[x].bound <=> session[x].bound
            /\ session'[x].born <=> session[x].born
  BY <1>1, SeatWritten
<1> HIDE DEF s
<1>4. /\ session' \in [Sessions -> Row] /\ route' \in [Seats -> Pointer]
      /\ \A x \in Sessions :
            /\ session[x].born => session'[x].born
            /\ session'[x].born => session[x].born \/ (x = task[a].s /\ task[a].pc = "create")
      /\ \A x \in Sessions : session'[x].seat = session[x].seat \/ Clear(a, session'[x].seat)
      /\ \A t \in Seats : route'[t].ours => route[t].ours \/ Clear(a, t)
  BY <1>1, <1>3, RootIsClear, RoomTypes
<1>5. /\ TypeOK' /\ Errands' /\ Exclusive' /\ Apart'
      /\ \A b \in Actors \ {a} : task'[b] = task[b]
      /\ task'[a].pc = pc /\ task'[a].s = s
  BY <1>2, <1>4, Writes DEF s
<1>6. Routed'
  <2>1. task'[a].pc \notin {"address", "bind", "route"}
    BY <1>5
  <2>2. \A x \in Seats :
           /\ route'[x].session \in {NoOne, route[x].session}
           /\ route'[x].session # NoOne => route'[x].ours
    BY <1>1 DEF Routed
  <2>3. \A x \in Sessions :
           /\ session'[x].seat # session[x].seat => session[x].born /\ session'[x].seat = Root
           /\ session'[x].bound => session[x].bound
           /\ session'[x].born <=> session[x].born
    BY <1>2, <1>3
  <2>4. \A h \in Handlers : task[h].pc \in {"address", "bind", "route"} => task[h].s \in Sessions
    BY <1>1, Carried
  <2> QED BY <1>1, <1>5, <2>1, <2>2, <2>3, <2>4, RoutedStays
<1>7. Seated'
  <2>1. \A x : Moving(x) \/ x = s => \E b \in Actors : task'[b].s = x /\ task'[b].pc \in MoveSteps
    BY <1>5 DEF Moving, MoveSteps
  <2>2. ASSUME NEW x \in Sessions, NEW y \in Sessions, Shared(x, y)'
        PROVE  (Moving(x)' \/ Moving(y)') /\ (kind' = "group" => session'[x].seat = Root)
    <3>1. CASE x = s \/ y = s
      BY <1>2, <1>3, <2>1, <2>2, <3>1 DEF Moving, Shared
    <3>2. CASE x # s /\ y # s
      <4>1. Shared(x, y)
        BY <1>3, <2>2, <3>2 DEF Shared
      <4>2. (Moving(x) \/ Moving(y)) /\ (kind = "group" => session[x].seat = Root)
        BY <1>1, <4>1 DEF Seated
      <4> QED BY <1>3, <2>1, <3>2, <4>2 DEF Moving
    <3> QED BY <3>1, <3>2
  <2>3. ASSUME NEW g \in Handlers, task'[g].pc = "probe", session'[task'[g].s].bound
        PROVE  IF kind' = "group"
               THEN \A x \in Sessions \ {task'[g].s} : session'[x].bound => session'[x].seat # task'[g].topic
               ELSE \/ session'[task'[g].s].seat = task'[g].topic
                    \/ \E b \in Actors : task'[b].s = task'[g].s /\ task'[b].pc \in MoveSteps
    <3>1. task'[g] = task[g] /\ task[g].s \in Sessions /\ task[g].topic \in Threads
      BY <1>1, <1>5, <2>3, RoomTypes DEF Errands
    <3>2. IF kind = "group"
          THEN \A x \in Sessions \ {task[g].s} : session[x].bound => session[x].seat # task[g].topic
          ELSE session[task[g].s].seat = task[g].topic \/ Moving(task[g].s)
      BY <1>1, <1>3, <2>3, <3>1 DEF Seated
    <3>3. CASE kind = "group"
      BY <1>1, <1>3, <3>1, <3>2, <3>3, RoomTypes
    <3>4. CASE kind # "group"
      BY <1>3, <2>1, <3>1, <3>2, <3>4
    <3> QED BY <3>3, <3>4
  <2> QED BY <2>2, <2>3 DEF Seated, Moving
<1> QED BY <1>5, <1>6, <1>7 DEF Housed

LEMMA PointerHouses ==
    ASSUME Housed, NEW a \in Actors, NEW pc,
           \/ pc = "idle" /\ End(a) /\ task[a].pc = "forget"
           \/ /\ pc \in {"mark", "release"} /\ To(a, pc) /\ <<task[a].pc, pc>> \in Onward
              /\ task[a].pc \in {"unroute", "detach"},
           a \in Handlers \/ pc # "mark",
           route' \in [Seats -> Pointer],
           \A x \in Seats : /\ route'[x].session \in {NoOne, route[x].session}
                            /\ route'[x].ours => route[x].ours
                            /\ route'[x].session # NoOne => (route'[x].ours <=> route[x].ours),
           UNCHANGED <<kind, topic, session, owed, asked>>
    PROVE  Housed'
<1>1. TypeOK /\ Errands /\ Routed /\ Apart /\ Seated /\ Exclusive
  BY RoomTypes DEF Housed
<1>2. ~task[a].fresh /\ task[a].pc \notin LockSteps \cup ForkSteps
  BY <1>1 DEF Errands, Opened, LockSteps, ForkSteps
<1>3. /\ session' \in [Sessions -> Row]
      /\ \A x \in Sessions :
            /\ session[x].born => session'[x].born
            /\ session'[x].born => session[x].born \/ (x = task[a].s /\ task[a].pc = "create")
      /\ \A x \in Sessions : session'[x].seat = session[x].seat \/ Clear(a, session'[x].seat)
      /\ \A t \in Seats : route'[t].ours => route[t].ours \/ Clear(a, t)
  BY <1>1, RoomTypes
<1>4. /\ TypeOK' /\ Errands' /\ Exclusive' /\ Apart'
      /\ \A b \in Actors \ {a} : task'[b] = task[b]
      /\ task'[a].pc = pc
      /\ pc # "idle" => task'[a].s = task[a].s
  <2>1. /\ (pc = "idle" /\ End(a)) \/ (To(a, pc) /\ <<task[a].pc, pc>> \in Onward)
        /\ a \in Handlers \/ pc # "mark"
        /\ UNCHANGED <<kind, topic, owed, asked>> /\ pc # "address"
    OBVIOUS
  <2> QED BY <1>2, <1>3, <2>1, Writes
<1>5. Routed'
  BY <1>1, <1>4, Carried, RoutedStays DEF Routed
<1>6. Seated'
  BY <1>1, <1>4, Carried, SeatedStays DEF MoveSteps
<1> QED BY <1>4, <1>5, <1>6 DEF Housed

LEMMA MarkHouses ==
    ASSUME Housed, NEW h \in Handlers, DoneMark(h)
    PROVE  Housed'
<1> DEFINE s == task[h].s
           w == [session[s] EXCEPT !.bound = FALSE, !.archived = TRUE]
<1>1. /\ TypeOK /\ Errands /\ Routed /\ Apart /\ Seated /\ Exclusive /\ h \in Actors
      /\ task[h].pc = "mark" /\ To(h, "forget") /\ UNCHANGED <<kind, topic, route, owed, asked>>
  BY RoomTypes DEF Housed, DoneMark, At
<1>2. s \in Sessions /\ session[s].born /\ ~task[h].fresh /\ session[s] \in Row
  BY <1>1, RoomTypes DEF Errands, Opened
<1>3. session' = [session EXCEPT ![s] = w]
  <2>1. session' = [session EXCEPT ![s].bound = FALSE, ![s].archived = TRUE]
    BY DEF DoneMark
  <2> HIDE DEF s
  <2> QED BY <1>2, <2>1, RoomTypes
<1>4. /\ w \in Row /\ w.seat = session[s].seat /\ w.bound = FALSE
      /\ w.born = session[s].born
  BY <1>2 DEF Row
<1> HIDE DEF s, w
<1>5. /\ session' \in [Sessions -> Row]
      /\ \A x \in Sessions : session'[x] = IF x = s THEN w ELSE session[x]
  BY <1>1, <1>2, <1>3, <1>4, RoomTypes
<1>6. ~w.bound
  BY <1>4
<1>7. \A x \in Sessions :
         /\ session'[x].seat = session[x].seat
         /\ session'[x].bound => session[x].bound /\ x # s
         /\ session'[x].born <=> session[x].born
  BY <1>4, <1>5, <1>6
<1>8. /\ route' \in [Seats -> Pointer]
      /\ \A x \in Sessions :
            /\ session[x].born => session'[x].born
            /\ session'[x].born => session[x].born \/ (x = task[h].s /\ task[h].pc = "create")
      /\ \A x \in Sessions : session'[x].seat = session[x].seat \/ Clear(h, session'[x].seat)
      /\ \A t \in Seats : route'[t].ours => route[t].ours \/ Clear(h, t)
  BY <1>1, <1>7, RoomTypes
<1>9. /\ TypeOK' /\ Errands' /\ Exclusive' /\ Apart'
      /\ \A b \in Actors \ {h} : task'[b] = task[b]
      /\ task'[h].pc = "forget" /\ task'[h].s = s
  <2>1. /\ Housed /\ h \in Actors /\ h \in Handlers /\ To(h, "forget")
        /\ <<task[h].pc, "forget">> \in Onward
        /\ UNCHANGED <<kind, topic, owed, asked>> /\ session' \in [Sessions -> Row]
    BY <1>1, <1>5 DEF Onward
  <2> QED BY <1>2, <1>8, <2>1, Writes DEF s
<1>10. Routed'
  BY <1>1, <1>7, <1>9, Carried, RoutedStays DEF Routed
<1>11. Seated'
  BY <1>1, <1>2, <1>7, <1>9, Carried, SeatedStays DEF MoveSteps, s
<1> QED BY <1>9, <1>10, <1>11 DEF Housed

LEMMA ReleaseHouses ==
    ASSUME Housed, NEW a \in Actors, GoneRelease(a)
    PROVE  Housed'
<1> DEFINE s == task[a].s
           pc == IF a \in Handlers THEN "mark" ELSE "idle"
<1>1. /\ TypeOK /\ Errands /\ Routed /\ Apart /\ Seated /\ Exclusive
      /\ task[a].pc = "release" /\ UNCHANGED <<kind, topic, route, owed, asked>>
  BY RoomTypes DEF Housed, GoneRelease, At
<1>2. s \in Sessions /\ ~task[a].fresh /\ kind = "group"
  BY <1>1 DEF Errands, Opened
<1>3. /\ session' \in [Sessions -> Row]
      /\ \A x \in Sessions :
            /\ session'[x].seat = session[x].seat /\ (session'[x].born <=> session[x].born)
            /\ session'[x].bound <=> session[x].bound /\ (x = s \/ session[x].seat # Root)
  <2>1. session' = Release(session, Root, s) /\ session \in [Sessions -> Row]
    BY <1>1, RoomTypes DEF GoneRelease
  <2> HIDE DEF s
  <2>2. /\ Release(session, Root, s) \in [Sessions -> Row]
        /\ \A x \in Sessions :
              LET r == Release(session, Root, s)[x]
              IN  /\ r.seat = session[x].seat /\ (r.born <=> session[x].born)
                  /\ r.bound <=> session[x].bound /\ (x = s \/ session[x].seat # Root)
    BY <2>1, Released
  <2> QED BY <2>1, <2>2
<1>4. (pc = "idle" /\ End(a)) \/ (pc = "mark" /\ a \in Handlers /\ To(a, "mark"))
  BY DEF GoneRelease
<1> HIDE DEF s, pc
<1>5. /\ route' \in [Seats -> Pointer]
      /\ \A x \in Sessions :
            /\ session[x].born => session'[x].born
            /\ session'[x].born => session[x].born \/ (x = task[a].s /\ task[a].pc = "create")
      /\ \A x \in Sessions : session'[x].seat = session[x].seat \/ Clear(a, session'[x].seat)
      /\ \A t \in Seats : route'[t].ours => route[t].ours \/ Clear(a, t)
  BY <1>1, <1>3, RoomTypes
<1>6. /\ TypeOK' /\ Errands' /\ Exclusive' /\ Apart'
      /\ \A b \in Actors \ {a} : task'[b] = task[b]
      /\ task'[a].pc \in {"idle", "mark"}
  <2>1. /\ (pc = "idle" /\ End(a)) \/ (To(a, pc) /\ <<task[a].pc, pc>> \in Onward)
        /\ a \in Handlers \/ pc # "mark"
        /\ UNCHANGED <<kind, topic, owed, asked>> /\ pc # "address" /\ pc \in {"idle", "mark"}
        /\ session' \in [Sessions -> Row]
    BY <1>1, <1>3, <1>4 DEF Onward
  <2> QED BY <1>2, <1>5, <2>1, Writes
<1>7. Routed'
  BY <1>1, <1>3, <1>6, Carried, RoutedStays DEF Routed
<1>8. Seated'
  <2>1. ASSUME NEW x \in Sessions, NEW y \in Sessions, Shared(x, y)' PROVE FALSE
    <3>1. Shared(x, y)
      BY <1>3, <2>1 DEF Shared
    <3>2. session[x].seat = Root /\ session[y].seat = Root /\ x # y
      BY <1>1, <1>2, <3>1 DEF Seated, Shared
    <3> QED BY <1>3, <2>1, <3>2 DEF Shared
  <2>2. ASSUME NEW g \in Handlers, task'[g].pc = "probe", session'[task'[g].s].bound
        PROVE  \A x \in Sessions \ {task'[g].s} : session'[x].bound => session'[x].seat # task'[g].topic
    <3>1. task'[g] = task[g] /\ task[g].s \in Sessions
      BY <1>1, <1>6, <2>2, RoomTypes DEF Errands
    <3> QED BY <1>1, <1>2, <1>3, <2>2, <3>1 DEF Seated
  <2> QED BY <1>1, <1>2, <2>1, <2>2 DEF Seated
<1> QED BY <1>6, <1>7, <1>8 DEF Housed

LEMMA HousedInit == Init => Housed
<1> SUFFICES ASSUME Init PROVE Housed
  OBVIOUS
<1>1. TypeOK
  <2>1. /\ \A s \in Sessions : session[s] \in Row /\ session[s].seat = Nowhere
        /\ session = [s \in Sessions |-> session[s]]
    BY DEF Init, Row
  <2>2. task \in [Actors -> Errand] /\ route \in [Seats -> Pointer]
    BY IdleErrand DEF Init, Pointer
  <2>3. session \in [Sessions -> Row]
    BY <2>1
  <2> QED BY <2>2, <2>3, RoomsAssumption DEF TypeOK, Row, Pointer, Errand, Init
<1>2. /\ \A a \in Actors : task[a].pc = "idle" /\ task[a].topic = Root /\ task[a].claim = Root
                           /\ ~task[a].fresh
      /\ \A x \in Seats : route[x].session = NoOne /\ ~route[x].ours
      /\ \A s \in Sessions : session[s].seat = Nowhere /\ ~session[s].bound
      /\ Handlers \subseteq Actors /\ Root \notin Threads /\ Nowhere \notin Threads
      /\ Threads \subseteq Seats /\ NoOne \notin Sessions
  BY RoomsAssumption DEF Init, Idle, Actors, Seats
<1>3. Errands
  BY <1>2 DEF Errands, Opened
<1>4. Exclusive
  BY <1>2 DEF Exclusive, LockSteps, ForkSteps, Opened
<1>5. Routed
  BY <1>2 DEF Routed, Pointed
<1>6. Apart
  BY <1>2 DEF Apart, Unused
<1>7. Seated
  BY <1>2 DEF Seated, Shared
<1> QED BY <1>1, <1>3, <1>4, <1>5, <1>6, <1>7 DEF Housed

LEMMA HandlerHouses ==
    ASSUME Housed, NEW h \in Handlers, HandlerStep(h)
    PROVE  Housed'
<1>0. TypeOK /\ h \in Actors /\ Errands
  BY RoomTypes DEF Housed
<1>1. ASSUME NEW s \in Sessions, NEW at \in Seats, Adopt(h, s, at) \/ Fork(h, s, at) PROVE Housed'
  BY <1>1, AdoptWalks, ForkWalks
<1>2. ASSUME NEW s \in Sessions, Done(h, s) PROVE Housed'
  BY <1>2, DoneWalks
<1>3. CASE AdoptLook(h) \/ AdoptForget(h) \/ AdoptSeat(h) \/ AdoptFail(h)
  BY <1>3, AdoptLookWalks, AdoptForgetWalks, AdoptSeatWalks, AdoptFailWalks
<1>4. CASE AdoptOpen(h) \/ ForkOpen(h)
  BY <1>4, OpenWalks DEF AdoptOpen, ForkOpen
<1>5. CASE AdoptJump(h) \/ AdoptUnbind(h) \/ AdoptCommit(h)
  BY <1>5, JumpHouses, UnbindHouses, CommitHouses
<1>6. CASE ForkCreate(h) \/ ForkAddress(h) \/ ForkBind(h) \/ ForkRoute(h)
  BY <1>6, CreateHouses, AddressHouses, BindHouses, RouteHouses
<1>7. CASE DoneArchive(h) \/ DoneRetire(h) \/ DoneMark(h)
  BY <1>7, DoneArchiveWalks, DoneRetireWalks, MarkHouses
<1>8. CASE DoneUnseat(h)
  BY <1>0, <1>8, UnseatHouses DEF DoneUnseat, At, Onward
<1>9. CASE DoneUnroute(h)
  <2>1. /\ task[h].pc = "unroute" /\ To(h, "mark") /\ <<task[h].pc, "mark">> \in Onward
        /\ UNCHANGED <<kind, topic, session, owed, asked>> /\ route' = Unrouted(task[h].topic)
    BY <1>9 DEF DoneUnroute, At, Onward
  <2>2. /\ route' \in [Seats -> Pointer]
        /\ \A x \in Seats :
              /\ route'[x].session = IF x = task[h].topic THEN NoOne ELSE route[x].session
              /\ route'[x].ours <=> route[x].ours /\ x # task[h].topic
    BY <1>0, <2>1, UnroutedTyped
  <2>3. \A x \in Seats : /\ route'[x].session \in {NoOne, route[x].session}
                         /\ route'[x].ours => route[x].ours
                         /\ route'[x].session # NoOne => (route'[x].ours <=> route[x].ours)
    BY <2>2
  <2> QED BY <1>0, <2>1, <2>2, <2>3, PointerHouses
<1>10. CASE DoneForget(h)
  <2>1. /\ task[h].pc = "forget" /\ End(h) /\ UNCHANGED <<kind, topic, session, owed, asked>>
        /\ route' = route \/ route' = Unrouted(task[h].claim)
    BY <1>10 DEF DoneForget, At
  <2>2. /\ route' \in [Seats -> Pointer]
        /\ \A x \in Seats : /\ route'[x].session \in {NoOne, route[x].session}
                            /\ route'[x].ours => route[x].ours
                            /\ route'[x].session # NoOne => (route'[x].ours <=> route[x].ours)
    <3>1. CASE route' = route
      BY <1>0, <3>1, RoomTypes
    <3>2. CASE route' = Unrouted(task[h].claim)
      <4>1. /\ route' \in [Seats -> Pointer]
            /\ \A x \in Seats :
                  /\ route'[x].session = IF x = task[h].claim THEN NoOne ELSE route[x].session
                  /\ route'[x].ours <=> route[x].ours /\ x # task[h].claim
        BY <1>0, <3>2, UnroutedTyped
      <4> QED BY <4>1
    <3> QED BY <2>1, <3>1, <3>2
  <2> QED BY <1>0, <2>1, <2>2, PointerHouses
<1> QED BY <1>1, <1>2, <1>3, <1>4, <1>5, <1>6, <1>7, <1>8, <1>9, <1>10 DEF HandlerStep

LEMMA GoneHouses ==
    ASSUME Housed, NEW a \in Actors, GoneUnseat(a) \/ GoneDetach(a) \/ GoneRelease(a)
    PROVE  Housed'
<1>0. TypeOK
  BY DEF Housed
<1>1. CASE GoneUnseat(a)
  BY <1>1, UnseatHouses DEF GoneUnseat, At, Onward
<1>2. CASE GoneDetach(a)
  <2>1. /\ task[a].pc = "detach" /\ To(a, "release") /\ <<task[a].pc, "release">> \in Onward
        /\ UNCHANGED <<kind, topic, session, owed, asked>>
        /\ route' = [route EXCEPT ![task[a].topic].session = NoOne]
    BY <1>2 DEF GoneDetach, At, Onward
  <2>2. /\ route' \in [Seats -> Pointer]
        /\ \A x \in Seats :
              /\ route'[x].session = IF x = task[a].topic THEN NoOne ELSE route[x].session
              /\ route'[x].ours <=> route[x].ours
    BY <1>0, <2>1, Detached
  <2>3. \A x \in Seats : /\ route'[x].session \in {NoOne, route[x].session}
                         /\ route'[x].ours => route[x].ours
                         /\ route'[x].session # NoOne => (route'[x].ours <=> route[x].ours)
    BY <2>2
  <2> QED BY <2>1, <2>2, <2>3, PointerHouses
<1>3. CASE GoneRelease(a)
  BY <1>3, ReleaseHouses
<1> QED BY <1>1, <1>2, <1>3

LEMMA HousedStep == Housed /\ [Next]_vars => Housed'
<1> SUFFICES ASSUME Housed, [Next]_vars PROVE Housed'
  OBVIOUS
<1>1. ASSUME NEW h \in Handlers, HandlerStep(h) PROVE Housed'
  BY <1>1, HandlerHouses
<1>2. ASSUME NEW a \in Actors, GoneUnseat(a) \/ GoneDetach(a) \/ GoneRelease(a) PROVE Housed'
  BY <1>2, GoneHouses
<1> QED BY <1>1, <1>2, OthersWalk DEF Next

LEMMA EveryWordLands == Housed => EveryWordFindsItsRoom
<1> SUFFICES ASSUME Housed PROVE TypeOK /\ OneVoicePerSeat /\ NoCrossTalk
  BY DEF EveryWordFindsItsRoom
<1>1. OneVoicePerSeat
  BY DEF Housed, Seated, Shared, Moving, OneVoicePerSeat, Quiet
<1>2. NoCrossTalk
  BY DEF Housed, Routed, NoCrossTalk
<1> QED BY <1>1, <1>2 DEF Housed

\* Between commands a seat has one voice, and a line typed in a topic reaches
\* the session that is read there, however adoptions, forks, /done and
\* room_gone interleave (core.py, topics.py, power.py, adopt.py).
THEOREM WordsFindTheirRooms == SideBySide => []EveryWordFindsItsRoom
<1>1. Spec => []Housed
  BY HousedInit, HousedStep, PTL DEF Spec
<1> QED BY <1>1, RoomSteps, EveryWordLands, PTL

(* A step moves one errand.                                                *)
LEMMA OneMoves ==
    ASSUME TypeOK, NEW a \in Actors, NEW b \in Actors, a # b,
           (a \in Handlers /\ HandlerStep(a)) \/ GoneUnseat(a) \/ GoneDetach(a) \/ GoneRelease(a)
    PROVE  task'[b] = task[b]
<1>0. b \in DOMAIN task
  BY RoomTypes
<1>1. ASSUME NEW s \in Sessions, NEW at \in Seats, Adopt(a, s, at) \/ Fork(a, s, at) \/ Done(a, s)
      PROVE  task'[b] = task[b]
  BY <1>0, <1>1 DEF Adopt, Fork, Done, Starts
<1>2. CASE \/ AdoptLook(a) \/ AdoptJump(a) \/ AdoptForget(a) \/ AdoptSeat(a) \/ AdoptUnbind(a)
           \/ AdoptCommit(a) \/ AdoptFail(a)
  BY <1>0, <1>2 DEF AdoptLook, AdoptJump, AdoptForget, AdoptSeat, AdoptUnbind, AdoptCommit, AdoptFail,
     To, End, Failed
<1>3. CASE AdoptOpen(a) \/ ForkOpen(a)
  BY <1>0, <1>3 DEF AdoptOpen, ForkOpen, Open, To, End
<1>4. CASE ForkCreate(a) \/ ForkAddress(a) \/ ForkBind(a) \/ ForkRoute(a)
  BY <1>0, <1>4 DEF ForkCreate, ForkAddress, ForkBind, ForkRoute, To, End, Failed
<1>5. CASE DoneArchive(a) \/ DoneRetire(a) \/ DoneUnseat(a) \/ DoneUnroute(a) \/ DoneMark(a) \/ DoneForget(a)
  BY <1>0, <1>5 DEF DoneArchive, DoneRetire, DoneUnseat, DoneUnroute, DoneMark, DoneForget, To, End
<1>6. CASE GoneUnseat(a) \/ GoneDetach(a) \/ GoneRelease(a)
  BY <1>0, <1>6 DEF GoneUnseat, GoneDetach, GoneRelease, To, End
<1>7. CASE HandlerStep(a)
  <2>1. ASSUME NEW s \in Sessions, NEW at \in Seats, Adopt(a, s, at) PROVE task'[b] = task[b]
    BY <1>1, <2>1
  <2>2. ASSUME NEW s \in Sessions, NEW at \in Seats, Fork(a, s, at) PROVE task'[b] = task[b]
    BY <1>1, <2>2
  <2>3. ASSUME NEW s \in Sessions, Done(a, s) PROVE task'[b] = task[b]
    BY <1>1, <2>3, RoomTypes
  <2> QED BY <1>2, <1>3, <1>4, <1>5, <1>7, <2>1, <2>2, <2>3 DEF HandlerStep
<1> QED BY <1>6, <1>7

(* What a step may do to a room that is being left.                        *)
LEMMA NoRoomStrays ==
    ASSUME Housed, [Next]_vars, NEW h \in Handlers,
           task[h].fresh, task'[h].pc = "idle", topic'[task[h].topic] = "open"
    PROVE  \/ route'[task[h].topic].ours
           \/ \E s \in Sessions : session'[s].seat = task[h].topic
<1> DEFINE t == task[h].topic
           s == task[h].s
<1>1. /\ TypeOK /\ h \in Actors /\ task[h].pc \in Opened \cup {"unbind", "seek"} /\ t \in Threads
      /\ s \in Sessions /\ topic \in [Threads -> TopicStates] /\ t \in Seats
      /\ Handlers \cap Discoverers = {} /\ task \in [Actors -> Errand]
  BY RoomTypes, Given DEF Housed, Errands, Opened
<1>2. ~Failed(h)
  BY <1>1 DEF Failed, Discarded
<1>3. task'[h] # task[h]
  BY <1>1 DEF Opened
<1>4. HandlerStep(h) \/ GoneUnseat(h) \/ GoneDetach(h) \/ GoneRelease(h)
  <2>1. ASSUME NEW d \in Discoverers, NEW x \in Sessions, Discover(d, x) PROVE task'[h] = task[h]
    BY <1>1, <2>1 DEF Discover
  <2>2. ASSUME NEW x \in Sessions, Queue(x) \/ \E u \in Threads : Deliver(x, u) PROVE task' = task
    BY <2>2 DEF Queue, Deliver
  <2>3. ASSUME NEW u \in Threads, DeleteTopic(u) \/ OpenThread(u) PROVE task' = task
    BY <2>3 DEF DeleteTopic, OpenThread
  <2>4. ~UNCHANGED vars
    BY <1>3 DEF vars
  <2>5. ASSUME NEW d \in Discoverers, NEW x \in Sessions,
               RenameRefused(d, x) \/ \E u \in Threads : SendRefused(d, x, u)
        PROVE  task'[h] = task[h]
    BY <2>1, <2>5 DEF RenameRefused, SendRefused
  <2>6. \/ \E a \in Handlers : HandlerStep(a)
        \/ \E a \in Actors : GoneUnseat(a) \/ GoneDetach(a) \/ GoneRelease(a)
    BY <1>3, <2>2, <2>3, <2>4, <2>5 DEF Next
  <2> QED BY <1>1, <1>3, <2>6, OneMoves, RoomTypes
<1>5. ~(GoneUnseat(h) \/ GoneDetach(h) \/ GoneRelease(h))
  BY <1>1 DEF GoneUnseat, GoneDetach, GoneRelease, At, Opened
<1>6. CASE AdoptCommit(h) \/ ForkRoute(h)
  <2>1. route' = RouteTo(s, t)
    BY <1>2, <1>6 DEF AdoptCommit, ForkRoute
  <2> QED BY <1>1, <2>1, RouteWritten
<1>7. CASE AdoptFail(h) \/ ForkCreate(h)
  BY <1>1, <1>2, <1>7, Goes DEF AdoptFail, ForkCreate, Becomes, Steps
<1>8. CASE AdoptUnbind(h) \/ ForkAddress(h) \/ ForkBind(h)
  <2>1. To(h, "seek") \/ To(h, "bind") \/ To(h, "route")
    BY <1>8 DEF AdoptUnbind, ForkAddress, ForkBind
  <2> QED BY <1>1, <2>1, Goes DEF Becomes, Steps
<1> QED BY <1>1, <1>4, <1>5, <1>6, <1>7, <1>8
    DEF HandlerStep, Opened, At, Adopt, Fork, Done, Starts, AdoptLook, AdoptJump, AdoptForget, AdoptSeat,
        AdoptOpen, ForkOpen, Open, DoneArchive, DoneRetire, DoneUnseat, DoneUnroute, DoneMark, DoneForget

LEMMA NoWayIsLost ==
    ASSUME Housed, [Next]_vars, NEW t \in Threads, route[t].session # NoOne, route'[t].session = NoOne,
           \A h \in Handlers : ~Retires(h, t)
    PROVE  route'[t].ours
<1>1. /\ TypeOK /\ t \in Seats /\ route[t].ours /\ route' # route
      /\ \A a \in Actors : task[a].pc # "idle" => task[a].s \in Sessions
  BY RoomTypes DEF Housed, Routed, Errands
<1>2. ASSUME NEW h \in Handlers, NEW s \in Sessions, NEW at \in Seats, route' = RouteTo(s, at)
      PROVE  route'[t].ours
  BY <1>1, <1>2, RouteWritten
<1>3. ASSUME NEW h \in Handlers, HandlerStep(h)
      PROVE  route'[t].ours
  <2>1. \/ AdoptJump(h) \/ AdoptCommit(h) \/ ForkRoute(h) \/ DoneUnroute(h) \/ DoneForget(h)
    BY <1>1, <1>3 DEF HandlerStep, Adopt, Fork, Done, Starts, AdoptLook, AdoptForget, AdoptSeat, AdoptOpen,
       ForkOpen, Open, AdoptUnbind, AdoptFail, ForkCreate, ForkAddress, ForkBind, DoneArchive,
       DoneRetire, DoneUnseat, DoneMark
  <2>2. CASE AdoptJump(h) \/ AdoptCommit(h) \/ ForkRoute(h)
    <3>1. task[h].pc \in {"probe", "seek", "route"} /\ h \in Actors
      BY <1>1, <2>2, RoomTypes DEF AdoptJump, AdoptCommit, ForkRoute, At
    <3>2. task[h].s \in Sessions /\ task[h].topic \in Seats
      BY <1>1, <3>1, RoomTypes DEF Housed, Errands, Opened
    <3>3. route' = RouteTo(task[h].s, task[h].topic)
      BY <1>1, <2>2 DEF AdoptJump, AdoptCommit, ForkRoute
    <3> QED BY <1>2, <3>2, <3>3
  <2>3. CASE DoneUnroute(h)
    <3>1. task[h].pc = "unroute" /\ route' = Unrouted(task[h].topic)
      BY <2>3 DEF DoneUnroute, At
    <3>2. task[h].topic # t
      BY <3>1 DEF Retires
    <3> QED BY <1>1, <3>1, <3>2, UnroutedTyped
  <2>4. CASE DoneForget(h)
    <3>1. /\ task[h].pc = "forget" /\ route' = Unrouted(task[h].claim)
          /\ route[task[h].claim].session = task[h].s
      BY <1>1, <2>4 DEF DoneForget, At
    <3>2. task[h].claim # t
      BY <3>1 DEF Retires
    <3> QED BY <1>1, <3>1, <3>2, UnroutedTyped
  <2> QED BY <2>1, <2>2, <2>3, <2>4
<1>4. ASSUME NEW a \in Actors, GoneUnseat(a) \/ GoneDetach(a) \/ GoneRelease(a)
      PROVE  route'[t].ours
  <2>1. route' = [route EXCEPT ![task[a].topic].session = NoOne]
    BY <1>1, <1>4 DEF GoneUnseat, GoneDetach, GoneRelease
  <2> QED BY <1>1, <2>1, Detached
<1>5. ASSUME \/ \E d \in Discoverers, s \in Sessions : RenameRefused(d, s)
             \/ \E d \in Discoverers, s \in Sessions, u \in Threads : SendRefused(d, s, u)
             \/ \E s \in Sessions : Queue(s)
             \/ \E s \in Sessions, u \in Threads : Deliver(s, u)
             \/ \E u \in Threads : DeleteTopic(u) \/ OpenThread(u)
             \/ UNCHANGED vars
      PROVE  FALSE
  BY <1>1, <1>5 DEF RenameRefused, SendRefused, Queue, Deliver, DeleteTopic, OpenThread, vars
<1> QED BY <1>3, <1>4, <1>5 DEF Next

\* A command that ends leaves no empty room, and a topic that loses its session
\* keeps the way back to its workspace unless /done retires them (discard_topic,
\* chats.detach_session, chats.bind).
THEOREM RoomsAreNotStranded == SideBySide => NothingIsStranded
<1>1. Housed /\ [Next]_vars =>
         [\A h \in Handlers : LET t == task[h].topic IN
             (task[h].fresh /\ task'[h].pc = "idle" /\ topic'[t] = "open")
                 => route'[t].ours \/ \E s \in Sessions : session'[s].seat = t]_vars
  BY NoRoomStrays
<1>2. Housed /\ [Next]_vars =>
         [\A t \in Threads :
             (route[t].session # NoOne /\ route'[t].session = NoOne /\ \A h \in Handlers : ~Retires(h, t))
                 => route'[t].ours]_vars
  BY NoWayIsLost
<1> QED BY <1>1, <1>2, HousedInit, HousedStep, RoomSteps, PTL
    DEF Spec, NothingIsStranded, NoStrayRooms, LosersStayRecoverable
=============================================================================
