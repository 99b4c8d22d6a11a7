-------------------------- MODULE TranscriptCursor --------------------------
(***************************************************************************)
(* ctb/turn/cursor.py over ctb/db/repo/transcript.py: how a session's      *)
(* remote transcript becomes recorded messages and queued deliveries, and  *)
(* how the cursor is seeded (first bind), advanced, and repaired when the  *)
(* server no longer knows the id it stands on.  Several pollers of one     *)
(* session may overlap in a redeploy, and a handler (/new, /board's Open)  *)
(* seeds and binds the session beside them.  The transcript is external.   *)
(*                                                                         *)
(* A message is its position in the transcript, 1 first; Index gives its   *)
(* sessionIndex, which ascends and may skip numbers.  An id is a position  *)
(* too, and NoId none.  Left out: how a message is rendered and chunked    *)
(* (one delivery per message), the preview and tail windows, the evidence  *)
(* a drain returns (SessionPoller), and the requests of an offset search   *)
(* (OffsetSearch).                                                         *)
(***************************************************************************)
EXTENDS Integers, FiniteSets, FiniteSetsExt

CONSTANTS
    Last,           \* messages the transcript may grow to
    Index,          \* sessionIndex of each message
    Errors,         \* messages whose deliveries have an error's priority
    History,        \* messages it may hold before the session is opened here
    Pollers,
    PageLimit, MaxPages,
    Begins,         \* how it starts: "opened", "created" or "mirrored"
    MaxForgets,     \* ids the server may forget
    MaxFails,       \* ticks that may die half way
    MayReplay,      \* may the server ignore `after`?
    MayShed,        \* may the workspace be over its delivery ceiling?
    MayReopen,      \* may the session be opened a second time?
    MayRace         \* may pollers overlap while one seeds the cursor?

Messages == 1..Last
NoId == 0

ASSUME SizeAssumption ==
    /\ Last \in Nat /\ History \subseteq 0..Last /\ Errors \subseteq Messages
    /\ {PageLimit, MaxPages} \subseteq Nat \ {0}
    /\ {MaxForgets, MaxFails} \subseteq Nat

ASSUME IndexAssumption ==
    /\ Index \in [Messages -> Nat]
    /\ \A m, n \in Messages : m < n => Index[m] < Index[n]

VARIABLES
    length,         \* messages the remote transcript holds
    forgotten,      \* messages whose id the server answers with 404
    row,            \* the session's row: cursor_message_id,
                    \* cursor_session_index, seeded, is_bound, state DEAD
    recorded,       \* transcript_messages
    queued,         \* messages with a row in deliveries
    aside,          \* messages recorded without a delivery: shed, or unbound
    base,           \* the message mirroring began after
    at,             \* where each poller's tick is
    poll,           \* its locals
    opener,         \* where the handler that opens the session is
    found,          \* the end it found
    prompted,       \* a poller has posted the first prompt
    fails           \* ticks that have died

serverVars == <<length, forgotten>>
ledgerVars == <<recorded, queued, aside>>
handlerVars == <<opener, found, prompted>>
vars == <<serverVars, row, ledgerVars, base, at, poll, handlerVars, fails>>

-----------------------------------------------------------------------------
(* The messages a cursor at this index has passed. *)
Passed(index) == {m \in Messages : Index[m] <= index}
IndexOf(m) == IF m = NoId THEN -1 ELSE Index[m]
NoPage == [from |-> 0, to |-> 0, more |-> FALSE]
Blank == [deliver |-> FALSE, id |-> NoId, index |-> -1, offset |-> 0,
          repaired |-> FALSE, pages |-> 0, page |-> NoPage, end |-> 0]
Row == [id : Messages \union {NoId}, index : {-1} \union Nat,
        seeded : BOOLEAN, bound : BOOLEAN, dead : BOOLEAN]
Page == [from : 0..Last, to : 0..Last, more : BOOLEAN]
Local == [deliver : BOOLEAN, id : Messages \union {NoId},
          index : {-1} \union Nat, offset : 0..Last, repaired : BOOLEAN,
          pages : 0..MaxPages, page : Page, end : 0..Last]

RowAt(m, seeded, bound) ==
    [id |-> m, index |-> IndexOf(m), seeded |-> seeded, bound |-> bound,
     dead |-> FALSE]
MoveTo(m) == [row EXCEPT !.id = m, !.index = IndexOf(m), !.seeded = TRUE]

Begin(begin, lengths, start, opening, spoken) ==
    /\ begin \in Begins
    /\ length \in lengths
    /\ row = start
    /\ opener = opening
    /\ prompted = spoken

Init ==
    /\ \/ Begin("opened", History, RowAt(NoId, FALSE, FALSE), "opening", TRUE)
       \/ Begin("created", {0}, RowAt(NoId, FALSE, TRUE), "seeding", FALSE)
       \/ Begin("mirrored", History, RowAt(length, TRUE, TRUE), "done", TRUE)
    /\ forgotten = {}
    /\ recorded = {}
    /\ queued = {}
    /\ aside = {}
    /\ base = length
    /\ at = [p \in Pollers |-> "idle"]
    /\ poll = [p \in Pollers |-> Blank]
    /\ found = 0
    /\ fails = 0

-----------------------------------------------------------------------------
(* A session this bot created says nothing before its first prompt. *)
Say ==
    /\ length < Last
    /\ prompted
    /\ length' = length + 1
    /\ UNCHANGED <<forgotten, row, ledgerVars, base, at, poll, handlerVars, fails>>

Forget ==
    \E m \in 1..length :
        /\ m \notin forgotten
        /\ Cardinality(forgotten) < MaxForgets
        /\ forgotten' = forgotten \union {m}
        /\ UNCHANGED <<length, row, ledgerVars, base, at, poll, handlerVars,
                       fails>>

-----------------------------------------------------------------------------
(* One tick of a poller. *)
Goto(p, where) == at' = [at EXCEPT ![p] = where]
Stop(p) == Goto(p, "idle") /\ poll' = [poll EXCEPT ![p] = Blank]

TickStart(p) ==
    /\ at[p] = "idle"
    /\ row.bound
    /\ ~row.dead
    /\ MayRace \/ \A q \in Pollers : at[q] \notin {"seek", "probe", "seed"}
    /\ Goto(p, IF row.seeded THEN "drain" ELSE "seek")
    /\ UNCHANGED <<serverVars, row, ledgerVars, base, poll, handlerVars,
                   fails>>

(* cursor.seek_to_end: it reads the row, looks for the end, writes it. *)
SeekCheck(p) ==
    /\ at[p] = "seek"
    /\ Goto(p, IF row.seeded THEN "drain" ELSE "probe")
    /\ UNCHANGED <<serverVars, row, ledgerVars, base, poll, handlerVars,
                   fails>>

Probe(p) ==
    /\ at[p] = "probe"
    /\ poll' = [poll EXCEPT ![p].end = length]
    /\ Goto(p, "seed")
    /\ UNCHANGED <<serverVars, row, ledgerVars, base, handlerVars, fails>>

SeekTo(m) ==
    /\ row' = MoveTo(m)
    /\ base' = IF row.seeded THEN base ELSE m

Seed(p) ==
    /\ at[p] = "seed"
    /\ SeekTo(poll[p].end)
    /\ Goto(p, "drain")
    /\ UNCHANGED <<serverVars, ledgerVars, poll, handlerVars, fails>>

(* The tick posts a prompt that waits, and drain begins: it reads the row  *)
(* and the destination, and pages from an offset when it has no id to page *)
(* after.                                                                  *)
DrainStart(p) ==
    /\ at[p] = "drain"
    /\ poll' = [poll EXCEPT ![p] =
                 [Blank EXCEPT !.deliver = row.bound,
                               !.id = row.id, !.index = row.index,
                               !.offset = Cardinality(Passed(row.index))]]
    /\ prompted' = (prompted \/ opener = "done")
    /\ Goto(p, "fetch")
    /\ UNCHANGED <<serverVars, row, ledgerVars, base, opener, found, fails>>

PageAfter(m) ==
    LET last == Min({m + PageLimit, length})
    IN  [from |-> m, to |-> last, more |-> last < length]

Receive(p, page) ==
    /\ poll' = [poll EXCEPT ![p].page = page, ![p].pages = @ + 1]
    /\ Goto(p, "page")
    /\ UNCHANGED <<serverVars, row, ledgerVars, base, handlerVars, fails>>

FetchAfter(p) ==
    /\ at[p] = "fetch"
    /\ poll[p].id \notin forgotten \union {NoId}
    /\ Receive(p, PageAfter(poll[p].id))

FetchReplayed(p) ==
    /\ at[p] = "fetch"
    /\ MayReplay
    /\ poll[p].id # NoId
    /\ Receive(p, PageAfter(0))

FetchByOffset(p) ==
    /\ at[p] = "fetch"
    /\ poll[p].id = NoId
    /\ Receive(p, PageAfter(poll[p].offset))

(* Mutant: the 404 ends the tick, and the next one meets it again. *)
RepairNothing(p) ==
    /\ at[p] = "fetch"
    /\ poll[p].id \in forgotten
    /\ Stop(p)
    /\ UNCHANGED <<serverVars, row, ledgerVars, base, handlerVars, fails>>

(* `after` is answered 404: find the offset past the cursor instead. *)
Repair(p) ==
    /\ at[p] = "fetch"
    /\ poll[p].id \in forgotten
    /\ ~poll[p].repaired
    /\ poll' = [poll EXCEPT ![p].id = NoId, ![p].repaired = TRUE,
                            ![p].offset = Cardinality(Passed(poll[p].index))]
    /\ UNCHANGED <<serverVars, row, ledgerVars, base, at, handlerVars, fails>>

(* A second 404 in one tick is taken for a session that is gone: the       *)
(* machine goes DEAD, which unbinds it.                                    *)
GiveUp(p) ==
    /\ at[p] = "fetch"
    /\ poll[p].id \in forgotten
    /\ poll[p].repaired
    /\ row' = [row EXCEPT !.bound = FALSE, !.dead = TRUE]
    /\ Stop(p)
    /\ UNCHANGED <<serverVars, ledgerVars, base, handlerVars, fails>>

(* Mutant: the server is trusted not to send anything twice. *)
FreshUnchecked(p) == (poll[p].page.from + 1)..poll[p].page.to

(* What the page holds that the cursor has not passed. *)
Fresh(p) ==
    {m \in (poll[p].page.from + 1)..poll[p].page.to : Index[m] > poll[p].index}

(* The page is done with: the next one, or the end of the tick. *)
Turn(p, locals) ==
    LET more == poll[p].page.more /\ poll[p].pages < MaxPages IN
    /\ Goto(p, IF more THEN "fetch" ELSE "idle")
    /\ poll' = [poll EXCEPT ![p] = IF more THEN [locals EXCEPT !.page = NoPage]
                                   ELSE Blank]

(* Mutant: the update of the cursor is not conditional. *)
AdvancedAnyway(top) == MoveTo(top)

(* transcript.advance_cursor: the page's messages, their deliveries and    *)
(* the cursor, in one transaction.                                         *)
Advanced(top) == IF Index[top] > row.index
                 THEN MoveTo(top) ELSE row

AdvanceCursor(p) ==
    LET new == Fresh(p) IN
    /\ at[p] = "page"
    /\ new # {}
    /\ \E shed \in IF MayShed THEN BOOLEAN ELSE {FALSE} :
        LET sends == IF ~poll[p].deliver THEN {}
                     ELSE IF shed THEN new \cap Errors ELSE new
        IN  /\ recorded' = recorded \union new
            /\ queued' = queued \union sends
            /\ aside' = (aside \union new) \ queued'
    /\ row' = Advanced(Max(new))
    /\ Turn(p, [poll[p] EXCEPT !.id = row'.id, !.index = row'.index])
    /\ UNCHANGED <<serverVars, base, handlerVars, fails>>

(* Nothing new.  An offset page may have shown only what is already        *)
(* behind the cursor; an `after` page must not, and ends the tick.         *)
NothingNew(p) ==
    LET page == poll[p].page
        moved == IF poll[p].id = NoId THEN page.to - page.from ELSE 0
    IN  /\ at[p] = "page"
        /\ Fresh(p) = {}
        /\ IF moved = 0 THEN Stop(p)
           ELSE Turn(p, [poll[p] EXCEPT !.offset = @ + moved])
        /\ UNCHANGED <<serverVars, row, ledgerVars, base, handlerVars, fails>>

(* The request fails, the transaction rolls back, or the process dies. *)
Fail(p) ==
    /\ at[p] # "idle"
    /\ fails < MaxFails
    /\ fails' = fails + 1
    /\ Stop(p)
    /\ UNCHANGED <<serverVars, row, ledgerVars, base, handlerVars>>

Poll(p) ==
    \/ TickStart(p) \/ SeekCheck(p) \/ Probe(p) \/ Seed(p) \/ DrainStart(p)
    \/ FetchAfter(p) \/ FetchReplayed(p) \/ FetchByOffset(p) \/ Repair(p)
    \/ GiveUp(p) \/ AdvanceCursor(p) \/ NothingNew(p)

-----------------------------------------------------------------------------
(* The handler.  Opening a workspace unbinds the session, seeks to its end *)
(* and binds it; /new writes an empty cursor and binds.                    *)
Reopen ==
    /\ MayReopen
    /\ opener = "done"
    /\ opener' = "opening"
    /\ row' = [row EXCEPT !.bound = FALSE]
    /\ UNCHANGED <<serverVars, ledgerVars, base, at, poll, found, prompted,
                   fails>>

OpenProbe ==
    /\ opener = "opening"
    /\ opener' = IF row.seeded THEN "binding" ELSE "seeding"
    /\ found' = length
    /\ UNCHANGED <<serverVars, row, ledgerVars, base, at, poll, prompted,
                   fails>>

OpenSeed ==
    /\ opener = "seeding"
    /\ opener' = "binding"
    /\ SeekTo(found)
    /\ UNCHANGED <<serverVars, ledgerVars, at, poll, found, prompted, fails>>

OpenBind ==
    /\ opener = "binding"
    /\ opener' = "done"
    /\ row' = [row EXCEPT !.bound = TRUE]
    /\ UNCHANGED <<serverVars, ledgerVars, base, at, poll, found, prompted,
                   fails>>

Open == OpenProbe \/ OpenSeed \/ OpenBind

Next ==
    \/ Say \/ Forget \/ Reopen \/ Open
    \/ \E p \in Pollers : Poll(p) \/ Fail(p)

Spec == Init /\ [][Next]_vars

(* A poller's tick and a handler's steps are always taken up again. *)
Fairness == WF_vars(Open) /\ \A p \in Pollers : WF_vars(Poll(p))
FairSpec == Spec /\ Fairness

-----------------------------------------------------------------------------
(* Every variable keeps its type. *)
TypeOK ==
    /\ length \in 0..Last
    /\ forgotten \subseteq Messages
    /\ row \in Row
    /\ {recorded, queued, aside} \subseteq SUBSET Messages
    /\ base \in 0..Last
    /\ at \in [Pollers -> {"idle", "seek", "probe", "seed", "drain", "fetch",
                           "page"}]
    /\ poll \in [Pollers -> Local]
    /\ opener \in {"opening", "seeding", "binding", "done"}
    /\ found \in 0..Last
    /\ prompted \in BOOLEAN
    /\ fails \in 0..MaxFails

(* The cursor never passes a message that was not recorded, except the     *)
(* history it was seeded past, although seeding looks for the end of the   *)
(* transcript first and moves the cursor, unconditionally, later.          *)
NothingSkipped == Passed(row.index) \subseteq (1..base) \union recorded

(* History is never replayed into the chat: whatever the server sends back *)
(* to an `after` it ignores, and wherever a repair resumes.                *)
NothingReplayed == recorded \intersect (1..base) = {}

(* Whatever pollers overlap, fail or repair, the transcript goes to the    *)
(* chat in order and in full.                                              *)
Chat == INSTANCE Mirror WITH
            begun <- row.seeded, reached <- Cardinality(Passed(row.index)),
            dropped <- aside
KeepsTheMirror == Chat!Spec

(* What the agent says once the session is mirrored reaches the chat's     *)
(* queue, or is set aside, ticks that die and a forgotten id               *)
(* notwithstanding, unless the session is declared dead, is opened over    *)
(* and over, or the server ignores `after` for good.                       *)
EveryMessageArrives ==
    <>[][~Reopen /\ ~\E p \in Pollers : FetchReplayed(p)]_vars =>
      \A m \in Messages : (row.seeded /\ base < m /\ m <= length)
                              ~> (m \in queued \union aside \/ row.dead)
=============================================================================
