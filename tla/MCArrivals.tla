----------------------------- MODULE MCArrivals -----------------------------
(***************************************************************************)
(* What must arrive: OffsetSearch, TranscriptCursor, VoiceNotes, CIWatch   *)
(* and Pacing, which share no state and are explored side by side, each    *)
(* under its own fairness.  `world`, chosen once, says which of them runs; *)
(* the others stay where they start.                                       *)
(***************************************************************************)
EXTENDS OffsetSearch, TLC

CONSTANTS
    Last, Index, Errors, History, Pollers, PageLimit, MaxPages, Begins,      \* TranscriptCursor
    MaxForgets, MaxFails, MayReplay, MayShed, MayReopen, MayRace,
    Notes, Workers, NoNote, MaxAttempts, OrphanAfter, Deadline, MaxTaps,     \* VoiceNotes
    Instances, MaxHeads, MaxRuns, MaxTurns, MaxErrors, Lifetime,             \* CIWatch
    MaxMishaps,                                                              \* and VoiceNotes
    urgent, plain, talks, x, y, z,
    Destinations, Chats, ChatOf, Backlog, Throttled, Carded, Narrating,      \* Pacing
    Urgent, Nowhere, BatchSize, Burst, Pauses, GlobalChats, GlobalWindow

VARIABLES
    world,
    said, forgotten, row, recorded, queued, aside, base, at, poll, opener,   \* TranscriptCursor
    found, prompted, fails,
    note, worker, billed, prompts, taps, mishaps,                            \* VoiceNotes
    watch, pull, team, polls, turns, last, heard, repeats, excuses, cuts,    \* CIWatch
    rows, aged, rotor, tokens, paused, recent, stopped, task, late \* Pacing

cursorVars ==
    <<said, forgotten, row, recorded, queued, aside, base, at, poll, opener, found, prompted, fails>>
voiceVars == <<note, worker, billed, prompts, taps, mishaps>>
ciVars == <<watch, pull, team, polls, turns, last, heard, repeats, excuses, cuts>>
pacingVars == <<rows, aged, rotor, tokens, paused, recent, stopped, task, late>>
allVars == <<world, vars, cursorVars, voiceVars, ciVars, pacingVars>>

M == INSTANCE TranscriptCursor WITH length <- said
V == INSTANCE VoiceNotes
W == INSTANCE CIWatch WITH row <- watch, poll <- polls, mishaps <- cuts
P == INSTANCE Pacing WITH worker <- task

ASSUME ConstantsFit == V!VoiceAssumption /\ W!CIAssumption /\ P!PacingAssumption

AChatEach == (urgent :> x) @@ (plain :> y) @@ (talks :> z)
TwoUrgent == [d \in Destinations |-> IF d = urgent THEN 2 ELSE 1]
GappyIndex == [m \in 1..Last |-> IF m = 1 THEN 0 ELSE m]

Start ==
    /\ world \in {"search", "transcript", "voice", "ci", "pacing"}
    /\ Init /\ M!Init /\ V!Init /\ W!Init /\ P!Init
    /\ world # "search" => goal = "end" /\ length = 0
    /\ world # "transcript" => prompted
    /\ world # "pacing" => \A d \in Destinations : rows[d] = 0

Step ==
    \/ world = "search" /\ Next /\ UNCHANGED <<world, cursorVars, voiceVars, ciVars, pacingVars>>
    \/ world = "transcript" /\ M!Next /\ UNCHANGED <<world, vars, voiceVars, ciVars, pacingVars>>
    \/ world = "voice" /\ V!Next /\ UNCHANGED <<world, vars, cursorVars, ciVars, pacingVars>>
    \/ world = "ci" /\ W!Next /\ UNCHANGED <<world, vars, cursorVars, voiceVars, pacingVars>>
    \/ world = "pacing" /\ P!Next /\ UNCHANGED <<world, vars, cursorVars, voiceVars, ciVars>>

(* Each specification's own fairness, where it is the one that runs. *)
Fair ==
    /\ WF_cursorVars(world = "transcript" /\ M!Open)
    /\ \A p \in Pollers : WF_cursorVars(world = "transcript" /\ M!Poll(p))
    /\ \A w \in Workers : WF_voiceVars(world = "voice" /\ V!Work(w))
    /\ WF_voiceVars(world = "voice" /\ V!Sweep) /\ WF_voiceVars(world = "voice" /\ V!Tick)
    /\ \A i \in Instances : WF_ciVars(world = "ci" /\ W!Poll(i))
    /\ WF_ciVars(world = "ci" /\ W!Interval)
    /\ WF_pacingVars(world = "pacing" /\ P!Work) /\ WF_pacingVars(world = "pacing" /\ P!Tick)
    /\ \A d \in Narrating : WF_pacingVars(world = "pacing" /\ P!HeadAges(d))

SideBySide == Start /\ [][Step]_allVars /\ Fair

(* What the agent says once a session is mirrored reaches the chat's queue *)
(* or is set aside, whatever tick dies and whichever id is forgotten.      *)
WhatIsSaidArrives == world = "transcript" => M!EveryMessageArrives

(* The vendor is billed within a note's budget of attempts, and a note     *)
(* leaves one prompt at most, whoever claims it, dies or overruns          *)
(* (claim_next, retry_after_error, recover_stale, submit_prompt).          *)
OneNoteOnePrompt == V!TypeOK /\ V!BilledWithinBudget /\ V!OnePromptPerNote

(* Of a batch under way when Telegram asks for a pause, one row at most    *)
(* still goes out: the one whose check the pause has overtaken (_drain).   *)
OneRowIntoAPause == P!TypeOK /\ P!OneRowIntoAPause

(* A topic whose chat takes messages is served, whichever other chats      *)
(* refuse theirs for ever and however long its own turn narrates           *)
(* (run_once, DestinationRotor, held_destinations).                        *)
NobodyStarves == world = "pacing" => P!NobodyStarves

(* Every voice note is answered, and every CI watch ends.                  *)
NothingWaitsForEver == (world = "voice" => V!EveryNoteIsAnswered) /\ (world = "ci" => W!EveryWatchEnds)
=============================================================================
