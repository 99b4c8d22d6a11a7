------------------------------ MODULE MCMirror ------------------------------
(***************************************************************************)
(* What a topic is told: TranscriptCursor, over a transcript whose         *)
(* sessionIndex skips a number, ConductorClient, and CIWatch, which share  *)
(* no state and are explored side by side.  `world`, chosen once, says     *)
(* which of them runs; the others stay where they start.                   *)
(***************************************************************************)
EXTENDS TranscriptCursor, TLC

CONSTANTS
    NoCall, Resources, Api, Threshold, MaxAttempts, Permits, MaxHangs,       \* ConductorClient
    MayGarble,
    MaxHeads, MaxRuns, MaxTurns, MaxErrors, Lifetime, MaxMishaps             \* CIWatch

VARIABLES
    world,
    state, runs, failures, streak, isolated, probe, call, asks, tries,       \* ConductorClient
    landed, blind, sick,
    watch, pull, team, ci, turns, last, heard, repeats, excuses, mishaps     \* CIWatch

clientVars ==
    <<state, runs, failures, streak, isolated, probe, call, asks, tries, landed, blind, sick>>

ciVars == <<watch, pull, team, ci, turns, last, heard, repeats, excuses, mishaps>>

C == INSTANCE ConductorClient WITH Calls <- Pollers, at <- call
W == INSTANCE CIWatch WITH Instances <- Pollers, row <- watch, poll <- ci

ASSUME ConstantsFit == C!NameAssumption /\ C!LimitAssumption /\ W!CIAssumption

GappyIndex == [m \in Messages |-> IF m = 1 THEN 0 ELSE m]
Symmetry == Permutations(Pollers)

Start ==
    /\ world \in {"transcript", "client", "ci"}
    /\ Init /\ C!Init /\ W!Init
    /\ world # "transcript" => row.seeded /\ length = 0
    /\ world # "client" => Api \notin sick

Step ==
    \/ world = "transcript" /\ Next /\ UNCHANGED <<world, clientVars, ciVars>>
    \/ world = "client" /\ C!Next /\ UNCHANGED <<world, vars, ciVars>>
    \/ world = "ci" /\ W!Next /\ UNCHANGED <<world, vars, clientVars>>

SideBySide == Start /\ [][Step]_<<world, vars, clientVars, ciVars>>

(* The cursor never passes a message that was not recorded, and history is *)
(* never replayed into the chat, whatever pollers overlap, fail or repair. *)
NothingLostNothingTwice == NothingSkipped /\ NothingReplayed

(* Whatever a call meets, POST /workspaces takes effect once at most, the  *)
(* half-open circuit's slot is held by a request that runs, and one sick   *)
(* resource does not close the API to the others.                          *)
CallsAreCounted ==
    C!TypeOK /\ C!NothingIsCreatedBlind /\ C!EveryLoanIsCalledIn /\ C!OneSickResourceOpensNothing

(* A verdict is posted once, but for polls cut off in between or overlapped *)
(* by another process, and what is on record as said was said.              *)
OneVerdictOneNotice == W!TypeOK /\ W!SaidOnce /\ W!RecordedMeansHeard
=============================================================================
