----------------------------- MODULE MCHandlers -----------------------------
(***************************************************************************)
(* What the owner's commands do: Rooms, Creation and Receipts, which share *)
(* no state and are explored side by side.  `world`, chosen once, says     *)
(* which of them runs; the others stay where they start.                   *)
(***************************************************************************)
EXTENDS Rooms, TLC

CONSTANTS
    Typed, Cards, Spoken, Containers, Topics, Here, None, Limit, MaxBegun,   \* Creation
    MaxPrompts, MaxFinals, MaxMishaps                                        \* Receipts

VARIABLES
    world,
    dm, paid, row, seat, bound, roomOf, prompts, form, begun, pending, job,  \* Creation
    prompt, finals, muted, sink, receipt, screen, rings, mishaps             \* Receipts

creationVars == <<dm, paid, row, seat, bound, roomOf, prompts, form, begun, pending, job>>
receiptVars == <<prompt, finals, muted, sink, receipt, screen, rings, mishaps>>

C == INSTANCE Creation WITH Threads <- Topics, route <- roomOf, task <- job
R == INSTANCE Receipts WITH row <- receipt

ASSUME ConstantsFit == C!CreationAssumption /\ R!ReceiptsAssumption

Start ==
    /\ world \in {"rooms", "creation", "receipts"}
    /\ Init /\ C!Init /\ R!Init
    /\ world # "rooms" => kind = "dm"
    /\ world # "creation" => dm

Step ==
    \/ world = "rooms" /\ Next /\ UNCHANGED <<world, creationVars, receiptVars>>
    \/ world = "creation" /\ C!Next /\ UNCHANGED <<world, vars, receiptVars>>
    \/ world = "receipts" /\ R!Next /\ UNCHANGED <<world, vars, creationVars>>

SideBySide == Start /\ [][Step]_<<world, vars, creationVars, receiptVars>>

Symmetry == Permutations(Sessions \ Forks) \cup Permutations(Threads) \cup Permutations(Handlers)

(* Between commands no seat has two pollers, and a line typed in a topic   *)
(* never reaches a session whose answers come out in another one.          *)
EveryWordFindsItsRoom == TypeOK /\ OneVoicePerSeat /\ NoCrossTalk

(* No command leaves an empty room behind, and a topic that loses its      *)
(* session keeps the way back to its workspace.                            *)
NothingIsStranded == NoStrayRooms /\ LosersStayRecoverable

(* One typed line pays for at most one workspace, and a spoken task is     *)
(* asked once, however its update is redelivered, its handler killed or    *)
(* its POST left unanswered.                                               *)
OneIntentOneBill == C!TypeOK /\ C!OneBillPerLine /\ C!SpokenOnce

(* A turn that ends rings once, and a correction of its receipt stands.    *)
OneReceiptPerTurn == [](R!TypeOK /\ R!OneBuzzPerPrompt) /\ R!CorrectionsStand
=============================================================================
