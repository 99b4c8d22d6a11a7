----------------------------- MODULE MCControls -----------------------------
(***************************************************************************)
(* Who is in command, and by which button: Teams, and the StatusCard that  *)
(* carries a turn's Stop, which share no state and are explored side by    *)
(* side.  `world`, chosen once, says which of them runs; the other stays   *)
(* where it starts.                                                        *)
(***************************************************************************)
EXTENDS Teams, TLC

CONSTANTS MaxTurns, MaxPosts, MaxMishaps, MaxThrottles, ForgetExcused        \* StatusCard

VARIABLES world, turn, turns, row, batch, card, adopted, at, screen, mishaps, throttles, excuses

cardVars == <<turn, turns, row, batch, card, adopted, at, screen, mishaps, throttles, excuses>>

Face == INSTANCE StatusCard

ASSUME ConstantsFit == TeamsAssumption /\ Face!StatusCardAssumption

Symmetry == Permutations(Users) \cup Permutations(Groups) \cup Permutations(Handlers)

Begin == world \in {"teams", "card"} /\ Init /\ Face!Init

Step ==
    \/ world = "teams" /\ Next /\ UNCHANGED <<world, cardVars>>
    \/ world = "card" /\ Face!Next /\ UNCHANGED <<world, vars>>

SideBySide == Begin /\ [][Step]_<<world, vars, cardVars>>

(* One code attaches one group, however many setups race for it, and a     *)
(* group stays with the team that has it.                                  *)
GroupsKeepTheirTeam == [](TypeOK /\ OneGroupPerCode) /\ GroupsStayPut

(* One topic has one Stop, but for what a failed call, a 429 or a death    *)
(* leaves behind.                                                          *)
OneStopButton == Face!TypeOK /\ Face!OneStopPerTopic

(* What a message is made to say is what the machine last said, and a card *)
(* is let go only when its message carries no Stop.                        *)
TheCardIsTheTurns == Face!TheFaceIsTheMachines /\ Face!NoStopIsLetGo
=============================================================================
