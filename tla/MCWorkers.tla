------------------------------ MODULE MCWorkers ------------------------------
(***************************************************************************)
(* The two loops that run beside the handlers: the outbox, with a reader   *)
(* of its topic and contents all different, and the supervisor.  They      *)
(* share no state and are explored side by side.  `world`, chosen once,    *)
(* says which of them runs; the other stays where it starts.               *)
(***************************************************************************)
EXTENDS TopicReader, TLC

CONSTANTS
    Sessions, Teams, TeamOf, Quota, Ceiling, MaxOdd,                         \* Supervisor
    MayUnbind, MayRevoke, MayRekey, HandlersCall

VARIABLES
    world,
    bound, stored, refused, stamp, client, pins, idle, poller, cut,          \* Supervisor
    latched, backoff, turn, step, wanted, keys, todo, asking, odd

readerVars == <<vars, lost>>
supervisorVars ==
    <<bound, stored, refused, stamp, client, pins, idle, poller, cut,
      latched, backoff, turn, step, wanted, keys, todo, asking, odd>>

S == INSTANCE Supervisor WITH seen <- keys

ASSUME ConstantsFit == S!QuotaAssumption

DistinctContent == [r \in Rows |-> r]
TheOneTeam == [s \in Sessions |-> CHOOSE t \in Teams : TRUE]
TwoEach == [t \in Teams |-> 2]
Symmetry == Permutations(Sessions)

Begin ==
    /\ world \in {"outbox", "supervisor"}
    /\ ReaderInit /\ S!Init

ReaderNext == Next /\ lost' = lost \union Unrecorded

Step ==
    \/ world = "outbox" /\ ReaderNext /\ UNCHANGED <<world, supervisorVars>>
    \/ world = "supervisor" /\ S!Next /\ UNCHANGED <<world, readerVars>>

SideBySide == Begin /\ [][Step]_<<world, readerVars, supervisorVars>>

(* No team ever has more pollers than its quota, nor all together more     *)
(* than the ceiling, whatever is bound, dropped and restarted.             *)
PollersKeepToTheirCeilings == S!TypeOK /\ S!CeilingsHold

(* A client is not closed under a running poller, except for another key,  *)
(* and a team whose client was last answered 401 is not cancelled and      *)
(* started again in every pass.                                            *)
ClientsOutliveTheirPollers == S!OnlyAnotherKeyClosesAClient /\ S!NoRespawnLoop
=============================================================================
