------------------------------ MODULE MCUpkeep ------------------------------
(***************************************************************************)
(* What must go on: Lease, Supervisor with a large team, a small one and   *)
(* one place between them, and ConductorClient, which share no state and   *)
(* are explored side by side, each under its own fairness.  `world`,       *)
(* chosen once, says which of them runs; the others stay where they start. *)
(***************************************************************************)
EXTENDS Lease

CONSTANTS
    lone, large, small,
    Sessions, Teams, TeamOf, Quota, Ceiling, MaxOdd,                         \* Supervisor
    MayUnbind, MayRevoke, MayRekey, HandlersCall,
    Calls, NoCall, Resources, Api, Threshold, MaxAttempts, Permits,          \* ConductorClient
    MaxHangs, MayGarble

VARIABLES
    world,
    bound, stored, refused, stamp, client, pins, idle, poller, cut,          \* Supervisor
    latched, backoff, rota, step, wanted, seen, todo, asking, odd,
    state, runs, failures, streak, isolated, probe, call, asks, tries,       \* ConductorClient
    landed, blind, sick

supervisorVars ==
    <<bound, stored, refused, stamp, client, pins, idle, poller, cut,
      latched, backoff, rota, step, wanted, seen, todo, asking, odd>>
clientVars ==
    <<state, runs, failures, streak, isolated, probe, call, asks, tries, landed, blind, sick>>
allVars == <<world, vars, supervisorVars, clientVars>>

S == INSTANCE Supervisor WITH turn <- rota
C == INSTANCE ConductorClient WITH at <- call

ASSUME ConstantsFit == S!QuotaAssumption /\ C!NameAssumption /\ C!LimitAssumption

Alone == [s \in Sessions |-> IF s = lone THEN small ELSE large]
OneEach == [t \in Teams |-> 1]

Begin ==
    /\ world \in {"lease", "supervisor", "client"}
    /\ Init /\ S!Init /\ C!Init
    /\ world # "supervisor" => rota[large] = 1
    /\ world # "client" => Api \notin sick

Step ==
    \/ world = "lease" /\ Next /\ UNCHANGED <<world, supervisorVars, clientVars>>
    \/ world = "supervisor" /\ S!Next /\ UNCHANGED <<world, vars, clientVars>>
    \/ world = "client" /\ C!Next /\ UNCHANGED <<world, vars, supervisorVars>>

(* Each specification's own fairness, where it is the one that runs. *)
Fair ==
    /\ WF_vars(world = "lease" /\ Tick)
    /\ \A i \in Instances : WF_vars(world = "lease" /\ Run(i))
    /\ WF_supervisorVars(world = "supervisor" /\ S!Reconcile)
    /\ \A s \in Sessions :
         /\ WF_supervisorVars(world = "supervisor" /\ S!Call(s))
         /\ WF_supervisorVars(world = "supervisor" /\ S!BackoffEnds(s))
    /\ \A t \in Teams :
         /\ WF_supervisorVars(world = "supervisor" /\ S!StampSpends(t))
         /\ WF_supervisorVars(world = "supervisor" /\ S!Idles(t))
    /\ \A c \in Calls :
         /\ WF_clientVars(world = "client" /\ C!Admit(c))
         /\ WF_clientVars(world = "client" /\ C!Answer(c))
    /\ WF_clientVars(world = "client" /\ C!WindowEnds)
    /\ \A r \in Resources : WF_clientVars(world = "client" /\ C!IsolationEnds(r))

SideBySide == Begin /\ [][Step]_allVars /\ Fair

(* A dead holder does not keep the others from polling, every team whose   *)
(* key is accepted is polled again and again, and the client of a team     *)
(* that nobody polls is swept and its key forgotten.                       *)
EveryTeamIsServed ==
    /\ world = "lease" => PollingResumes
    /\ world = "supervisor" => S!EveryTeamIsPolled /\ S!AKeyIsForgotten

(* Once the API is well again the circuit closes.                          *)
TheApiComesBack == world = "client" => C!CircuitRecovers
=============================================================================
