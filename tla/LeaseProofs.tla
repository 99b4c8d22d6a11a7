---------------------------- MODULE LeaseProofs ----------------------------
(***************************************************************************)
(* While passes are on time, only the process whose live lease it is has   *)
(* pollers: for any number of processes, boots, crashes, stops and blips.  *)
(***************************************************************************)
EXTENDS Lease, TLAPS

(* A process with the lease, or with pollers, is the one the row names, and *)
(* the row has at least as long to live as the process has left of its TTL. *)
Owns(i) == holder = i /\ age[i] < TTL /\ left + age[i] >= TTL

Sound(i) ==
    /\ at[i] = "reconcile" => has[i]
    /\ at[i] = "cancel" => ~has[i]
    /\ has[i] \/ polls[i] => Owns(i)

IInv == TypeOK /\ \A i \in Instances : Sound(i)

LEMMA InitSound == Init => IInv
BY NobodyAssumption, PaceAssumption DEF Init, IInv, TypeOK, Sound, Owns

(* Time shortens the row and ages the process alike. *)
LEMMA TickSound == ASSUME IInv, Tick, ~MaySlow PROVE IInv'
<1>1. TypeOK'
    BY PaceAssumption DEF IInv, TypeOK, Tick
<1>2. ASSUME NEW i \in Instances PROVE Sound(i)'
    <2>1. Sound(i) /\ TypeOK
        BY DEF IInv
    <2>2. CASE has[i] \/ polls[i]
        <3>1. holder = i /\ age[i] < TTL /\ left + age[i] >= TTL
            BY <2>1, <2>2 DEF Sound, Owns
        <3>2. age[i] + 1 < TTL
            BY <2>2 DEF Tick, OnTime
        <3>3. left \in Nat /\ age[i] \in Nat /\ TTL \in Nat
            BY <2>1, PaceAssumption DEF TypeOK
        <3>4. left' = left - 1 /\ age'[i] = age[i] + 1
            BY <3>1, <3>2, <3>3 DEF Tick
        <3> QED
            BY <2>1, <3>1, <3>2, <3>3, <3>4 DEF Tick, Sound, Owns
    <2>3. CASE ~(has[i] \/ polls[i])
        BY <2>1, <2>3 DEF Tick, Sound, Owns
    <2> QED
        BY <2>2, <2>3
<1> QED
    BY <1>1, <1>2 DEF IInv

(* The row passes to a process that renews it only when nobody else's      *)
(* lease or pollers stand on it.                                           *)
LEMMA RenewSound ==
    ASSUME IInv, NEW i \in Instances, at[i] = "renew", Free(i), Renewed(i),
           polls' = polls, blips' = blips
    PROVE  IInv'
<1>1. TypeOK'
    BY PaceAssumption DEF IInv, TypeOK, Renewed, Goto
<1>2. ASSUME NEW j \in Instances, j # i PROVE ~has[j] /\ ~polls[j]
    <2>1. SUFFICES ASSUME has[j] \/ polls[j] PROVE FALSE
        OBVIOUS
    <2>2. holder = j /\ age[j] < TTL /\ left + age[j] >= TTL
        BY <2>1 DEF IInv, Sound, Owns
    <2>3. left \in Nat /\ age[j] \in Nat /\ TTL \in Nat
        BY PaceAssumption DEF IInv, TypeOK
    <2> QED
        BY <1>2, <2>2, <2>3, NobodyAssumption DEF Free
<1>3. ASSUME NEW j \in Instances PROVE Sound(j)'
    <2>1. CASE j = i
        BY <2>1, PaceAssumption DEF IInv, TypeOK, Sound, Owns, Renewed, Goto
    <2>2. CASE j # i
        BY <2>2, <1>2 DEF IInv, TypeOK, Sound, Owns, Renewed, Goto
    <2> QED
        BY <2>1, <2>2
<1> QED
    BY <1>1, <1>3 DEF IInv

(* A process that owns the row can renew it. *)
LEMMA OwnIsFree ==
    ASSUME NEW i \in Instances, holder = i PROVE Free(i)
BY DEF Free

LEMMA RunSound ==
    ASSUME IInv, NEW i \in Instances, Run(i) PROVE IInv'
<1>1. CASE Boot(i)
    BY <1>1 DEF Boot, Goto, row, IInv, TypeOK, Sound, Owns
<1>2. CASE Wake(i)
    BY <1>2 DEF Wake, Goto, row, IInv, TypeOK, Sound, Owns
<1>3. CASE Acquire(i)
    <2>1. CASE Free(i)
        BY <1>3, <2>1, RenewSound DEF Acquire
    <2>2. CASE ~Free(i)
        BY <1>3, <2>2 DEF Acquire, Refused, Goto, row, IInv, TypeOK, Sound, Owns
    <2> QED
        BY <2>1, <2>2
<1>4. CASE Heartbeat(i)
    <2>1. CASE holder = i
        BY <1>4, <2>1, RenewSound, OwnIsFree DEF Heartbeat
    <2>2. CASE holder # i
        BY <1>4, <2>2 DEF Heartbeat, IInv, Sound, Owns
    <2> QED
        BY <2>1, <2>2
<1>5. CASE Reconcile(i)
    BY <1>5 DEF Reconcile, Goto, row, IInv, TypeOK, Sound, Owns
<1>6. CASE Cancel(i)
    BY <1>6, PaceAssumption DEF Cancel, Goto, row, IInv, TypeOK, Sound, Owns
<1>7. CASE Release(i)
    BY <1>7 DEF Release, Quit, Goto, IInv, TypeOK, Sound, Owns
<1> QED
    BY <1>1, <1>2, <1>3, <1>4, <1>5, <1>6, <1>7 DEF Run

LEMMA NextSound == ASSUME IInv, [Next]_vars, ~MaySlow PROVE IInv'
<1>1. CASE Tick
    BY <1>1, TickSound
<1>2. ASSUME NEW i \in Instances, Run(i) PROVE IInv'
    BY <1>2, RunSound
<1>3. ASSUME NEW i \in Instances, Blip(i) PROVE IInv'
    BY <1>3, PaceAssumption DEF Blip, Goto, row, IInv, TypeOK, Sound, Owns
<1>4. ASSUME NEW i \in Instances, Stop(i) PROVE IInv'
    BY <1>4 DEF Stop, Goto, row, IInv, TypeOK, Sound, Owns
<1>5. ASSUME NEW i \in Instances, Crash(i) PROVE IInv'
    BY <1>5 DEF Crash, Quit, Goto, IInv, TypeOK, Sound, Owns
<1>6. CASE UNCHANGED vars
    BY <1>6 DEF vars, row, IInv, TypeOK, Sound, Owns
<1> QED
    BY <1>1, <1>2, <1>3, <1>4, <1>5, <1>6 DEF Next

LEMMA IInvHolds == ASSUME ~MaySlow PROVE Spec => []IInv
<1>1. Init => IInv
    BY InitSound
<1>2. IInv /\ [Next]_vars => IInv'
    BY NextSound
<1> QED
    BY <1>1, <1>2, PTL DEF Spec

(* Every variable of the lease keeps its type, slow passes or not. *)
THEOREM LeaseTypes == Spec => []TypeOK
<1>1. Init => TypeOK
    BY NobodyAssumption, PaceAssumption DEF Init, TypeOK
<1>2. ASSUME TypeOK, [Next]_vars PROVE TypeOK'
    <2>1. CASE Tick
        BY <1>2, <2>1, PaceAssumption DEF Tick, TypeOK
    <2>2. ASSUME NEW i \in Instances, Run(i) PROVE TypeOK'
        <3>1. CASE Boot(i) \/ Wake(i)
            BY <1>2, <3>1 DEF Boot, Wake, Goto, row, TypeOK
        <3>2. CASE Reconcile(i)
            BY <1>2, <3>2 DEF Reconcile, Goto, row, TypeOK
        <3>3. CASE Cancel(i)
            BY <1>2, <3>3, PaceAssumption DEF Cancel, Goto, row, TypeOK
        <3>4. CASE Acquire(i) \/ Heartbeat(i)
            <4>1. CASE Renewed(i)
                BY <1>2, <3>4, <4>1, PaceAssumption
                DEF Acquire, Heartbeat, Renewed, Goto, TypeOK
            <4>2. CASE Refused(i)
                BY <1>2, <3>4, <4>2
                DEF Acquire, Heartbeat, Refused, Goto, row, TypeOK
            <4> QED
                BY <3>4, <4>1, <4>2 DEF Acquire, Heartbeat
        <3>5. CASE Release(i)
            BY <1>2, <3>5 DEF Release, Quit, Goto, TypeOK
        <3> QED
            BY <2>2, <3>1, <3>2, <3>3, <3>4, <3>5 DEF Run
    <2>3. ASSUME NEW i \in Instances, Blip(i) PROVE TypeOK'
        BY <1>2, <2>3, PaceAssumption DEF Blip, Goto, row, TypeOK
    <2>4. ASSUME NEW i \in Instances, Stop(i) PROVE TypeOK'
        BY <1>2, <2>4 DEF Stop, Goto, row, TypeOK
    <2>5. ASSUME NEW i \in Instances, Crash(i) PROVE TypeOK'
        BY <1>2, <2>5 DEF Crash, Quit, Goto, TypeOK
    <2>6. CASE UNCHANGED vars
        BY <1>2, <2>6 DEF vars, row, TypeOK
    <2> QED
        BY <1>2, <2>1, <2>2, <2>3, <2>4, <2>5, <2>6 DEF Next
<1>3. TypeOK /\ [Next]_vars => TypeOK'
    BY <1>2
<1> QED
    BY <1>1, <1>3, PTL DEF Spec

(* Only one supervisor polls: as long as passes are on time, a process     *)
(* with pollers is the one the lease names, and the lease is live.         *)
THEOREM OneSupervisorPolls == ASSUME ~MaySlow PROVE Spec => []PollsUnderALiveLease
<1>1. ASSUME IInv PROVE PollsUnderALiveLease
    <2>1. ASSUME NEW i \in Instances, polls[i] PROVE holder = i /\ left > 0
        <3>1. holder = i /\ age[i] < TTL /\ left + age[i] >= TTL
            BY <1>1, <2>1 DEF IInv, Sound, Owns
        <3>2. left \in Nat /\ age[i] \in Nat /\ TTL \in Nat
            BY <1>1, PaceAssumption DEF IInv, TypeOK
        <3> QED
            BY <3>1, <3>2
    <2> QED
        BY <2>1 DEF PollsUnderALiveLease
<1>2. IInv => PollsUnderALiveLease
    BY <1>1
<1> QED
    BY <1>2, IInvHolds, PTL
=============================================================================
