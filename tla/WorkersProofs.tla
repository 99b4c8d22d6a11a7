---------------------------- MODULE WorkersProofs ----------------------------
(***************************************************************************)
(* What the supervisor keeps, for any sessions, teams, quotas and places:  *)
(* its ceilings hold, a client is not closed under its pollers, and a      *)
(* rejected team is not started again.                                     *)
(***************************************************************************)
EXTENDS MCWorkers, FiniteSetTheorems, TLAPS

(* What the side-by-side exploration says of the supervisor is said of     *)
(* every behaviour of it, and only of those.                               *)
LEMMA SupervisorSteps == SideBySide => S!Spec
<1>1. Begin => S!Init
  BY DEF Begin
<1>2. [Step]_<<world, readerVars, supervisorVars>> => [S!Next]_(S!vars)
  BY DEF Step, supervisorVars, S!vars, S!rowVars, S!poolVars, S!taskVars,
     S!passVars, S!memVars
<1> QED BY <1>1, <1>2, PTL DEF SideBySide, S!Spec

-----------------------------------------------------------------------------
LEMMA SameCounts ==
    \A x : /\ S!Cardinality(x) = Cardinality(x)
           /\ S!IsFiniteSet(x) = IsFiniteSet(x)
BY DEF S!Cardinality, Cardinality, S!IsFiniteSet, IsFiniteSet

(* What QuotaAssumption says of the constants, ready for arithmetic.       *)
LEMMA Given ==
    /\ IsFiniteSet(Sessions) /\ IsFiniteSet(Teams)
    /\ TeamOf \in [Sessions -> Teams]
    /\ Ceiling \in Nat /\ MaxOdd \in Nat
    /\ \A t \in Teams : Quota[t] \in Nat
BY ConstantsFit, SameCounts DEF S!QuotaAssumption

(* Any set of sessions is finite, and so is its part of a team. *)
LEMMA Counted ==
    ASSUME NEW ss \in SUBSET Sessions
    PROVE  /\ IsFiniteSet(ss) /\ Cardinality(ss) \in 0..Cardinality(Sessions)
           /\ Cardinality(Sessions) \in Nat
           /\ \A t : /\ IsFiniteSet(ss \intersect S!Of(t))
                    /\ Cardinality(ss \intersect S!Of(t)) \in 0..Cardinality(Sessions)
<1>1. ASSUME NEW uu \in SUBSET Sessions
      PROVE  IsFiniteSet(uu) /\ Cardinality(uu) \in 0..Cardinality(Sessions)
  BY Given, FS_Subset, FS_CardinalityType
<1>2. \A t : ss \intersect S!Of(t) \in SUBSET Sessions
  OBVIOUS
<1> QED BY <1>1, <1>2, Given, FS_CardinalityType

(* A set of sessions that the quotas and the ceiling admit; fewer always   *)
(* do.                                                                     *)
Fits(ss) ==
    /\ Cardinality(ss) <= Ceiling
    /\ \A t \in Teams : Cardinality(ss \intersect S!Of(t)) <= Quota[t]

LEMMA FewerFit ==
    ASSUME NEW ss \in SUBSET Sessions, NEW tt \in SUBSET ss, Fits(ss)
    PROVE  Fits(tt)
<1>1. Cardinality(tt) <= Cardinality(ss)
  BY Counted, FS_Subset
<1>2. ASSUME NEW t \in Teams
      PROVE  Cardinality(tt \intersect S!Of(t)) <= Quota[t]
  <2>1. tt \intersect S!Of(t) \in SUBSET (ss \intersect S!Of(t))
    OBVIOUS
  <2>2. Cardinality(tt \intersect S!Of(t)) <= Cardinality(ss \intersect S!Of(t))
    BY <2>1, Counted, FS_Subset
  <2> QED BY <2>2, Counted, Given DEF Fits
<1> QED BY <1>1, <1>2, Counted, Given DEF Fits

LEMMA TheLesser ==
    ASSUME NEW a \in Nat, NEW b \in Nat
    PROVE  S!Min({a, b}) \in {a, b} /\ S!Min({a, b}) <= a
<1>1. \E x \in {a, b} : \A y \in {a, b} : x <= y
  OBVIOUS
<1>2. /\ S!Min({a, b}) \in {a, b}
      /\ \A y \in {a, b} : S!Min({a, b}) <= y
  BY <1>1, Zenon DEF S!Min
<1> QED BY <1>2

(* What a pass selects fits. *)
LEMMA SelectionFits ==
    ASSUME NEW rows \in SUBSET Sessions, NEW chosen \in SUBSET rows,
           S!Selects(rows, chosen)
    PROVE  Fits(chosen)
<1>1. ASSUME NEW t \in Teams
      PROVE  Cardinality(chosen \intersect S!Of(t)) <= Quota[t]
  <2> DEFINE size == Cardinality(rows \intersect S!Of(t))
             mine == Cardinality(chosen \intersect S!Of(t))
  <2>1. size \in Nat /\ mine \in Nat /\ Quota[t] \in Nat
    BY Given, Counted
  <2>2. mine <= S!Min({Quota[t], size})
    BY SameCounts DEF S!Selects, S!Allowance
  <2> HIDE DEF size
  <2>3. S!Min({Quota[t], size}) \in Nat /\ S!Min({Quota[t], size}) <= Quota[t]
    BY <2>1, TheLesser
  <2> QED BY <2>1, <2>2, <2>3
<1> QED BY <1>1, SameCounts DEF Fits, S!Selects

-----------------------------------------------------------------------------
(* The client of a team counts the pollers that pin it. *)
PinsCount ==
    \A t \in Teams : pins[t] = Cardinality(S!Tracked \intersect S!Of(t))

(* Until a pass has looked at what it found, a poller is wanted or still   *)
(* to be looked at; when it spawns, it has only what it wants.             *)
PassInOrder ==
    /\ step \in {"observe", "ask", "latch"} => S!Tracked \subseteq wanted \union todo
    /\ step = "spawn" => S!Tracked \union todo \subseteq wanted

Kept == S!TypeOK /\ PinsCount /\ Fits(S!Tracked) /\ Fits(wanted) /\ PassInOrder

LEMMA NoneFits == Fits({}) /\ Cardinality({}) = 0
<1>1. Cardinality({}) = 0
  BY FS_EmptySet
<1>2. \A t : {} \intersect S!Of(t) = {}
  OBVIOUS
<1> QED BY <1>1, <1>2, Given DEF Fits

LEMMA KeptInit == S!Init => Kept
<1> SUFFICES ASSUME S!Init PROVE Kept
  OBVIOUS
<1>1. S!TypeOK
  BY Given, SameCounts, FS_CardinalityType
  DEF S!Init, S!TypeOK, S!Keys, S!NoKey, S!NoClient, S!Ended
<1>2. S!Tracked = {} /\ wanted = {}
  BY DEF S!Init, S!Tracked
<1>3. PinsCount
  <2>1. \A t \in Teams : S!Tracked \intersect S!Of(t) = {}
    BY <1>2
  <2> QED BY <2>1, NoneFits DEF S!Init, PinsCount
<1> QED BY <1>1, <1>2, <1>3, NoneFits DEF Kept, PassInOrder, S!Init

(* Pollers dropped take their pins with them. *)
LEMMA Untracked ==
    ASSUME Kept, NEW gone \in SUBSET Sessions, S!Untrack(gone)
    PROVE  /\ S!Tracked' = S!Tracked \ gone
           /\ poller' \in [Sessions -> S!Ended \union {"none", "runs", "returned"}]
           /\ cut' \subseteq Sessions
           /\ pins' \in [Teams -> 0..S!Cardinality(Sessions)]
           /\ PinsCount'
           /\ Fits(S!Tracked)'
<1>1. S!Tracked' = S!Tracked \ gone
  BY DEF S!Untrack, S!Tracked, Kept, S!TypeOK
<1>2. /\ poller' \in [Sessions -> S!Ended \union {"none", "runs", "returned"}]
      /\ cut' \subseteq Sessions
  BY DEF S!Untrack, Kept, S!TypeOK
<1>3. PinsCount'
  <2> SUFFICES ASSUME NEW t \in Teams
               PROVE  pins'[t] = Cardinality(S!Tracked' \intersect S!Of(t))
    BY DEF PinsCount, S!Of
  <2> DEFINE mine == S!Tracked \intersect S!Of(t)
  <2>1. IsFiniteSet(mine)
    BY Counted DEF S!Tracked
  <2>2. Cardinality(mine \ gone) = Cardinality(mine) - Cardinality(mine \intersect gone)
    BY <2>1, FS_Difference
  <2>3. /\ mine \ gone = S!Tracked' \intersect S!Of(t)
        /\ mine \intersect gone = gone \intersect S!Tracked \intersect S!Of(t)
    BY <1>1
  <2>4. pins'[t] = pins[t] - Cardinality(gone \intersect S!Tracked \intersect S!Of(t))
    BY SameCounts DEF S!Untrack, S!PinsWithout
  <2> QED BY <2>2, <2>3, <2>4 DEF Kept, PinsCount
<1>4. pins' \in [Teams -> 0..S!Cardinality(Sessions)]
  <2>1. \A t \in Teams : pins'[t] = Cardinality(S!Tracked' \intersect S!Of(t))
    BY <1>3 DEF PinsCount, S!Of
  <2>2. S!Tracked' \in SUBSET Sessions
    BY DEF S!Tracked
  <2>3. \A t \in Teams : pins'[t] \in 0..Cardinality(Sessions)
    BY <2>1, <2>2, Counted
  <2> QED BY <2>3, SameCounts DEF S!Untrack, S!PinsWithout
<1>5. Fits(S!Tracked)'
  <2>1. Fits(S!Tracked')
    BY <1>1, FewerFit DEF Kept, S!Tracked
  <2> QED BY <2>1 DEF Fits, S!Of
<1> QED BY <1>1, <1>2, <1>3, <1>4, <1>5

(* A step that drops no poller and starts none keeps all but the types and *)
(* the order of the pass.                                                  *)
LEMMA SamePollers ==
    ASSUME Kept, S!Tracked' = S!Tracked, pins' = pins, Fits(wanted'),
           S!TypeOK', PassInOrder'
    PROVE  Kept'
BY DEF Kept, PinsCount, Fits, S!Of

LEMMA Answered ==
    ASSUME S!TypeOK, NEW t \in Teams, NEW failed \in BOOLEAN,
           NEW c \in [key : S!Keys \union {S!NoKey}, failed : BOOLEAN],
           S!Answer(t, c, failed)
    PROVE  client' \in [Teams -> [key : S!Keys \union {S!NoKey}, failed : BOOLEAN]]
BY DEF S!Answer, S!TypeOK

LEMMA ClientTyped ==
    ASSUME S!TypeOK, NEW t \in Teams
    PROVE  client[t] \in [key : S!Keys \union {S!NoKey}, failed : BOOLEAN]
BY DEF S!TypeOK

LEMMA RejectsIsATruth == \A t, key : S!Rejects(t, key) \in BOOLEAN
BY DEF S!Rejects

LEMMA WorldKeeps == ASSUME Kept, S!World PROVE Kept'
<1> USE DEF S!rowVars, S!poolVars, S!taskVars, S!passVars, S!memVars,
            S!Keys, S!NoKey, S!NoClient, S!Ended, S!Odd, S!Plain
<1>1. ASSUME NEW s \in Sessions, S!Unbind(s) PROVE Kept'
  BY <1>1, SamePollers DEF S!Unbind, Kept, S!TypeOK, PassInOrder, S!Tracked
<1>2. ASSUME NEW s \in Sessions, S!BackoffEnds(s) PROVE Kept'
  BY <1>2, SamePollers DEF S!BackoffEnds, Kept, S!TypeOK, PassInOrder, S!Tracked
<1>3. ASSUME NEW s \in Sessions, S!Call(s) PROVE Kept'
  <2>1. S!Tracked' = S!Tracked
    BY <1>3 DEF S!Call, S!End, S!Tracked, Kept, S!TypeOK
  <2>2. S!TypeOK'
    <3>1. /\ \/ UNCHANGED poller
             \/ \E how \in S!Ended \union {"returned"} : S!End(s, how)
          /\ \/ UNCHANGED client
             \/ \E failed \in BOOLEAN : S!Answer(TeamOf[s], client[TeamOf[s]], failed)
          /\ S!Plain \/ S!Odd
      BY <1>3, RejectsIsATruth, Zenon DEF S!Call
    <3>2. /\ UNCHANGED <<S!rowVars, stamp, pins, idle, cut, S!passVars, S!memVars>>
          /\ TeamOf[s] \in Teams
      BY <1>3, Given DEF S!Call
    <3>3. poller' \in [Sessions -> S!Ended \union {"none", "runs", "returned"}]
      BY <3>1 DEF S!End, Kept, S!TypeOK
    <3>4. client' \in [Teams -> [key : S!Keys \union {S!NoKey}, failed : BOOLEAN]]
      <4>1. CASE UNCHANGED client
        BY <4>1 DEF Kept, S!TypeOK
      <4>2. ASSUME NEW failed \in BOOLEAN,
                   S!Answer(TeamOf[s], client[TeamOf[s]], failed)
            PROVE  client' \in [Teams -> [key : S!Keys \union {S!NoKey}, failed : BOOLEAN]]
        BY <4>2, <3>2, ClientTyped, Answered DEF Kept
      <4> QED BY <3>1, <4>1, <4>2
    <3>5. odd' \in 0..MaxOdd
      BY <3>1, Given DEF Kept, S!TypeOK
    <3> QED BY <3>2, <3>3, <3>4, <3>5 DEF Kept, S!TypeOK
  <2>3. PassInOrder' /\ pins' = pins /\ wanted' = wanted
    BY <1>3, <2>1 DEF S!Call, PassInOrder, Kept
  <2> QED BY <2>1, <2>2, <2>3, SamePollers DEF Kept
<1>4. ASSUME NEW t \in Teams, S!Revoke(t) PROVE Kept'
  BY <1>4, SamePollers DEF S!Revoke, Kept, S!TypeOK, PassInOrder, S!Tracked
<1>5. ASSUME NEW t \in Teams, S!SetKey(t) PROVE Kept'
  BY <1>5, SamePollers DEF S!SetKey, Kept, S!TypeOK, PassInOrder, S!Tracked
<1>6. ASSUME NEW t \in Teams, S!HandlerGets(t) PROVE Kept'
  <2>1. S!Tracked' = S!Tracked
    BY <1>6 DEF S!HandlerGets, S!Tracked
  <2>2. S!TypeOK'
    BY <1>6 DEF S!HandlerGets, S!Get, S!Cut, S!Tracked, Kept, S!TypeOK
  <2> QED BY <1>6, <2>1, <2>2, SamePollers DEF S!HandlerGets, Kept, PassInOrder
<1>7. ASSUME NEW t \in Teams, S!HandlerCalls(t) PROVE Kept'
  <2>1. /\ \E failed \in BOOLEAN : S!Answer(t, client[t], failed)
        /\ S!Plain \/ S!Odd
    BY <1>7, RejectsIsATruth, Zenon DEF S!HandlerCalls
  <2>2. UNCHANGED <<S!rowVars, stamp, pins, idle, S!taskVars, S!passVars, S!memVars>>
    BY <1>7 DEF S!HandlerCalls
  <2> QED
    BY <2>1, <2>2, SamePollers, Given
    DEF S!Answer, Kept, S!TypeOK, PassInOrder, S!Tracked
<1>8. ASSUME NEW t \in Teams, S!StampSpends(t) PROVE Kept'
  BY <1>8, SamePollers DEF S!StampSpends, Kept, S!TypeOK, PassInOrder, S!Tracked
<1>9. ASSUME NEW t \in Teams, S!Idles(t) PROVE Kept'
  BY <1>9, SamePollers DEF S!Idles, Kept, S!TypeOK, PassInOrder, S!Tracked
<1> QED
  BY <1>1, <1>2, <1>3, <1>4, <1>5, <1>6, <1>7, <1>8, <1>9 DEF S!World

(* A step that drops pollers, and wants no others than fit. *)
LEMMA FewerPollers ==
    ASSUME Kept, NEW gone \in SUBSET Sessions, S!Untrack(gone), Fits(wanted'),
           S!TypeOK', PassInOrder'
    PROVE  Kept'
BY Untracked DEF Kept, Fits, S!Of

LEMMA ServedTyped ==
    ASSUME NEW chosen \in SUBSET Sessions, S!TypeOK
    PROVE  S!Served(chosen) \in [Teams -> 1..S!Cardinality(Teams)]
<1> DEFINE n(t) == S!Cardinality(chosen \intersect S!Of(t))
           before(u, t) == n(u) < n(t) \/ (n(u) = n(t) /\ turn[u] <= turn[t])
<1>1. ASSUME NEW t \in Teams
      PROVE  S!Cardinality({u \in Teams : before(u, t)}) \in 1..S!Cardinality(Teams)
  <2> DEFINE those == {u \in Teams : before(u, t)}
  <2>1. turn[t] \in Int
    BY SameCounts, Given, FS_CardinalityType DEF S!TypeOK
  <2>2. t \in those
    BY <2>1
  <2> HIDE DEF before, n
  <2>3. those \in SUBSET Teams /\ IsFiniteSet(those)
    BY Given, FS_Subset
  <2> HIDE DEF those
  <2>4. Cardinality(those) <= Cardinality(Teams)
    BY <2>3, Given, FS_Subset
  <2>5. Cardinality(those) \in Nat /\ Cardinality(those) # 0
    BY <2>2, <2>3, FS_CardinalityType, FS_EmptySet
  <2>6. Cardinality(Teams) \in Nat
    BY Given, FS_CardinalityType
  <2>7. Cardinality(those) \in 1..Cardinality(Teams)
    BY <2>4, <2>5, <2>6
  <2> QED BY <2>7, SameCounts DEF those
<1> QED BY <1>1 DEF S!Served

LEMMA LookKeeps == ASSUME Kept, S!Look PROVE Kept'
<1> DEFINE rows == {s \in bound : stamp[TeamOf[s]] # "fresh"}
           admitted == {TeamOf[s] : s \in rows}
<1>1. rows \in SUBSET Sessions /\ admitted \in SUBSET Teams
  BY Given DEF Kept, S!TypeOK
<1> PICK chosen \in SUBSET rows :
            /\ S!Selects(rows, chosen)
            /\ wanted' = chosen
            /\ turn' = S!Served(chosen)
  BY DEF S!Look
<1>2. chosen \in SUBSET Sessions
  BY <1>1
<1>3. Fits(wanted')
  BY <1>1, SelectionFits
<1>4. turn' \in [Teams -> 1..S!Cardinality(Teams)]
  BY <1>2, ServedTyped DEF Kept
<1>5. S!Tracked' = S!Tracked /\ S!Tracked \subseteq Sessions
  BY DEF S!Look, S!Tracked
<1>6. S!TypeOK'
  <2>1. /\ stored' = stored /\ bound' = bound /\ refused' = refused
        /\ pins' = pins /\ poller' = poller /\ asking' = asking
        /\ backoff' = backoff /\ odd' = odd
        /\ todo' = S!Tracked /\ step' = "observe"
    BY DEF S!Look, S!rowVars
  <2>2. /\ idle' \subseteq idle /\ latched' \subseteq latched
        /\ cut' \subseteq cut \union S!Tracked
    BY DEF S!Look, S!Cut
  <2>3. stamp' \in [Teams -> {"none", "fresh", "spent"}]
    BY DEF S!Look, S!Cleared, Kept, S!TypeOK
  <2>4. keys' \in [Teams -> S!Keys \union {S!NoKey}]
    BY DEF S!Look, Kept, S!TypeOK
  <2>5. client' \in [Teams -> [key : S!Keys \union {S!NoKey}, failed : BOOLEAN]]
    BY ClientTyped DEF S!Look, S!Closing, S!NoClient, Kept, S!TypeOK
  <2> HIDE DEF rows, admitted
  <2> QED BY <1>2, <1>4, <1>5, <2>1, <2>2, <2>3, <2>4, <2>5 DEF Kept, S!TypeOK
<1>7. PassInOrder'
  BY <1>5 DEF S!Look, PassInOrder
<1> QED BY <1>3, <1>5, <1>6, <1>7, SamePollers DEF S!Look

LEMMA ObservingKeeps ==
    ASSUME Kept, NEW s \in Sessions, S!Retire(s) \/ S!Keep(s) \/ S!Observe(s)
    PROVE  Kept'
<1> USE DEF S!rowVars, S!poolVars, S!taskVars, S!memVars
<1>1. CASE S!Retire(s)
  <2>1. S!Tracked' = S!Tracked \ {s}
    BY <1>1, Untracked DEF S!Retire
  <2>2. S!TypeOK'
    BY <1>1, Untracked DEF S!Retire, Kept, S!TypeOK
  <2>3. PassInOrder'
    BY <1>1, <2>1 DEF S!Retire, Kept, PassInOrder
  <2> QED BY <1>1, <2>2, <2>3, FewerPollers DEF S!Retire, Kept
<1>2. CASE S!Keep(s)
  <2>1. S!Tracked' = S!Tracked
    BY <1>2 DEF S!Keep, S!Tracked
  <2>2. S!TypeOK'
    BY <1>2 DEF S!Keep, Kept, S!TypeOK
  <2>3. PassInOrder'
    BY <1>2, <2>1 DEF S!Keep, Kept, PassInOrder
  <2> QED BY <1>2, <2>1, <2>2, <2>3, SamePollers DEF S!Keep, Kept
<1>3. CASE S!Observe(s)
  <2>1. S!Tracked' = S!Tracked \ {s}
    BY <1>3, Untracked DEF S!Observe
  <2>2. /\ backoff' \subseteq backoff \union {s}
        /\ asking' \subseteq {s} /\ step' \in {"ask", "observe"}
    BY <1>3 DEF S!Observe, S!Ended
  <2>3. S!TypeOK'
    BY <1>3, <2>2, Untracked DEF S!Observe, Kept, S!TypeOK
  <2>4. PassInOrder'
    BY <1>3, <2>1, <2>2 DEF S!Observe, Kept, PassInOrder
  <2> QED BY <1>3, <2>3, <2>4, FewerPollers DEF S!Observe, Kept
<1> QED BY <1>1, <1>2, <1>3

LEMMA AskKeeps == ASSUME Kept, S!Ask PROVE Kept'
<1> USE DEF S!rowVars, S!taskVars
<1> PICK s \in asking :
        /\ S!Verdict(s)
        /\ idle' = IF client[TeamOf[s]].key # S!NoKey THEN idle ELSE idle \ {TeamOf[s]}
  BY DEF S!Ask
<1> DEFINE t == TeamOf[s]
<1>1. s \in Sessions /\ t \in Teams
  BY Given DEF Kept, S!TypeOK
<1>2. S!Asked(t) \in [key : S!Keys \union {S!NoKey}, failed : BOOLEAN]
  BY <1>1 DEF S!Asked, S!KeyOf, Kept, S!TypeOK, S!Keys, S!NoKey
<1>3. /\ \E failed \in BOOLEAN : S!Answer(t, S!Asked(t), failed)
      /\ S!Blip(s) \/ S!Confirmed
      /\ S!Plain \/ S!Odd
  <2>1. S!Asked(t).failed \in BOOLEAN
    BY <1>2
  <2> QED BY <2>1, Zenon DEF S!Verdict
<1>4. client' \in [Teams -> [key : S!Keys \union {S!NoKey}, failed : BOOLEAN]]
  BY <1>1, <1>2, <1>3, Answered DEF Kept
<1>5. odd' \in 0..MaxOdd
  BY <1>3, Given DEF S!Plain, S!Odd, Kept, S!TypeOK
<1>6. /\ step' \in {"observe", "latch"} /\ asking' \subseteq asking
      /\ backoff' \subseteq backoff \union {s} /\ latched' \subseteq latched
      /\ stamp' \in [Teams -> {"none", "fresh", "spent"}]
      /\ keys' \in [Teams -> S!Keys \union {S!NoKey}]
  BY <1>3 DEF S!Blip, S!Confirmed, S!Cleared, Kept, S!TypeOK
<1>7. /\ UNCHANGED <<S!rowVars, pins, S!taskVars, wanted, todo, turn>>
      /\ step = "ask" /\ idle' \subseteq idle
  BY DEF S!Ask
<1>8. S!TypeOK'
  BY <1>1, <1>4, <1>5, <1>6, <1>7 DEF Kept, S!TypeOK
<1>9. S!Tracked' = S!Tracked
  BY <1>7 DEF S!Tracked
<1>10. PassInOrder'
  BY <1>6, <1>7, <1>9 DEF Kept, PassInOrder
<1> QED BY <1>7, <1>8, <1>9, <1>10, SamePollers DEF Kept

LEMMA CancellingKeeps ==
    ASSUME Kept, S!Latch \/ S!CancelRejecting \/ S!CancelAll, S!Plain \/ S!Odd
    PROVE  Kept'
<1> USE DEF S!rowVars, S!memVars
<1>1. CASE S!Latch
  <2> PICK s \in asking :
            /\ latched' = latched \union {TeamOf[s]}
            /\ S!Untrack(S!Of(TeamOf[s]))
            /\ stamp' = S!Marked(TeamOf[s])
    BY <1>1 DEF S!Latch
  <2> DEFINE gone == S!Of(TeamOf[s])
  <2>1. gone \in SUBSET Sessions /\ TeamOf[s] \in Teams
    BY Given DEF S!Of, Kept, S!TypeOK
  <2>2. S!Tracked' = S!Tracked \ gone
    BY <2>1, Untracked
  <2>3. S!TypeOK'
    BY <1>1, <2>1, Untracked DEF S!Latch, S!Marked, Kept, S!TypeOK
  <2>4. PassInOrder'
    BY <1>1, <2>2 DEF S!Latch, Kept, PassInOrder
  <2> QED BY <1>1, <2>1, <2>3, <2>4, FewerPollers DEF S!Latch, Kept
<1>2. CASE S!CancelRejecting
  <2> DEFINE gone == {s \in Sessions : TeamOf[s] \in S!Rejecting}
  <2>1. gone \in SUBSET Sessions /\ S!Untrack(gone)
    BY <1>2 DEF S!CancelRejecting
  <2>2. S!Tracked' = S!Tracked \ gone
    BY <2>1, Untracked
  <2> HIDE DEF gone
  <2>3. S!TypeOK'
    BY <1>2, <2>1, Untracked DEF S!CancelRejecting, Kept, S!TypeOK
  <2>4. PassInOrder'
    BY <1>2, <2>2 DEF S!CancelRejecting, Kept, PassInOrder
  <2> QED BY <1>2, <2>1, <2>3, <2>4, FewerPollers DEF S!CancelRejecting, Kept
<1>3. CASE S!CancelAll
  <2>1. S!TypeOK'
    BY <1>3, Untracked, Given DEF S!CancelAll, S!Plain, S!Odd, Kept, S!TypeOK
  <2>2. PassInOrder'
    BY <1>3 DEF S!CancelAll, PassInOrder
  <2> QED BY <1>3, <2>1, <2>2, NoneFits, FewerPollers DEF S!CancelAll
<1> QED BY <1>1, <1>2, <1>3

(* A started poller was wanted, and what is wanted fits. *)
LEMMA SpawnKeeps == ASSUME Kept, NEW s \in Sessions, S!Spawn(s) PROVE Kept'
<1> USE DEF S!rowVars
<1> DEFINE t == TeamOf[s]
<1>1. /\ t \in Teams /\ s \notin S!Tracked /\ s \in wanted
      /\ s \in S!Of(t) /\ \A u \in Teams \ {t} : s \notin S!Of(u)
  BY Given DEF S!Spawn, S!MayStart, S!Tracked, S!Of, Kept, PassInOrder
<1>2. S!Tracked' = S!Tracked \union {s}
  BY DEF S!Spawn, S!Tracked, Kept, S!TypeOK
<1>3. pins' = [pins EXCEPT ![t] = @ + 1] /\ wanted' = wanted
  BY DEF S!Spawn
<1>4. PinsCount'
  <2> SUFFICES ASSUME NEW u \in Teams
               PROVE  pins'[u] = Cardinality(S!Tracked' \intersect S!Of(u))
    BY DEF PinsCount, S!Of
  <2> DEFINE mine == S!Tracked \intersect S!Of(u)
  <2>1. IsFiniteSet(mine) /\ pins[u] = Cardinality(mine)
    BY Counted DEF S!Tracked, Kept, PinsCount
  <2>2. CASE u = t
    <3>1. S!Tracked' \intersect S!Of(u) = mine \union {s} /\ s \notin mine
      BY <1>1, <1>2, <2>2
    <3>2. Cardinality(mine \union {s}) = Cardinality(mine) + 1
      BY <2>1, <3>1, FS_AddElement
    <3> QED BY <1>3, <2>1, <2>2, <3>1, <3>2 DEF Kept, S!TypeOK
  <2>3. CASE u # t
    <3>1. S!Tracked' \intersect S!Of(u) = mine
      BY <1>1, <1>2, <2>3
    <3> QED BY <1>3, <2>1, <2>3, <3>1 DEF Kept, S!TypeOK
  <2> QED BY <2>2, <2>3
<1>5. pins' \in [Teams -> 0..S!Cardinality(Sessions)]
  <2>1. \A u \in Teams : pins'[u] = Cardinality(S!Tracked' \intersect S!Of(u))
    BY <1>4 DEF PinsCount, S!Of
  <2>2. S!Tracked' \in SUBSET Sessions
    BY DEF S!Tracked
  <2>3. \A u \in Teams : pins'[u] \in 0..Cardinality(Sessions)
    BY <2>1, <2>2, Counted
  <2> QED BY <1>3, <2>3, SameCounts DEF Kept, S!TypeOK
<1>6. S!Tracked' \subseteq wanted
  BY <1>1, <1>2 DEF S!Spawn, Kept, PassInOrder
<1>7. Fits(S!Tracked)'
  <2>1. Fits(S!Tracked')
    BY <1>6, FewerFit DEF Kept, S!TypeOK
  <2> QED BY <2>1 DEF Fits, S!Of
<1>8. S!TypeOK'
  <2>1. poller' \in [Sessions -> S!Ended \union {"none", "runs", "returned"}]
    BY DEF S!Spawn, Kept, S!TypeOK
  <2>2. client' \in [Teams -> [key : S!Keys \union {S!NoKey}, failed : BOOLEAN]]
    <3>1. S!KeyOf(t) \in S!Keys
      BY <1>1 DEF S!KeyOf, Kept, S!TypeOK, S!Keys, S!NoKey
    <3> QED BY <1>1, <3>1, ClientTyped DEF S!Spawn, Kept, S!TypeOK
  <2>3. cut' \subseteq Sessions
    BY DEF S!Spawn, S!Cut, S!Tracked, Kept, S!TypeOK
  <2>4. latched' \subseteq latched /\ idle' \subseteq idle /\ todo' \subseteq todo
    BY DEF S!Spawn
  <2>5. UNCHANGED <<S!rowVars, stamp, step, wanted, keys, asking, backoff, turn, odd>>
    BY DEF S!Spawn
  <2> QED BY <1>5, <2>1, <2>2, <2>3, <2>4, <2>5 DEF Kept, S!TypeOK
<1>9. PassInOrder' /\ Fits(wanted)'
  BY <1>3, <1>6 DEF S!Spawn, Kept, PassInOrder, Fits, S!Of
<1> QED BY <1>4, <1>7, <1>8, <1>9 DEF Kept

LEMMA RestKeeps ==
    ASSUME Kept, S!Sleep \/ \E s \in Sessions : S!Pass(s) PROVE Kept'
<1> USE DEF S!rowVars, S!poolVars, S!taskVars, S!memVars
<1>1. S!Tracked' = S!Tracked /\ pins' = pins
  BY DEF S!Sleep, S!Pass, S!Tracked
<1>2. S!TypeOK'
  <2>1. CASE S!Sleep
    BY <2>1 DEF S!Sleep, Kept, S!TypeOK
  <2>2. ASSUME NEW s \in Sessions, S!Pass(s) PROVE S!TypeOK'
    BY <2>2 DEF S!Pass, Kept, S!TypeOK
  <2> QED BY <2>1, <2>2
<1>3. PassInOrder'
  BY <1>1 DEF S!Sleep, S!Pass, Kept, PassInOrder
<1>4. Fits(wanted')
  BY NoneFits DEF S!Sleep, S!Pass, Kept
<1> QED BY <1>1, <1>2, <1>3, <1>4, SamePollers

LEMMA KeptStep == Kept /\ [S!Next]_(S!vars) => Kept'
<1> SUFFICES ASSUME Kept, [S!Next]_(S!vars) PROVE Kept'
  OBVIOUS
<1>1. CASE S!Reconcile
  <2>1. ASSUME NEW s \in Sessions, S!Stumble(s) PROVE Kept'
    BY <2>1, CancellingKeeps DEF S!Stumble
  <2>2. CASE S!Latch \/ S!CancelRejecting
    BY <2>2, CancellingKeeps DEF S!Latch, S!CancelRejecting, S!Plain
  <2> QED
    BY <1>1, <2>1, <2>2, LookKeeps, AskKeeps, ObservingKeeps, SpawnKeeps, RestKeeps
    DEF S!Reconcile
<1>2. CASE S!Fail
  BY <1>2, CancellingKeeps DEF S!Fail
<1>3. CASE S!World
  BY <1>3, WorldKeeps
<1>4. CASE UNCHANGED S!vars
  BY <1>4, SamePollers
  DEF S!vars, S!rowVars, S!poolVars, S!taskVars, S!passVars, S!memVars,
      Kept, S!TypeOK, S!Tracked, PassInOrder
<1> QED BY <1>1, <1>2, <1>3, <1>4 DEF S!Next

(* No team ever has more pollers than its quota, nor all together more     *)
(* than the ceiling, whatever is bound, dropped and restarted: for any     *)
(* sessions, teams, quotas and ceiling.                                    *)
THEOREM PollersFit == SideBySide => []PollersKeepToTheirCeilings
<1>1. Kept => PollersKeepToTheirCeilings
  BY SameCounts DEF Kept, Fits, PollersKeepToTheirCeilings, S!CeilingsHold
<1> QED BY <1>1, SupervisorSteps, KeptInit, KeptStep, PTL DEF S!Spec

-----------------------------------------------------------------------------
(* A latched team has no pollers, and a second key is in a client or in    *)
(* the rows a pass has read only once it is in the table.                  *)
Keyed ==
    \A t \in Teams :
        /\ t \in latched => S!Tracked \intersect S!Of(t) = {}
        /\ client[t].key = 2 \/ keys[t] = 2 => stored[t] = 2

LEMMA KeyedInit == S!Init => Keyed
BY DEF S!Init, Keyed, S!NoClient, S!NoKey

(* A poller's or a handler's answer, or a verdict, leaves the keys alone   *)
(* but for a client newly got.                                             *)
LEMMA AnswerKeyed ==
    ASSUME Kept, Keyed, NEW t \in Teams, NEW c, NEW failed,
           S!Answer(t, c, failed), c.key = 2 => stored[t] = 2,
           stored' = stored, S!Tracked' \subseteq S!Tracked,
           latched' \subseteq latched,
           \A u \in Teams : keys'[u] \in {keys[u], S!NoKey}
    PROVE  Keyed'
BY DEF S!Answer, Keyed, Kept, S!TypeOK, S!NoKey, S!Of

(* Teams newly latched have just lost their pollers. *)
LEMMA QuietKeyed ==
    ASSUME Kept, Keyed,
           \A t \in Teams : client'[t].key \in {client[t].key, S!NoKey},
           stored' = stored, S!Tracked' \subseteq S!Tracked, keys' = keys,
           \A t \in latched' \ latched : S!Tracked' \intersect S!Of(t) = {}
    PROVE  Keyed'
BY DEF Keyed, S!NoKey, S!Of

LEMMA KeyedStep ==
    ASSUME Kept, Keyed, [S!Next]_(S!vars) PROVE Keyed'
<1> USE DEF S!rowVars, S!poolVars, S!taskVars, S!passVars, S!memVars
<1>1. ASSUME NEW s \in Sessions, S!Unbind(s) \/ S!BackoffEnds(s) \/ S!Pass(s)
                                \/ S!Keep(s)
      PROVE  Keyed'
  BY <1>1, QuietKeyed DEF S!Unbind, S!BackoffEnds, S!Pass, S!Keep, S!Tracked
<1>2. ASSUME NEW s \in Sessions, S!Call(s) PROVE Keyed'
  <2>1. TeamOf[s] \in Teams
    BY Given
  <2>2. S!Tracked' = S!Tracked
    BY <1>2 DEF S!Call, S!End, S!Tracked, Kept, S!TypeOK
  <2>3. \/ UNCHANGED client
        \/ \E failed : S!Answer(TeamOf[s], client[TeamOf[s]], failed)
    BY <1>2, Zenon DEF S!Call
  <2>4. UNCHANGED <<stored, keys, latched>>
    BY <1>2 DEF S!Call
  <2> QED BY <2>1, <2>2, <2>3, <2>4, AnswerKeyed, QuietKeyed DEF Keyed
<1>3. ASSUME NEW t \in Teams, S!Revoke(t) \/ S!StampSpends(t) \/ S!Idles(t)
      PROVE  Keyed'
  BY <1>3, QuietKeyed DEF S!Revoke, S!StampSpends, S!Idles, S!Tracked
<1>4. ASSUME NEW t \in Teams, S!SetKey(t) PROVE Keyed'
  BY <1>4 DEF S!SetKey, Keyed, S!Tracked, Kept, S!TypeOK, S!Of
<1>5. ASSUME NEW t \in Teams, S!HandlerGets(t) PROVE Keyed'
  BY <1>5 DEF S!HandlerGets, S!Get, Keyed, S!Tracked, Kept, S!TypeOK, S!Of
<1>6. ASSUME NEW t \in Teams, S!HandlerCalls(t) PROVE Keyed'
  <2>1. \E failed : S!Answer(t, client[t], failed)
    BY <1>6, Zenon DEF S!HandlerCalls
  <2>2. UNCHANGED <<stored, keys, latched, poller>>
    BY <1>6 DEF S!HandlerCalls
  <2> QED BY <2>1, <2>2, AnswerKeyed DEF S!Tracked, Keyed
<1>7. CASE S!Look
  BY <1>7 DEF S!Look, S!Closing, S!NoClient, S!NoKey, Keyed, S!Tracked, S!Of
<1>8. ASSUME NEW s \in Sessions, S!Retire(s) \/ S!Observe(s) PROVE Keyed'
  <2>1. S!Tracked' = S!Tracked \ {s}
    BY <1>8, Untracked DEF S!Retire, S!Observe
  <2>2. UNCHANGED <<stored, keys, latched, client>>
    BY <1>8 DEF S!Retire, S!Observe
  <2> QED BY <2>1, <2>2, QuietKeyed
<1>9. CASE S!Ask
  <2> PICK s \in asking : S!Verdict(s)
    BY <1>9 DEF S!Ask
  <2> DEFINE t == TeamOf[s]
  <2>1. t \in Teams
    BY Given DEF Kept, S!TypeOK
  <2>2. S!Asked(t).key = 2 => stored[t] = 2
    BY <2>1 DEF S!Asked, S!KeyOf, Keyed
  <2>3. /\ \E failed : S!Answer(t, S!Asked(t), failed)
        /\ S!Blip(s) \/ S!Confirmed
    BY Zenon DEF S!Verdict
  <2>4. UNCHANGED <<stored, poller>>
    BY <1>9 DEF S!Ask
  <2>5. latched' \subseteq latched /\ \A u \in Teams : keys'[u] \in {keys[u], S!NoKey}
    BY <2>3 DEF S!Blip, S!Confirmed, Kept, S!TypeOK
  <2> QED BY <2>1, <2>2, <2>3, <2>4, <2>5, AnswerKeyed DEF S!Tracked
<1>10. CASE S!Latch
  <2> PICK s \in asking : /\ latched' = latched \union {TeamOf[s]}
                          /\ S!Untrack(S!Of(TeamOf[s]))
    BY <1>10 DEF S!Latch
  <2>1. S!Tracked' = S!Tracked \ S!Of(TeamOf[s])
    BY Untracked DEF S!Of
  <2>2. UNCHANGED <<stored, keys, client>>
    BY <1>10 DEF S!Latch
  <2> QED BY <2>1, <2>2, QuietKeyed
<1>11. CASE S!CancelRejecting
  <2> DEFINE gone == {s \in Sessions : TeamOf[s] \in S!Rejecting}
  <2>1. gone \in SUBSET Sessions /\ S!Untrack(gone)
    BY <1>11 DEF S!CancelRejecting
  <2>2. S!Tracked' \subseteq S!Tracked
    BY <2>1, Untracked
  <2>3. UNCHANGED <<stored, keys, client>> /\ latched' \subseteq latched
    BY <1>11 DEF S!CancelRejecting
  <2> QED BY <2>2, <2>3, QuietKeyed
<1>12. CASE S!Sleep
  BY <1>12, QuietKeyed DEF S!Sleep, S!Tracked
<1>13. CASE S!CancelAll
  <2>1. S!Tracked' \subseteq S!Tracked
    BY <1>13, Untracked DEF S!CancelAll
  <2> QED BY <1>13, <2>1, QuietKeyed DEF S!CancelAll
<1>14. ASSUME NEW s \in Sessions, S!Spawn(s) PROVE Keyed'
  <2> DEFINE t == TeamOf[s]
  <2>1. t \in Teams /\ \A u \in Teams \ {t} : s \notin S!Of(u)
    BY Given DEF S!Of
  <2>2. S!Tracked' = S!Tracked \union {s} /\ t \notin S!Rejecting
    BY <1>14 DEF S!Spawn, S!MayStart, S!Tracked, Kept, S!TypeOK
  <2>3. latched' = latched \intersect S!Rejecting /\ UNCHANGED <<stored, keys>>
    BY <1>14 DEF S!Spawn
  <2>4. \A u \in Teams : client'[u].key = 2 => stored[u] = 2
    BY <1>14, <2>1, ClientTyped DEF S!Spawn, S!KeyOf, Keyed, Kept, S!TypeOK
  <2>5. \A u \in latched' : S!Tracked' \intersect S!Of(u) = {}
    BY <2>1, <2>2, <2>3 DEF Keyed, Kept, S!TypeOK
  <2> QED BY <2>3, <2>4, <2>5 DEF Keyed, S!Of
<1>15. CASE UNCHANGED S!vars
  BY <1>15, QuietKeyed DEF S!vars, S!Tracked
<1>16. ASSUME NEW s \in Sessions, S!Stumble(s) PROVE Keyed'
  BY <1>16, <1>13 DEF S!Stumble
<1> QED
  BY <1>1, <1>2, <1>3, <1>4, <1>5, <1>6, <1>7, <1>8, <1>9, <1>10, <1>11,
     <1>12, <1>13, <1>14, <1>15, <1>16
  DEF S!Next, S!Reconcile, S!World, S!Fail

(* Who closes a client: a handler or a start that comes with another key,  *)
(* or a look at teams no poller of which runs.                             *)
LEMMA ClosingStep ==
    ASSUME Kept, Keyed, [S!Next]_(S!vars)
    PROVE  \A s \in cut' \ cut : stored[TeamOf[s]] = 2
<1> USE DEF S!rowVars, S!poolVars, S!taskVars, S!passVars, S!memVars
<1> SUFFICES ASSUME NEW s \in cut' \ cut PROVE stored[TeamOf[s]] = 2
  OBVIOUS
<1>1. ASSUME NEW t \in Teams, NEW key, key \in S!Keys, key = 2 => stored[t] = 2,
             client[t].key \notin {key, S!NoKey}
      PROVE  stored[t] = 2
  BY <1>1, ClientTyped DEF Keyed, Kept, S!Keys, S!NoKey
<1>2. ASSUME NEW t \in Teams, S!HandlerGets(t) PROVE stored[TeamOf[s]] = 2
  <2>1. client[t].key \notin {stored[t], S!NoKey} /\ s \in S!Cut({t})
    BY <1>2 DEF S!HandlerGets, S!Get
  <2>2. stored[t] \in S!Keys
    BY DEF Kept, S!TypeOK
  <2> QED BY <1>1, <2>1, <2>2 DEF S!Cut
<1>3. CASE S!Look
  <2> DEFINE rows == {r \in bound : stamp[TeamOf[r]] # "fresh"}
             admitted == {TeamOf[r] : r \in rows}
             closed == {t \in idle : pins[t] = 0} \union (latched \intersect admitted)
  <2>1. cut' = cut \union S!Cut(closed)
    BY <1>3 DEF S!Look
  <2>2. TeamOf[s] \in closed /\ s \in S!Tracked
    BY <2>1 DEF S!Cut
  <2>3. s \in S!Tracked \intersect S!Of(TeamOf[s]) /\ TeamOf[s] \in Teams
    BY <2>2, Given DEF S!Tracked, S!Of
  <2>4. CASE TeamOf[s] \in latched
    BY <2>3, <2>4 DEF Keyed
  <2>5. CASE pins[TeamOf[s]] = 0
    BY <2>3, <2>5, Counted, FS_EmptySet DEF Kept, PinsCount, S!Tracked
  <2> QED BY <2>2, <2>4, <2>5
<1>4. ASSUME NEW r \in Sessions, S!Spawn(r) PROVE stored[TeamOf[s]] = 2
  <2> DEFINE t == TeamOf[r]
  <2>1. t \in Teams
    BY Given
  <2>2. client[t].key \notin {S!KeyOf(t), S!NoKey} /\ s \in S!Cut({t})
    BY <1>4 DEF S!Spawn
  <2>3. S!KeyOf(t) \in S!Keys /\ (S!KeyOf(t) = 2 => stored[t] = 2)
    BY <2>1 DEF S!KeyOf, Keyed, Kept, S!TypeOK, S!Keys, S!NoKey
  <2> QED BY <1>1, <2>1, <2>2, <2>3 DEF S!Cut
<1>5. CASE S!Latch \/ S!CancelRejecting \/ S!CancelAll \/ S!Ask \/ S!Sleep
  BY <1>5 DEF S!Latch, S!CancelRejecting, S!CancelAll, S!Ask, S!Sleep, S!Untrack
<1>6. ASSUME NEW r \in Sessions,
             \/ S!Retire(r) \/ S!Keep(r) \/ S!Observe(r) \/ S!Stumble(r) \/ S!Pass(r)
             \/ S!Unbind(r) \/ S!BackoffEnds(r) \/ S!Call(r)
      PROVE  stored[TeamOf[s]] = 2
  BY <1>6 DEF S!Retire, S!Keep, S!Observe, S!Stumble, S!Pass, S!Unbind,
     S!BackoffEnds, S!Call, S!CancelAll, S!Untrack
<1>7. ASSUME NEW t \in Teams,
             \/ S!Revoke(t) \/ S!SetKey(t) \/ S!HandlerCalls(t)
             \/ S!StampSpends(t) \/ S!Idles(t)
      PROVE  stored[TeamOf[s]] = 2
  BY <1>7 DEF S!Revoke, S!SetKey, S!HandlerCalls, S!StampSpends, S!Idles
<1>8. CASE UNCHANGED S!vars
  BY <1>8 DEF S!vars
<1> QED
  BY <1>2, <1>3, <1>4, <1>5, <1>6, <1>7, <1>8
  DEF S!Next, S!Reconcile, S!World, S!Fail

(* Only a spawn starts a poller, and it looks at the team's client first.  *)
LEMMA StartingStep ==
    ASSUME Kept, [S!Next]_(S!vars), NEW s \in Sessions,
           poller[s] = "none", poller'[s] = "runs"
    PROVE  ~client[TeamOf[s]].failed
<1> USE DEF S!rowVars, S!poolVars, S!taskVars, S!passVars, S!memVars
<1>1. ASSUME NEW r \in Sessions, S!Spawn(r) PROVE ~client[TeamOf[s]].failed
  <2>1. r = s /\ TeamOf[s] \notin S!Rejecting /\ TeamOf[s] \in Teams
    BY <1>1, Given DEF S!Spawn, S!MayStart, Kept, S!TypeOK
  <2> QED BY <2>1 DEF S!Rejecting
<1>2. ASSUME NEW gone, S!Untrack(gone) PROVE FALSE
  BY <1>2 DEF S!Untrack
<1>3. CASE S!Latch \/ S!CancelRejecting \/ S!CancelAll \/ S!Ask \/ S!Sleep \/ S!Look
  BY <1>2, <1>3 DEF S!Latch, S!CancelRejecting, S!CancelAll, S!Ask, S!Sleep, S!Look
<1>4. ASSUME NEW r \in Sessions,
             \/ S!Retire(r) \/ S!Keep(r) \/ S!Observe(r) \/ S!Stumble(r) \/ S!Pass(r)
             \/ S!Unbind(r) \/ S!BackoffEnds(r)
      PROVE  FALSE
  BY <1>2, <1>4 DEF S!Retire, S!Keep, S!Observe, S!Stumble, S!Pass, S!Unbind,
     S!BackoffEnds, S!CancelAll
<1>5. ASSUME NEW r \in Sessions, S!Call(r) PROVE FALSE
  BY <1>5 DEF S!Call, S!End, Kept, S!TypeOK
<1>6. ASSUME NEW t \in Teams,
             \/ S!Revoke(t) \/ S!SetKey(t) \/ S!HandlerCalls(t)
             \/ S!HandlerGets(t) \/ S!StampSpends(t) \/ S!Idles(t)
      PROVE  FALSE
  BY <1>6 DEF S!Revoke, S!SetKey, S!HandlerCalls, S!HandlerGets, S!StampSpends, S!Idles
<1>7. CASE UNCHANGED S!vars
  BY <1>7 DEF S!vars
<1> QED
  BY <1>1, <1>3, <1>4, <1>5, <1>6, <1>7
  DEF S!Next, S!Reconcile, S!World, S!Fail

(* A client is not closed under a running poller, except for another key,  *)
(* and a team whose client was last answered 401 is not started again      *)
(* before it has been answered otherwise or was built anew.                *)
THEOREM ClientsOutlive == SideBySide => ClientsOutliveTheirPollers
<1> DEFINE IInv == Kept /\ Keyed
<1>1. S!Init => IInv
  BY KeptInit, KeyedInit
<1>2. IInv /\ [S!Next]_(S!vars) => IInv'
  BY KeptStep, KeyedStep
<1>3. IInv /\ [S!Next]_(S!vars)
        => [\A s \in cut' \ cut : stored[TeamOf[s]] = 2]_(S!vars)
  BY ClosingStep
<1>4. IInv /\ [S!Next]_(S!vars)
        => [\A s \in Sessions : poller[s] = "none" /\ poller'[s] = "runs"
                => ~client[TeamOf[s]].failed]_(S!vars)
  BY StartingStep
<1> QED
  BY <1>1, <1>2, <1>3, <1>4, SupervisorSteps, PTL
  DEF S!Spec, ClientsOutliveTheirPollers, S!OnlyAnotherKeyClosesAClient, S!NoRespawnLoop
=============================================================================
