--------------------------- MODULE ArrivalsProofs ---------------------------
(***************************************************************************)
(* What must arrive, for any numbers of notes, workers, topics and chats:  *)
(* the offset search is right for every length of the transcript and every *)
(* growth of it; a voice note is paid for within its budget and is one     *)
(* prompt; a pause Telegram asks for lets one row through at most.         *)
(***************************************************************************)
EXTENDS MCArrivals, FiniteSetTheorems, TLAPS

USE CapAssumption, LongestAssumption DEF Unasked, Offsets

-----------------------------------------------------------------------------
(* The offset search.                                                      *)
(* The smaller of two numbers, as the library chooses it. *)
LEMMA MinOfTwo ==
    ASSUME NEW a \in Int, NEW b \in Int
    PROVE  Min({a, b}) = IF a <= b THEN a ELSE b
BY DEF Min

(* What the prober was told lies between the length the transcript had     *)
(* when the search began and the one it has now.                           *)
Told == \A k \in Offsets : asked[k] # Unasked => asked[k] \in start..length

(* The offset below low is known not to match. *)
LowMissed ==
    low > 0 => /\ low - 1 \in Offsets
               /\ asked[low - 1] # Unasked
               /\ ~Matches(low - 1, asked[low - 1])

(* Once bracketed, high is known to match. *)
HighMatched ==
    phase # "double" /\ Fits => /\ asked[high] # Unasked
                                /\ Matches(high, asked[high])

Ordered == Fits \/ phase = "double" => low <= high

Closed == phase = "back" /\ Fits => low = high /\ result = high

Bracket ==
    /\ TypeOK
    /\ Told
    /\ LowMissed
    /\ HighMatched
    /\ Ordered
    /\ Closed
    /\ phase = "back" => goal = "end" /\ result \in Offsets
    /\ FindsAnEnd
    /\ RepairsExactly

LEMMA BracketInit == Init => Bracket
BY DEF Init, Bracket, TypeOK, Told, LowMissed, HighMatched, Ordered, Closed,
       FindsAnEnd, RepairsExactly

(* A request, or an answer remembered, is within the two lengths. *)
LEMMA AnswerBetween ==
    ASSUME TypeOK, Told, NEW k \in Offsets
    PROVE  /\ Answer(k) \in start..length
           /\ Answer(k) # Unasked
           /\ asked[k] # Unasked => Answer(k) = asked[k]
           /\ [asked EXCEPT ![k] = Answer(k)]
                \in [Offsets -> {Unasked} \union Nat]
BY DEF TypeOK, Told, Answer

LEMMA GrowStep == Bracket /\ Grow => Bracket'
BY DEF Bracket, Grow, search, TypeOK, Told, LowMissed, HighMatched, Ordered,
       Closed, FindsAnEnd, RepairsExactly, Fits, Matches

LEMMA DoubleStep == Bracket /\ Double => Bracket'
<1> SUFFICES ASSUME Bracket, Double PROVE Bracket'
    OBVIOUS
<1> DEFINE seen == Answer(high)
<1>1. /\ seen \in start..length /\ seen # Unasked
      /\ asked[high] # Unasked => seen = asked[high]
      /\ asked' = [asked EXCEPT ![high] = seen]
      /\ asked' \in [Offsets -> {Unasked} \union Nat]
    BY AnswerBetween DEF Bracket, TypeOK, Double, Probe
<1>2. low <= high /\ low \in Nat /\ high \in Offsets
    BY DEF Bracket, Ordered, Double, TypeOK
<1>3. Told'
    BY <1>1 DEF Bracket, Told, Double, TypeOK
<1> HIDE DEF seen
<1>4. CASE Matches(high, seen)
  <2>1. phase' = "halve" /\ low' = low /\ high' = high
      BY <1>4 DEF Double, seen
  <2>2. TypeOK'
      BY <1>1, <2>1 DEF Bracket, TypeOK, Double
  <2>3. LowMissed' /\ HighMatched'
      BY <1>1, <1>2, <1>4, <2>1
      DEF Bracket, TypeOK, LowMissed, HighMatched, Double, Matches
  <2> QED
      BY <1>2, <1>3, <2>1, <2>2, <2>3
      DEF Bracket, Ordered, Closed, FindsAnEnd, RepairsExactly, Double
<1>5. CASE ~Matches(high, seen)
  <2>1. /\ low' = high + 1
        /\ phase' = IF high >= Cap THEN "halve" ELSE "double"
        /\ high' = IF high >= Cap THEN high
                   ELSE IF high = 0 THEN 1 ELSE Min({2 * high, Cap})
      BY <1>5 DEF Double, seen
  <2>2. high' \in Offsets /\ (high < Cap => low' <= high')
      BY <1>2, <2>1, MinOfTwo
  <2>3. TypeOK'
      BY <1>1, <1>2, <2>1, <2>2 DEF Bracket, TypeOK, Double
  <2>4. LowMissed'
      BY <1>1, <1>2, <1>5, <2>1 DEF LowMissed, Matches, Double
  <2>5. high >= Cap => ~Fits'
      BY <1>1, <1>2, <1>5 DEF Fits, Matches, Double, Bracket, TypeOK
  <2> QED
      BY <1>2, <1>3, <2>1, <2>2, <2>3, <2>4, <2>5
      DEF Bracket, Ordered, HighMatched, Closed, FindsAnEnd, RepairsExactly,
          Double
<1> QED BY <1>4, <1>5

LEMMA HalveStep == Bracket /\ Halve => Bracket'
<1> SUFFICES ASSUME Bracket, Halve PROVE Bracket'
    OBVIOUS
<1> DEFINE mid == (low + high) \div 2
           seen == Answer(mid)
<1>1. /\ low \in Nat /\ high \in Offsets /\ mid \in Offsets
      /\ low <= mid /\ mid < high
    BY DEF Bracket, TypeOK, Halve
<1>2. /\ seen \in start..length /\ seen # Unasked
      /\ asked[mid] # Unasked => seen = asked[mid]
      /\ asked' = [asked EXCEPT ![mid] = seen]
      /\ asked' \in [Offsets -> {Unasked} \union Nat]
    BY <1>1, AnswerBetween DEF Bracket, Halve, Probe
<1>3. /\ goal' = goal /\ behind' = behind /\ start' = start
      /\ length' = length /\ phase = "halve" /\ phase' = "halve"
      /\ result' = result
      /\ IF Matches(mid, seen) THEN high' = mid /\ low' = low
                               ELSE low' = mid + 1 /\ high' = high
    BY DEF Halve
<1> HIDE DEF mid, seen
<1>4. Told'
    BY <1>1, <1>2, <1>3 DEF Bracket, Told, TypeOK
<1>5. TypeOK'
    BY <1>1, <1>2, <1>3 DEF Bracket, TypeOK
<1>6. LowMissed'
    BY <1>1, <1>2, <1>3 DEF Bracket, TypeOK, LowMissed, Matches
<1>7. HighMatched'
    BY <1>1, <1>2, <1>3 DEF Bracket, TypeOK, HighMatched, Matches, Fits
<1> QED
    BY <1>1, <1>3, <1>4, <1>5, <1>6, <1>7
    DEF Bracket, Ordered, Closed, FindsAnEnd, RepairsExactly, Fits

LEMMA FoundStep == Bracket /\ Found => Bracket'
<1> SUFFICES ASSUME Bracket, Found PROVE Bracket'
    OBVIOUS
<1>1. /\ goal' = goal /\ behind' = behind /\ start' = start
      /\ length' = length /\ asked' = asked /\ low' = low /\ high' = high
      /\ result' = high /\ phase = "halve" /\ low >= high
      /\ phase' = IF goal = "end" THEN "back" ELSE "done"
    BY DEF Found
<1>2. TypeOK' /\ Told' /\ LowMissed' /\ HighMatched' /\ Ordered'
    BY <1>1 DEF Bracket, TypeOK, Told, LowMissed, HighMatched, Ordered,
                Matches, Fits
<1>3. Fits => low = high
    BY <1>1 DEF Bracket, Ordered, TypeOK
<1>4. goal = "past" /\ Fits => high = behind
    BY <1>1, <1>3 DEF Bracket, TypeOK, Told, LowMissed, HighMatched, Matches
<1> QED
    BY <1>1, <1>2, <1>3, <1>4
    DEF Bracket, Closed, FindsAnEnd, RepairsExactly, Fits, TypeOK

LEMMA BackStep == Bracket /\ Back => Bracket'
<1> SUFFICES ASSUME Bracket, Back PROVE Bracket'
    OBVIOUS
<1> DEFINE offset == IF Answer(result) <= result /\ result > 0
                     THEN result - 1 ELSE result
           seen == Answer(offset)
<1>1. /\ goal = "end" /\ result \in Offsets /\ phase = "back"
      /\ offset \in Offsets
    BY DEF Bracket, Back
<1>2. /\ seen \in start..length /\ seen # Unasked
      /\ asked[offset] # Unasked => seen = asked[offset]
      /\ asked' = [asked EXCEPT ![offset] = seen]
      /\ asked' \in [Offsets -> {Unasked} \union Nat]
    BY <1>1, AnswerBetween DEF Bracket, Back, Probe
<1>3. /\ Answer(result) \in start..length
      /\ asked[result] # Unasked => Answer(result) = asked[result]
    BY <1>1, AnswerBetween DEF Bracket
<1>4. /\ goal' = goal /\ behind' = behind /\ start' = start
      /\ length' = length /\ low' = low /\ high' = high /\ phase' = "done"
      /\ result' = IF seen <= offset THEN -1 ELSE offset
    BY DEF Back
<1>5. Told' /\ TypeOK'
    BY <1>1, <1>2, <1>4 DEF Bracket, Told, TypeOK
<1>6. LowMissed' /\ HighMatched' /\ Ordered'
    BY <1>1, <1>2, <1>4
    DEF Bracket, TypeOK, LowMissed, HighMatched, Ordered, Matches, Fits
<1>7. Fits => result' + 1 \in start..length
  <2> SUFFICES ASSUME Fits PROVE result' + 1 \in start..length
      OBVIOUS
  <2>1. /\ low = high /\ result = high /\ asked[result] # Unasked
        /\ asked[result] <= result + 1
      BY <1>1 DEF Bracket, Closed, HighMatched, Matches
  <2>2. result > 0 => /\ asked[result - 1] # Unasked
                      /\ asked[result - 1] > result
      BY <1>1, <2>1 DEF Bracket, LowMissed, Matches, TypeOK
  <2>3. CASE Answer(result) <= result /\ result > 0
      BY <1>1, <1>2, <1>3, <1>4, <2>1, <2>2, <2>3 DEF Bracket, TypeOK
  <2>4. CASE ~(Answer(result) <= result /\ result > 0)
      BY <1>1, <1>2, <1>3, <1>4, <2>1, <2>4 DEF Bracket, TypeOK
  <2> QED BY <2>3, <2>4
<1> QED
    BY <1>1, <1>4, <1>5, <1>6, <1>7
    DEF Bracket, Closed, FindsAnEnd, RepairsExactly, Fits

(* The bracket is inductive. *)
LEMMA BracketAlways == Spec => []Bracket
<1>1. Bracket /\ UNCHANGED vars => Bracket'
    BY DEF Bracket, vars, search, TypeOK, Told, LowMissed, HighMatched,
           Ordered, Closed, FindsAnEnd, RepairsExactly, Fits, Matches
<1>2. Bracket /\ [Next]_vars => Bracket'
    BY <1>1, GrowStep, DoubleStep, HalveStep, FoundStep, BackStep
    DEF Next, Search, Rest
<1> QED BY <1>2, BracketInit, PTL DEF Spec

(* Variables keep their types, whatever the cap. *)
THEOREM SearchTypes == Spec => []TypeOK
BY BracketAlways, PTL DEF Bracket

(* First bind lands on a message that was the last one during the search,  *)
(* for every transcript within the cap and however it grows.               *)
THEOREM SeekFindsAnEnd == Spec => []FindsAnEnd
BY BracketAlways, PTL DEF Bracket

(* A repair resumes exactly at the first message past the cursor. *)
THEOREM RepairIsExact == Spec => []RepairsExactly
BY BracketAlways, PTL DEF Bracket

(* Powers of two, as numbers of subsets.                                   *)
LEMMA PowerCounts ==
    ASSUME NEW n \in Nat
    PROVE  IsFiniteSet(SUBSET (1..n)) /\ Cardinality(SUBSET (1..n)) = 2^n /\ 2^n \in Nat
<1>1. IsFiniteSet(1..n) /\ Cardinality(1..n) = n
  BY FS_Interval
<1>2. IsFiniteSet(SUBSET (1..n)) /\ Cardinality(SUBSET (1..n)) = 2^Cardinality(1..n)
  BY <1>1, FS_SUBSET
<1> QED BY <1>1, <1>2, FS_CardinalityType

LEMMA PowerDoubles ==
    ASSUME NEW n \in Nat
    PROVE  2^(n + 1) = 2 * 2^n
<1> DEFINE Old == SUBSET (1..n)
           New == {B \in SUBSET (1..(n + 1)) : n + 1 \in B}
           f == [B \in Old |-> B \cup {n + 1}]
<1>1. SUBSET (1..(n + 1)) = Old \cup New /\ Old \cap New = {}
  <2>1. 1..(n + 1) = (1..n) \cup {n + 1} /\ n + 1 \notin 1..n
    OBVIOUS
  <2> QED BY <2>1
<1>2. f \in Bijection(Old, New)
  <2>1. n + 1 \notin 1..n /\ 1..(n + 1) = (1..n) \cup {n + 1}
    OBVIOUS
  <2>2. f \in [Old -> New]
    BY <2>1
  <2>3. ASSUME NEW B \in Old, NEW D \in Old, f[B] = f[D] PROVE B = D
    BY <2>1, <2>3
  <2>4. ASSUME NEW D \in New PROVE \E B \in Old : f[B] = D
    <3>1. D \ {n + 1} \in Old /\ (D \ {n + 1}) \cup {n + 1} = D
      BY <2>1
    <3> QED BY <3>1
  <2> HIDE DEF f
  <2> QED BY <2>2, <2>3, <2>4 DEF Bijection, Injection, Surjection, IsInjective
<1>3. IsFiniteSet(Old) /\ Cardinality(Old) = 2^n /\ 2^n \in Nat
  BY PowerCounts
<1>4. ExistsBijection(Old, New)
  BY <1>2 DEF ExistsBijection
<1>5. IsFiniteSet(New) /\ Cardinality(New) = 2^n
  BY <1>3, <1>4, FS_Bijection
<1>6. Cardinality(Old \cup New) = 2^n + 2^n
  <2> HIDE DEF Old, New
  <2>1. Cardinality(Old \cup New) = Cardinality(Old) + Cardinality(New) - Cardinality(Old \cap New)
    BY <1>3, <1>5, FS_Union
  <2>2. Cardinality(Old \cap New) = 0
    BY <1>1, FS_EmptySet
  <2> QED BY <1>3, <1>5, <2>1, <2>2
<1>7. Cardinality(SUBSET (1..(n + 1))) = 2^(n + 1)
  <2>1. n + 1 \in Nat
    OBVIOUS
  <2> QED BY <2>1, PowerCounts
<1>8. 2^(n + 1) = 2^n + 2^n
  BY <1>1, <1>6, <1>7
<1> QED BY <1>3, <1>8

LEMMA PowerGrows ==
    ASSUME NEW m \in Nat, NEW n \in Nat, m <= n
    PROVE  2^m <= 2^n
<1>1. SUBSET (1..m) \in SUBSET (SUBSET (1..n))
  OBVIOUS
<1>2. Cardinality(SUBSET (1..m)) <= Cardinality(SUBSET (1..n))
  BY <1>1, PowerCounts, FS_Subset
<1> QED BY <1>2, PowerCounts

(* The invariant of the count.  While it doubles, k + 1 probes have got it *)
(* to 2^k, and the one before has shown a transcript longer than half of   *)
(* that; then each probe halves what is left of a bracket no wider.        *)
Probed == {k \in Offsets : asked[k] # Unasked}
Probes == Cardinality(Probed)

LongerThanHalf(k) == k = 0 \/ length > 2^(k - 1)

Reached(k) ==
    /\ LongerThanHalf(k) /\ Probes <= k + 1
    /\ high > 0 /\ high <= 2^k /\ (high = 2^k \/ high = Cap)
    /\ IF k = 0 THEN low = high ELSE low > 2^(k - 1)

Few ==
    /\ phase = "double" => (high = 0 /\ low = 0 /\ Probes = 0) \/ \E k \in Nat : Reached(k)
    /\ phase = "halve" =>
        \E k, j \in Nat : LongerThanHalf(k) /\ Probes <= 2 * k + 2 - j /\ high - low < 2^j
    /\ phase = "back" => \E k \in Nat : LongerThanHalf(k) /\ Probes <= 2 * k + 2
    /\ phase = "done" => \E k \in Nat : LongerThanHalf(k) /\ Probes <= 2 * k + 3

LEMMA ProbedFinite == IsFiniteSet(Probed) /\ Probes \in Nat
<1>1. IsFiniteSet(Offsets) /\ Probed \in SUBSET Offsets
  BY FS_Interval DEF Probed
<1> QED BY <1>1, FS_Subset, FS_CardinalityType DEF Probes

LEMMA OneProbeMore ==
    ASSUME NEW k \in Offsets, asked \in [Offsets -> {Unasked} \union Nat], Probe(k)
    PROVE  Probes' \in Nat /\ Probes' <= Probes + 1
<1>1. Probed' \in SUBSET (Probed \cup {k})
  BY DEF Probed, Probe
<1>2. /\ IsFiniteSet(Probed \cup {k})
      /\ Cardinality(Probed \cup {k}) <= Probes + 1
  <2>1. Cardinality(Probed \cup {k}) = IF k \in Probed THEN Probes ELSE Probes + 1
    BY ProbedFinite, FS_AddElement DEF Probes
  <2> QED BY <2>1, ProbedFinite, FS_AddElement
<1>3. IsFiniteSet(Probed') /\ Cardinality(Probed') <= Cardinality(Probed \cup {k})
  BY <1>1, <1>2, FS_Subset
<1>4. Cardinality(Probed') \in Nat /\ Cardinality(Probed \cup {k}) \in Nat
  BY <1>2, <1>3, FS_CardinalityType
<1> QED BY <1>2, <1>3, <1>4, ProbedFinite DEF Probes

(* Whatever is left of a bracket after a probe of its middle is at most    *)
(* half of it.                                                             *)
LEMMA MidIsNear ==
    ASSUME NEW a \in Nat, NEW b \in Nat, NEW m \in Nat, NEW p \in Nat,
           2 * m <= a + b, a + b <= 2 * m + 1, b - a < 2 * p
    PROVE  m - a < p /\ b - (m + 1) < p
OBVIOUS

LEMMA UpperHalf ==
    ASSUME NEW a \in Nat, NEW b \in Nat, NEW p \in Nat, a > p, b <= 2 * p
    PROVE  b - a < p
OBVIOUS

LEMMA PowerOfNone == 2^0 = 1
OBVIOUS

LEMMA FewInit == Init => Few
<1> SUFFICES ASSUME Init PROVE Few
  OBVIOUS
<1>1. Probed = {}
  BY DEF Init, Probed
<1>2. Probes = 0
  BY <1>1, FS_EmptySet DEF Probes
<1> QED BY <1>2 DEF Init, Few

LEMMA FewGrows == Bracket /\ Few /\ Grow => Few'
<1> SUFFICES ASSUME Bracket, Few, Grow PROVE Few'
  OBVIOUS
<1>1. /\ length' = length + 1 /\ length \in Nat
      /\ UNCHANGED <<asked, phase, low, high>>
  BY DEF Grow, search, Bracket, TypeOK
<1>2. Probed' = Probed
  BY <1>1 DEF Probed
<1>3. Probes' = Probes
  BY <1>2 DEF Probes
<1>4. ASSUME NEW k \in Nat, LongerThanHalf(k) PROVE LongerThanHalf(k)'
  <2>1. k # 0 => k - 1 \in Nat
    OBVIOUS
  <2>2. k # 0 => 2^(k - 1) \in Nat
    BY <2>1, PowerCounts
  <2> QED BY <1>1, <1>4, <2>2 DEF LongerThanHalf
<1>5. \A k \in Nat : Reached(k) => Reached(k)'
  BY <1>1, <1>3, <1>4 DEF Reached
<1> QED BY <1>1, <1>3, <1>4, <1>5 DEF Few

LEMMA FewDoubles == Bracket /\ Few /\ Double => Few'
<1> SUFFICES ASSUME Bracket, Few, Double PROVE Few'
  OBVIOUS
<1> DEFINE seen == Answer(high)
<1>1. /\ phase = "double" /\ high \in Offsets /\ low \in Nat /\ length \in Nat
      /\ seen \in start .. length /\ start \in Nat /\ behind \in 0 .. start /\ UNCHANGED <<length, goal>>
  BY AnswerBetween DEF Bracket, TypeOK, Double
<1>2. Probes' \in Nat /\ Probes' <= Probes + 1 /\ Probes \in Nat
  BY <1>1, OneProbeMore, ProbedFinite DEF Bracket, TypeOK, Double
<1>3. ~Matches(high, seen) => length > high
  BY <1>1 DEF Matches
<1>4. Matches(high, seen) => phase' = "halve" /\ low' = low /\ high' = high
  BY DEF Double
<1>5. ~Matches(high, seen) =>
        /\ low' = high + 1
        /\ phase' = IF high >= Cap THEN "halve" ELSE "double"
        /\ high' = IF high >= Cap THEN high ELSE IF high = 0 THEN 1 ELSE Min({2 * high, Cap})
  BY DEF Double
<1> HIDE DEF seen
<1>6. CASE high = 0 /\ low = 0 /\ Probes = 0
  <2>1. CASE Matches(high, seen)
    <3>1. Probes' <= 2 * 0 + 2 - 0 /\ high' - low' = 0
      BY <1>2, <1>4, <1>6, <2>1
    <3>2. LongerThanHalf(0)'
      BY DEF LongerThanHalf
    <3>3. high' - low' < 2^0
      BY <3>1, PowerOfNone
    <3>4. 0 \in Nat
      OBVIOUS
    <3> QED BY <1>4, <2>1, <3>1, <3>2, <3>3, <3>4 DEF Few
  <2>2. CASE ~Matches(high, seen)
    <3>1. phase' = "double" /\ high' = 1 /\ low' = 1
      BY <1>5, <1>6, <2>2
    <3>2. Reached(0)'
      BY <1>2, <1>6, <3>1, PowerOfNone DEF Reached, LongerThanHalf
    <3> QED BY <3>1, <3>2 DEF Few
  <2> QED BY <2>1, <2>2
<1>7. ASSUME NEW k \in Nat, Reached(k) PROVE Few'
  <2>1. /\ LongerThanHalf(k)' /\ Probes' <= k + 2 /\ 2^k \in Nat
        /\ 2^(k + 1) = 2 * 2^k /\ 2^(k + 1) \in Nat
    BY <1>1, <1>2, <1>7, PowerCounts, PowerDoubles DEF Reached, LongerThanHalf
  <2>2. CASE Matches(high, seen)
    <3>1. CASE k = 0
      <4>1. Probes' <= 2 * 0 + 2 - 0
        BY <1>2, <2>1, <3>1
      <4>2. high' - low' = 0
        BY <1>1, <1>4, <1>7, <2>2, <3>1 DEF Reached
      <4>3. high' - low' < 2^0
        BY <4>2, PowerOfNone
      <4> QED BY <1>4, <2>1, <2>2, <3>1, <4>1, <4>3 DEF Few
    <3>2. CASE k # 0
      <4>1. k - 1 \in Nat /\ (k - 1) + 1 = k
        BY <3>2
      <4>2. 2^(k - 1) \in Nat /\ 2^k = 2 * 2^(k - 1)
        BY <4>1, PowerCounts, PowerDoubles
      <4>3. low > 2^(k - 1) /\ high <= 2^k
        BY <1>7, <3>2 DEF Reached
      <4>4. high' - low' < 2^(k - 1)
        <5>1. high \in Nat /\ high <= 2 * 2^(k - 1)
          BY <1>1, <4>2, <4>3
        <5>2. high - low < 2^(k - 1)
          BY <1>1, <4>2, <4>3, <5>1, UpperHalf
        <5> QED BY <1>4, <2>2, <5>2
      <4>5. Probes' <= 2 * k + 2 - (k - 1)
        BY <1>2, <2>1, <3>2
      <4> QED BY <1>4, <2>1, <2>2, <4>1, <4>4, <4>5 DEF Few
    <3> QED BY <3>1, <3>2
  <2>3. CASE ~Matches(high, seen) /\ high >= Cap
    <3>1. phase' = "halve" /\ high' - low' = -1
      BY <1>1, <1>5, <2>3
    <3>2. Probes' <= 2 * k + 2 - 0
      BY <1>2, <2>1
    <3>3. high' - low' < 2^0
      BY <3>1, PowerOfNone
    <3> QED BY <2>1, <3>1, <3>2, <3>3 DEF Few
  <2>4. CASE ~Matches(high, seen) /\ ~(high >= Cap)
    <3>1. high = 2^k /\ high > 0
      BY <1>1, <1>7, <2>4 DEF Reached
    <3>2. /\ phase' = "double" /\ low' = high + 1
          /\ high' = IF 2 * high <= Cap THEN 2 * high ELSE Cap
      BY <1>1, <1>5, <2>4, <3>1, MinOfTwo
    <3>3. k + 1 # 0 /\ (k + 1) - 1 = k /\ k + 1 \in Nat
      OBVIOUS
    <3>4. LongerThanHalf(k + 1)'
      BY <1>1, <1>3, <2>4, <3>1, <3>3 DEF LongerThanHalf
    <3>5. high' > 0 /\ high' <= 2^(k + 1) /\ (high' = 2^(k + 1) \/ high' = Cap) /\ low' > 2^k
      BY <1>1, <2>1, <3>1, <3>2
    <3>6. Reached(k + 1)'
      BY <1>2, <2>1, <3>3, <3>4, <3>5 DEF Reached
    <3> QED BY <3>2, <3>3, <3>6 DEF Few
  <2> QED BY <2>2, <2>3, <2>4
<1> QED BY <1>1, <1>6, <1>7 DEF Few

LEMMA FewHalves == Bracket /\ Few /\ Halve => Few'
<1> SUFFICES ASSUME Bracket, Few, Halve PROVE Few'
  OBVIOUS
<1> DEFINE mid == (low + high) \div 2
<1>1. /\ phase = "halve" /\ phase' = "halve" /\ low < high /\ low \in Nat /\ high \in Nat
      /\ mid \in Offsets /\ low <= mid /\ mid < high /\ 2 * mid <= low + high /\ low + high <= 2 * mid + 1
      /\ UNCHANGED length
  BY DEF Bracket, TypeOK, Halve
<1>2. (high' = mid /\ low' = low) \/ (low' = mid + 1 /\ high' = high)
  BY DEF Halve
<1>3. Probe(mid)
  BY DEF Halve
<1> HIDE DEF mid
<1>4. Probes' \in Nat /\ Probes' <= Probes + 1 /\ Probes \in Nat
  BY <1>1, <1>3, OneProbeMore, ProbedFinite DEF Bracket, TypeOK
<1>5. PICK k \in Nat, j \in Nat : LongerThanHalf(k) /\ Probes <= 2 * k + 2 - j /\ high - low < 2^j
  BY <1>1 DEF Few
<1>6. j # 0
  <2>1. ~(high - low < 2^0)
    BY <1>1, PowerOfNone
  <2> QED BY <1>5, <2>1
<1>7. j - 1 \in Nat /\ (j - 1) + 1 = j
  BY <1>6
<1>8. 2^(j - 1) \in Nat /\ 2^j = 2 * 2^(j - 1)
  BY <1>7, PowerCounts, PowerDoubles
<1>9. high' - low' < 2^(j - 1)
  BY <1>1, <1>2, <1>5, <1>8, MidIsNear
<1>10. Probes' <= 2 * k + 2 - (j - 1)
  BY <1>4, <1>5
<1>11. LongerThanHalf(k)'
  BY <1>1, <1>5 DEF LongerThanHalf
<1> QED BY <1>1, <1>7, <1>9, <1>10, <1>11 DEF Few

LEMMA FewEnds == Bracket /\ Few /\ (Found \/ Back) => Few'
<1> SUFFICES ASSUME Bracket, Few, Found \/ Back PROVE Few'
  OBVIOUS
<1>1. CASE Found
  <2>1. UNCHANGED <<length, asked>> /\ phase = "halve" /\ phase' \in {"back", "done"}
    BY <1>1 DEF Found
  <2>2. PICK k \in Nat, j \in Nat : LongerThanHalf(k) /\ Probes <= 2 * k + 2 - j
    BY <2>1 DEF Few
  <2>3. Probed' = Probed
    BY <2>1 DEF Probed
  <2>4. Probes' = Probes /\ Probes \in Nat
    BY <2>3, ProbedFinite DEF Probes
  <2>5. LongerThanHalf(k)' /\ Probes' <= 2 * k + 2 /\ Probes' <= 2 * k + 3
    BY <2>1, <2>2, <2>4 DEF LongerThanHalf
  <2> QED BY <2>1, <2>5 DEF Few
<1>2. CASE Back
  <2> DEFINE offset == IF Answer(result) <= result /\ result > 0 THEN result - 1 ELSE result
  <2>1. offset \in Offsets /\ Probe(offset) /\ UNCHANGED length /\ phase = "back" /\ phase' = "done"
    BY <1>2 DEF Back, Bracket
  <2>2. PICK k \in Nat : LongerThanHalf(k) /\ Probes <= 2 * k + 2
    BY <2>1 DEF Few
  <2> HIDE DEF offset
  <2>3. Probes' \in Nat /\ Probes' <= Probes + 1 /\ Probes \in Nat
    BY <2>1, OneProbeMore, ProbedFinite DEF Bracket, TypeOK
  <2>4. LongerThanHalf(k)' /\ Probes' <= 2 * k + 3
    BY <2>1, <2>2, <2>3 DEF LongerThanHalf
  <2> QED BY <2>1, <2>4 DEF Few
<1> QED BY <1>1, <1>2

LEMMA FewAlways == Spec => []Few
<1>1. Few /\ UNCHANGED vars => Few'
  <2> SUFFICES ASSUME Few, UNCHANGED vars PROVE Few'
    OBVIOUS
  <2>1. UNCHANGED <<asked, phase, low, high, length>>
    BY DEF vars, search
  <2>2. Probed' = Probed
    BY <2>1 DEF Probed
  <2>3. Probes' = Probes
    BY <2>2 DEF Probes
  <2> QED BY <2>1, <2>3 DEF Few, Reached, LongerThanHalf
<1>2. Bracket /\ Few /\ [Next]_vars => Few'
  BY <1>1, FewGrows, FewDoubles, FewHalves, FewEnds DEF Next, Search, Rest
<1> QED BY <1>2, FewInit, BracketAlways, PTL DEF Spec

(* "~2 log2 N requests instead of N", for every transcript, however it     *)
(* grows, and every cap: while it has up to 2^e messages, 2 e + 3 offsets  *)
(* at most have been asked for (_first_offset_matching).                   *)
THEOREM SearchIsShort == Spec => []FewRequests
<1>1. Bracket /\ Few => FewRequests
  <2> SUFFICES ASSUME Bracket, Few, NEW e \in 0 .. Longest, length <= 2^e
               PROVE  Probes <= 2 * e + 3
    BY DEF FewRequests, Probes, Probed
  <2>1. /\ e \in Nat /\ 2^e \in Nat /\ length \in Nat /\ Probes \in Nat
        /\ phase \in {"double", "halve", "back", "done"}
    BY PowerCounts, ProbedFinite DEF Bracket, TypeOK
  <2>2. Probes = 0 \/ \E k \in Nat : LongerThanHalf(k) /\ Probes <= 2 * k + 3
    <3>1. ASSUME NEW k \in Nat, Reached(k) PROVE LongerThanHalf(k) /\ Probes <= 2 * k + 3
      BY <2>1, <3>1 DEF Reached
    <3>2. ASSUME NEW k \in Nat, NEW j \in Nat, Probes <= 2 * k + 2 - j PROVE Probes <= 2 * k + 3
      BY <2>1, <3>2
    <3>3. ASSUME NEW k \in Nat, Probes <= 2 * k + 2 PROVE Probes <= 2 * k + 3
      BY <2>1, <3>3
    <3> QED BY <2>1, <3>1, <3>2, <3>3 DEF Few
  <2>3. ASSUME NEW k \in Nat, LongerThanHalf(k) PROVE k = 0 \/ k <= e
    <3>1. CASE k # 0 /\ k > e
      <4>1. k - 1 \in Nat /\ e <= k - 1
        BY <2>1, <3>1
      <4>2. 2^e <= 2^(k - 1) /\ 2^(k - 1) \in Nat
        BY <2>1, <4>1, PowerGrows, PowerCounts
      <4>3. length > 2^(k - 1)
        BY <2>3, <3>1 DEF LongerThanHalf
      <4> QED BY <2>1, <4>2, <4>3
    <3> QED BY <2>1, <3>1
  <2> QED BY <2>1, <2>2, <2>3
<1> QED BY <1>1, FewAlways, BracketAlways, PTL
-----------------------------------------------------------------------------
(* Pacing.                                                                 *)
LEMMA PacingSteps == SideBySide => P!Spec
<1>1. Start => P!Init
  BY DEF Start
<1>2. [Step]_allVars => [P!Next]_(P!vars)
  BY DEF Step, allVars, pacingVars, P!vars, P!rowVars, P!pacerVars
<1> QED BY <1>1, <1>2, PTL DEF SideBySide, P!Spec

LEMMA PacingGiven ==
    /\ Cardinality(Destinations) \in Nat
    /\ P!Cardinality(Destinations) = Cardinality(Destinations)
    /\ ChatOf \in [Destinations -> Chats] /\ Backlog \in [Destinations -> Nat]
    /\ Throttled \subseteq Chats /\ Carded \subseteq Chats /\ Nowhere \notin Destinations
    /\ \A n \in Pauses : n \in Nat /\ n > 0
    /\ BatchSize \in Nat /\ BatchSize > 0 /\ Burst \in Nat /\ GlobalWindow \in Nat
<1>1. P!IsFiniteSet(Destinations) = IsFiniteSet(Destinations)
  BY DEF P!IsFiniteSet, IsFiniteSet
<1>2. P!Cardinality(Destinations) = Cardinality(Destinations)
  BY DEF P!Cardinality, Cardinality
<1>3. P!PacingAssumption
  BY ConstantsFit
<1>4. Cardinality(Destinations) \in Nat
  BY <1>1, <1>3, FS_CardinalityType DEF P!PacingAssumption
<1>5. /\ ChatOf \in [Destinations -> Chats] /\ Backlog \in [Destinations -> Nat]
      /\ Throttled \subseteq Chats /\ Carded \subseteq Chats /\ Nowhere \notin Destinations
  BY <1>3 DEF P!PacingAssumption
<1>6. Pauses \subseteq Nat \ {0} /\ {BatchSize, Burst, GlobalChats, GlobalWindow} \subseteq Nat \ {0}
  BY <1>3 DEF P!PacingAssumption
<1>7. \A n \in Nat \ {0} : n \in Nat /\ n > 0
  OBVIOUS
<1>8. \A n \in Pauses : n \in Nat /\ n > 0
  BY <1>6, <1>7
<1>9. BatchSize \in Nat \ {0} /\ Burst \in Nat \ {0} /\ GlobalWindow \in Nat \ {0}
  BY <1>6
<1>10. BatchSize \in Nat /\ BatchSize > 0 /\ Burst \in Nat /\ GlobalWindow \in Nat
  BY <1>7, <1>9
<1> QED BY <1>2, <1>4, <1>5, <1>8, <1>10

(* The invariant.  Whoever is yet to be served has rows, the batch under   *)
(* way is no larger than what its topic has left, and nobody that is still *)
(* to be served is the one being served.  A chat that has had its one late *)
(* row is paused, and no other row of it has been let past the check.      *)
Tasks ==
    [pc : {"idle", "serve", "check", "chat", "global", "send", "again"}, todo : SUBSET Destinations,
     first : Destinations \cup {Nowhere}, at : Destinations \cup {Nowhere}, left : 0 .. BatchSize]

InBatch == task.pc \in {"check", "chat", "global", "send", "again"}

Batches ==
    /\ \A d \in task.todo : rows[d] > 0
    /\ task.first \in Destinations => rows[task.first] > 0
    /\ InBatch => /\ task.at \in Destinations /\ task.at \notin task.todo /\ task.first = Nowhere
                  /\ task.left > 0 /\ task.left <= rows[task.at]

Overtaken(c) == task.pc \in {"chat", "global"} /\ P!Here = c

LateOnce ==
    \A c \in Chats :
        /\ late[c] \in {0, 1}
        /\ paused[c] = 0 => late[c] = 0
        /\ Overtaken(c) => late[c] = 0

Paced == P!TypeOK /\ Batches /\ LateOnce

LEMMA TaskTyped == P!TypeOK => task \in Tasks
BY DEF P!TypeOK, Tasks

(* The batch is given up. *)
LEMMA OnwardIs ==
    ASSUME task \in Tasks
    PROVE  /\ P!Onward \in Tasks /\ P!Onward.pc = "serve"
           /\ P!Onward.todo = task.todo /\ P!Onward.first = task.first
<1>1. 0 \in 0 .. BatchSize
  BY PacingGiven
<1> QED BY <1>1 DEF P!Onward, Tasks

LEMMA PacedInit == P!Init => Paced
<1> SUFFICES ASSUME P!Init PROVE Paced
  OBVIOUS
<1>1. rows \in [Destinations -> Nat]
  BY DEF P!Init
<1>2. P!TypeOK
  BY <1>1, PacingGiven DEF P!Init, P!TypeOK, P!Idle
<1>3. Batches /\ LateOnce
  BY PacingGiven DEF P!Init, P!Idle, Batches, InBatch, LateOnce, Overtaken
<1> QED BY <1>2, <1>3 DEF Paced

(* A pause begins or is drawn out, never shortened, and a budget is spent. *)
LEMMA PauseTypes ==
    ASSUME P!TypeOK, NEW c \in Chats, NEW n \in Pauses, P!PauseChat(c, n)
    PROVE  /\ tokens' \in [Chats -> 0 .. Burst] /\ paused' \in [Chats -> Nat]
           /\ recent' \in [Chats -> 0 .. GlobalWindow] /\ stopped' \in 0 .. GlobalWindow
           /\ \A b \in Chats : paused'[b] = 0 => paused[b] = 0
<1> DEFINE noted == [recent EXCEPT ![c] = GlobalWindow]
<1>1. noted \in [Chats -> 0 .. GlobalWindow]
  BY PacingGiven DEF P!TypeOK
<1>2. recent' = noted \/ recent' = [b \in Chats |-> 0]
  BY DEF P!PauseChat
<1>3. recent' \in [Chats -> 0 .. GlobalWindow]
  BY <1>1, <1>2, PacingGiven
<1>4. stopped' \in 0 .. GlobalWindow
  BY PacingGiven DEF P!PauseChat, P!TypeOK, P!Larger
<1>5. /\ paused' \in [Chats -> Nat]
      /\ \A b \in Chats : paused'[b] = 0 => paused[b] = 0
  BY PacingGiven DEF P!PauseChat, P!TypeOK, P!Larger
<1>6. tokens' \in [Chats -> 0 .. Burst]
  BY PacingGiven DEF P!PauseChat, P!TypeOK
<1> QED BY <1>3, <1>4, <1>5, <1>6

(* A pause leaves the rows let past the check as they are, if none is in   *)
(* the chat's own queue.                                                   *)
LEMMA PauseLate ==
    ASSUME Paced, NEW c \in Chats, NEW n \in Pauses, P!PauseChat(c, n), late' = late,
           task' = task \/ task'.pc = "serve"
    PROVE  LateOnce'
<1>1. \A b \in Chats : paused'[b] = 0 => paused[b] = 0
  BY PauseTypes DEF Paced
<1>2. \A b \in Chats : Overtaken(b)' => Overtaken(b)
  BY DEF Overtaken, P!Here
<1> QED BY <1>1, <1>2 DEF Paced, LateOnce

LEMMA TickPaced == Paced /\ P!Tick => Paced'
<1> SUFFICES ASSUME Paced, P!Tick PROVE Paced'
  OBVIOUS
<1>1. UNCHANGED <<rows, aged, rotor, task>>
  BY DEF P!Tick, P!rowVars
<1>2. /\ tokens' \in [Chats -> 0 .. Burst] /\ paused' \in [Chats -> Nat]
      /\ recent' \in [Chats -> 0 .. GlobalWindow] /\ stopped' \in 0 .. GlobalWindow
      /\ late' \in [Chats -> Nat]
  BY PacingGiven DEF P!Tick, P!Less, Paced, P!TypeOK
<1>3. P!TypeOK'
  BY <1>1, <1>2 DEF Paced, P!TypeOK
<1>4. Batches'
  BY <1>1 DEF Paced, Batches, InBatch
<1>5. ASSUME NEW c \in Chats
      PROVE  /\ late'[c] \in {0, 1} /\ (paused'[c] = 0 => late'[c] = 0)
             /\ (Overtaken(c)' => late'[c] = 0)
  <2>1. late'[c] = IF paused[c] <= 1 THEN 0 ELSE late[c]
    BY DEF P!Tick
  <2>2. paused'[c] = IF paused[c] = 0 THEN 0 ELSE paused[c] - 1
    BY DEF P!Tick, P!Less
  <2>3. paused[c] \in Nat
    BY DEF Paced, P!TypeOK
  <2>4. Overtaken(c)' <=> Overtaken(c)
    BY <1>1 DEF Overtaken, P!Here
  <2> QED BY <2>1, <2>2, <2>3, <2>4 DEF Paced, LateOnce
<1>6. LateOnce'
  BY <1>5 DEF LateOnce
<1> QED BY <1>3, <1>4, <1>6 DEF Paced

LEMMA CardPaced == ASSUME NEW c \in Carded PROVE Paced /\ P!CardRefused(c) => Paced'
<1> SUFFICES ASSUME Paced, P!CardRefused(c) PROVE Paced'
  OBVIOUS
<1>1. UNCHANGED <<rows, aged, rotor, task, late>> /\ c \in Chats
  BY PacingGiven DEF P!CardRefused, P!rowVars
<1>2. PICK n \in Pauses : P!PauseChat(c, n)
  BY DEF P!CardRefused
<1>3. P!TypeOK'
  BY <1>1, <1>2, PauseTypes DEF Paced, P!TypeOK
<1>4. Batches'
  BY <1>1 DEF Paced, Batches, InBatch
<1>5. LateOnce'
  BY <1>1, <1>2, PauseLate
<1> QED BY <1>3, <1>4, <1>5 DEF Paced

LEMMA RowsPaced ==
    /\ \A d \in Destinations : Paced /\ P!Enqueue(d) => Paced'
    /\ \A d \in Narrating : Paced /\ P!HeadAges(d) => Paced'
<1>1. ASSUME NEW d \in Destinations, Paced, P!Enqueue(d) PROVE Paced'
  <2>1. /\ rows' = [rows EXCEPT ![d] = @ + 1] /\ rows[d] < Backlog[d]
        /\ UNCHANGED <<aged, rotor, tokens, paused, recent, stopped, task, late>>
    BY <1>1 DEF P!Enqueue, P!pacerVars
  <2>2. rows \in [Destinations -> Nat]
    BY <1>1 DEF Paced, P!TypeOK
  <2>3. /\ rows' \in [Destinations -> Nat] /\ \A e \in Destinations : rows'[e] >= rows[e]
        /\ \A e \in Destinations : rows[e] <= Backlog[e] => rows'[e] <= Backlog[e]
    BY <2>1, <2>2, PacingGiven
  <2>4. P!TypeOK'
    BY <1>1, <2>1, <2>3 DEF Paced, P!TypeOK
  <2>5. task.todo \subseteq Destinations /\ task.left \in Nat
    BY <1>1, PacingGiven DEF Paced, P!TypeOK
  <2>6. Batches'
    BY <1>1, <2>1, <2>2, <2>3, <2>5 DEF Paced, Batches, InBatch
  <2>7. LateOnce'
    BY <1>1, <2>1 DEF Paced, LateOnce, Overtaken, P!Here
  <2> QED BY <2>4, <2>6, <2>7 DEF Paced
<1>2. ASSUME NEW d \in Narrating, Paced, P!HeadAges(d) PROVE Paced'
  <2>1. /\ aged' = aged \cup {d} /\ d \in Destinations
        /\ UNCHANGED <<rows, rotor, tokens, paused, recent, stopped, task, late>>
    BY <1>2, ConstantsFit DEF P!HeadAges, P!pacerVars, P!PacingAssumption
  <2> QED BY <1>2, <2>1 DEF Paced, P!TypeOK, Batches, InBatch, LateOnce, Overtaken, P!Here
<1> QED BY <1>1, <1>2

(* A step that only moves the task on. *)
Moves == UNCHANGED <<rows, aged, rotor, tokens, paused, recent, stopped, late>>

LEMMA MovePaced ==
    ASSUME Paced, Moves,
           task' \in Tasks,
           \A d \in task'.todo : rows[d] > 0,
           task'.first \in Destinations => rows[task'.first] > 0,
           InBatch' => /\ task'.at \in Destinations /\ task'.at \notin task'.todo /\ task'.first = Nowhere
                       /\ task'.left > 0 /\ task'.left <= rows[task'.at],
           \A c \in Chats : Overtaken(c)' => late[c] = 0
    PROVE  Paced'
<1>1. P!TypeOK'
  BY DEF Paced, Moves, P!TypeOK, Tasks
<1>2. Batches'
  BY DEF Moves, Batches
<1>3. LateOnce'
  BY DEF Paced, Moves, LateOnce
<1> QED BY <1>1, <1>2, <1>3 DEF Paced

LEMMA PassPaced == Paced /\ P!Pass => Paced'
<1> SUFFICES ASSUME Paced, P!Pass PROVE Paced'
  OBVIOUS
<1>1. PICK first \in P!Foremost(P!Sendable) :
        task' = [P!Idle EXCEPT !.pc = "serve", !.todo = P!Sendable, !.first = first]
  BY DEF P!Pass
<1>2. first \in P!Sendable /\ P!Sendable \subseteq Destinations /\ \A d \in P!Sendable : rows[d] > 0
  BY DEF P!Foremost, P!Sendable
<1>3. Moves
  BY DEF P!Pass, Moves, P!rowVars, P!pacerVars
<1>4. task' = [pc |-> "serve", todo |-> P!Sendable, first |-> first, at |-> Nowhere, left |-> 0]
  BY <1>1 DEF P!Idle
<1>5. \A c \in Chats : ~Overtaken(c)'
  BY <1>4 DEF Overtaken
<1> QED BY <1>2, <1>3, <1>4, <1>5, MovePaced, PacingGiven DEF InBatch, Tasks

(* A claim of what a waiting destination has: at least a row, at most a    *)
(* batch.                                                                  *)
LEMMA ClaimPaced ==
    ASSUME Paced, NEW d \in Destinations, rows[d] > 0, NEW rest \in SUBSET task.todo, d \notin rest,
           P!Claim(d, rest)
    PROVE  Paced'
<1> DEFINE taken == IF rows[d] < BatchSize THEN rows[d] ELSE BatchSize
<1>1. rows \in [Destinations -> Nat] /\ task.todo \subseteq Destinations
  BY DEF Paced, P!TypeOK
<1>2. taken \in 0 .. BatchSize /\ taken > 0 /\ taken <= rows[d]
  BY <1>1, PacingGiven
<1>3. task' = [pc |-> "check", todo |-> rest, first |-> Nowhere, at |-> d, left |-> taken]
  BY DEF P!Claim, P!Idle
<1> HIDE DEF taken
<1>4. UNCHANGED <<rows, aged, tokens, paused, recent, stopped, late>>
  BY DEF P!Claim, P!rowVars, P!pacerVars
<1>5. rotor' \in [Destinations -> 0 .. Cardinality(Destinations)]
  <2>1. rotor \in [Destinations -> 0 .. Cardinality(Destinations)]
    BY PacingGiven DEF Paced, P!TypeOK
  <2>2. rotor' = [e \in Destinations |-> IF e = d THEN Cardinality(Destinations)
                                         ELSE IF rotor[e] > rotor[d] THEN rotor[e] - 1 ELSE rotor[e]]
    BY PacingGiven DEF P!Claim, P!Served
  <2> QED BY <2>1, <2>2, PacingGiven
<1>6. task' \in Tasks
  BY <1>1, <1>2, <1>3 DEF Tasks
<1>7. P!TypeOK'
  BY <1>4, <1>5, <1>6, PacingGiven DEF Paced, P!TypeOK, Tasks
<1>8. Batches'
  BY <1>2, <1>3, <1>4, PacingGiven DEF Paced, Batches
<1>9. LateOnce'
  BY <1>3, <1>4 DEF Paced, LateOnce, Overtaken
<1> QED BY <1>7, <1>8, <1>9 DEF Paced

LEMMA ServePaced == Paced /\ P!Serve => Paced'
<1> SUFFICES ASSUME Paced, P!Serve PROVE Paced'
  OBVIOUS
<1>1. PICK d \in P!Foremost(task.todo) :
        IF P!ChatReady(ChatOf[d]) THEN P!Claim(d, task.todo \ {d})
        ELSE task' = [task EXCEPT !.todo = @ \ {d}] /\ UNCHANGED <<P!rowVars, P!pacerVars, rotor, late>>
  BY DEF P!Serve
<1>2. d \in task.todo /\ d \in Destinations /\ rows[d] > 0
  BY DEF P!Foremost, Paced, P!TypeOK, Batches
<1>3. CASE P!Claim(d, task.todo \ {d})
  BY <1>2, <1>3, ClaimPaced
<1>4. CASE task' = [task EXCEPT !.todo = @ \ {d}] /\ UNCHANGED <<P!rowVars, P!pacerVars, rotor, late>>
  <2>1. Moves
    BY <1>4 DEF Moves, P!rowVars, P!pacerVars
  <2>2. task'.pc = "serve"
    BY <1>4 DEF P!Serve, Paced, P!TypeOK
  <2>3. /\ task' \in Tasks
        /\ task'.todo = task.todo \ {d} /\ task'.first = task.first
    BY <1>4, TaskTyped DEF Paced, Tasks
  <2> QED BY <2>1, <2>2, <2>3, MovePaced DEF Paced, Batches, InBatch, Overtaken
<1> QED BY <1>1, <1>3, <1>4

LEMMA PassEndsPaced == Paced /\ P!PassEnds => Paced'
<1> SUFFICES ASSUME Paced, P!PassEnds PROVE Paced'
  OBVIOUS
<1>1. CASE task.first # Nowhere /\ P!Claim(task.first, {})
  <2>1. task.first \in Destinations /\ rows[task.first] > 0
    BY <1>1 DEF Paced, P!TypeOK, Batches
  <2> QED BY <1>1, <2>1, ClaimPaced
<1>2. CASE task' = P!Idle /\ UNCHANGED <<P!rowVars, P!pacerVars, rotor, late>>
  <2>1. Moves
    BY <1>2 DEF Moves, P!rowVars, P!pacerVars
  <2> QED BY <1>2, <2>1, MovePaced, PacingGiven DEF P!Idle, InBatch, Overtaken, Tasks
<1> QED BY <1>1, <1>2 DEF P!PassEnds

(* The check is where a pause stops the batch. *)
LEMMA CheckPaced == Paced /\ P!Check => Paced'
<1> SUFFICES ASSUME Paced, P!Check PROVE Paced'
  OBVIOUS
<1>1. Moves
  BY DEF P!Check, Moves, P!rowVars, P!pacerVars
<1>2. /\ task.pc = "check" /\ InBatch /\ task.at \in Destinations
      /\ task \in Tasks
  BY TaskTyped DEF P!Check, InBatch, Paced, Batches
<1>3. CASE task' = P!Onward
  <2>1. task' \in Tasks /\ task'.pc = "serve" /\ task'.todo = task.todo /\ task'.first = task.first
    BY <1>2, <1>3, OnwardIs
  <2> QED BY <1>1, <1>2, <2>1, MovePaced DEF InBatch, Overtaken, Paced, Batches
<1>4. CASE task' = [task EXCEPT !.pc = "chat"] /\ ~(paused[P!Here] > 0)
  <2>1. P!Here \in Chats /\ P!Here' = P!Here
    BY <1>2, <1>4, PacingGiven DEF P!Here
  <2>2. late[P!Here] = 0
    BY <1>4, <2>1 DEF Paced, LateOnce, P!TypeOK
  <2>3. \A c \in Chats : Overtaken(c)' => late[c] = 0
    BY <2>1, <2>2 DEF Overtaken
  <2>4. task' \in Tasks
    BY <1>2, <1>4 DEF Tasks
  <2>5. task'.todo = task.todo /\ task'.first = task.first /\ task'.at = task.at /\ task'.left = task.left
    BY <1>2, <1>4 DEF Tasks
  <2> QED BY <1>1, <1>2, <2>3, <2>4, <2>5, MovePaced DEF Paced, Batches, InBatch
<1> QED BY <1>3, <1>4 DEF P!Check

LEMMA AcquireChatPaced == Paced /\ P!AcquireChat => Paced'
<1> SUFFICES ASSUME Paced, P!AcquireChat PROVE Paced'
  OBVIOUS
<1>1. /\ task.pc = "chat" /\ tokens[P!Here] > 0 /\ task' = [task EXCEPT !.pc = "global"]
      /\ tokens' = [tokens EXCEPT ![P!Here] = @ - 1]
      /\ UNCHANGED <<rows, aged, paused, recent, stopped, rotor, late>>
  BY DEF P!AcquireChat, P!rowVars
<1>2. tokens' \in [Chats -> 0 .. Burst]
  <2>1. tokens \in [Chats -> 0 .. Burst]
    BY DEF Paced, P!TypeOK
  <2>2. P!Here \in Chats
    BY <1>1, PacingGiven DEF Paced, Batches, InBatch, P!Here
  <2>3. tokens[P!Here] - 1 \in 0 .. Burst
    BY <1>1, <2>1, <2>2, PacingGiven
  <2> QED BY <1>1, <2>1, <2>2, <2>3
<1>3. P!TypeOK'
  BY <1>1, <1>2 DEF Paced, P!TypeOK
<1>4. Batches'
  BY <1>1 DEF Paced, P!TypeOK, Batches, InBatch
<1>5. \A c \in Chats : Overtaken(c)' => Overtaken(c)
  BY <1>1 DEF Paced, P!TypeOK, Overtaken, P!Here
<1>6. LateOnce'
  BY <1>1, <1>5 DEF Paced, LateOnce
<1> QED BY <1>3, <1>4, <1>6 DEF Paced

(* The row a pause has overtaken: the first and the last. *)
LEMMA AcquireGlobalPaced == Paced /\ P!AcquireGlobal => Paced'
<1> SUFFICES ASSUME Paced, P!AcquireGlobal PROVE Paced'
  OBVIOUS
<1>1. /\ task.pc = "global" /\ task' = [task EXCEPT !.pc = "send"]
      /\ late' = IF paused[P!Here] > 0 THEN [late EXCEPT ![P!Here] = @ + 1] ELSE late
      /\ UNCHANGED <<rows, aged, tokens, paused, recent, stopped, rotor>>
  BY DEF P!AcquireGlobal, P!rowVars, P!pacerVars
<1>2. task.at \in Destinations /\ P!Here \in Chats /\ Overtaken(P!Here)
  BY <1>1, PacingGiven DEF Paced, Batches, InBatch, P!Here, Overtaken
<1>3. late[P!Here] = 0 /\ late \in [Chats -> Nat]
  BY <1>2 DEF Paced, LateOnce, P!TypeOK
<1>4. late' \in [Chats -> Nat]
  BY <1>1, <1>2, <1>3
<1>5. P!TypeOK'
  BY <1>1, <1>4 DEF Paced, P!TypeOK
<1>6. Batches'
  BY <1>1 DEF Paced, P!TypeOK, Batches, InBatch
<1>7. ASSUME NEW c \in Chats
      PROVE  late'[c] \in {0, 1} /\ (paused'[c] = 0 => late'[c] = 0) /\ ~Overtaken(c)'
  BY <1>1, <1>2, <1>3 DEF Paced, P!TypeOK, LateOnce, Overtaken
<1>8. LateOnce'
  BY <1>7 DEF LateOnce
<1> QED BY <1>5, <1>6, <1>8 DEF Paced

LEMMA SettledPaced == Paced /\ P!Settled => Paced'
<1> SUFFICES ASSUME Paced, P!Settled PROVE Paced'
  OBVIOUS
<1> DEFINE d == task.at
<1>1. /\ task.pc \in {"send", "again"} /\ rows' = [rows EXCEPT ![d] = @ - 1]
      /\ aged' \in {aged \ {d}} \cup (IF rows[d] > 1 THEN {aged} ELSE {})
      /\ task' = IF task.left > 1 THEN [task EXCEPT !.pc = "check", !.left = @ - 1] ELSE P!Onward
      /\ UNCHANGED <<tokens, paused, recent, stopped, rotor, late>>
  BY DEF P!Settled, P!pacerVars
<1>2. /\ d \in Destinations /\ d \notin task.todo /\ task.first = Nowhere
      /\ task.left > 0 /\ task.left <= rows[d]
  BY <1>1 DEF Paced, Batches, InBatch
<1>3. /\ rows \in [Destinations -> Nat] /\ \A e \in Destinations : rows[e] <= Backlog[e]
      /\ task \in Tasks
  BY TaskTyped DEF Paced, P!TypeOK
<1>4. /\ rows' \in [Destinations -> Nat] /\ rows'[d] = rows[d] - 1
      /\ \A e \in Destinations : rows'[e] <= Backlog[e]
      /\ \A e \in Destinations \ {d} : rows'[e] = rows[e]
  <2>1. rows[d] \in Nat /\ task.left \in Nat /\ Backlog[d] \in Nat
    BY <1>2, <1>3, PacingGiven DEF Tasks
  <2>2. rows[d] - 1 \in Nat
    BY <1>2, <2>1
  <2>3. \A e \in Destinations : rows'[e] = IF e = d THEN rows[d] - 1 ELSE rows[e]
    BY <1>1, <1>3
  <2>4. rows' \in [Destinations -> Nat]
    BY <1>1, <1>2, <1>3, <2>2
  <2>5. rows[d] - 1 <= Backlog[d]
    BY <1>2, <1>3, <2>1
  <2> HIDE DEF d
  <2> QED BY <1>2, <1>3, <2>3, <2>4, <2>5
<1>5. /\ task' \in Tasks
      /\ task'.todo = task.todo /\ task'.first = Nowhere
      /\ task'.pc = "serve" \/ (task'.pc = "check" /\ task'.at = d /\ task.left > 1 /\ task'.left = task.left - 1)
  <2>1. CASE task.left > 1
    <3>1. task' = [task EXCEPT !.pc = "check", !.left = @ - 1] /\ task.left - 1 \in 0 .. BatchSize
      BY <1>1, <1>3, <2>1, PacingGiven DEF Tasks
    <3> QED BY <1>2, <1>3, <2>1, <3>1 DEF Tasks
  <2>2. CASE ~(task.left > 1)
    <3>1. task' = P!Onward
      BY <1>1, <2>2
    <3> QED BY <1>2, <1>3, <3>1, OnwardIs
  <2> QED BY <2>1, <2>2
<1>6. aged' \subseteq Destinations
  BY <1>1 DEF Paced, P!TypeOK
<1>7. P!TypeOK'
  BY <1>1, <1>4, <1>5, <1>6 DEF Paced, P!TypeOK, Tasks
<1>8. \A e \in task.todo : rows[e] > 0 /\ e \in Destinations
  BY <1>3 DEF Paced, Batches, Tasks
<1>9. task.left \in Nat
  BY <1>3, PacingGiven DEF Tasks
<1>10. InBatch' => task'.pc = "check"
  BY <1>5 DEF InBatch
<1>11. Batches'
  BY <1>2, <1>3, <1>4, <1>5, <1>8, <1>9, <1>10, PacingGiven DEF Batches
<1>12. LateOnce'
  BY <1>1, <1>5 DEF Paced, LateOnce, Overtaken
<1> QED BY <1>7, <1>11, <1>12 DEF Paced

LEMMA RefusedBrieflyPaced == Paced /\ P!RefusedBriefly => Paced'
<1> SUFFICES ASSUME Paced, P!RefusedBriefly PROVE Paced'
  OBVIOUS
<1>1. Moves /\ task.pc = "send" /\ task' = [task EXCEPT !.pc = "again"]
  BY DEF P!RefusedBriefly, Moves, P!rowVars, P!pacerVars
<1>2. /\ task' \in Tasks /\ task'.pc = "again"
      /\ task'.todo = task.todo /\ task'.first = task.first /\ task'.at = task.at /\ task'.left = task.left
  BY <1>1, TaskTyped DEF Paced, Tasks
<1> QED BY <1>1, <1>2, MovePaced DEF Paced, Batches, InBatch, Overtaken

(* The batch is given up, whether or not its chat is paused for it. *)
LEMMA OnwardTypes ==
    ASSUME Paced, task' = P!Onward, UNCHANGED <<rows, aged, rotor, late>>, InBatch
    PROVE  /\ task' \in Tasks
           /\ task'.pc = "serve" /\ Batches'
<1>1. /\ task' \in Tasks
      /\ task'.pc = "serve" /\ task'.todo = task.todo /\ task'.first = Nowhere
  <2>1. task.first = Nowhere /\ task \in Tasks
    BY TaskTyped DEF Paced, Batches
  <2> QED BY <2>1, OnwardIs
<1>2. Batches'
  BY <1>1, PacingGiven DEF Paced, Batches, InBatch
<1> QED BY <1>1, <1>2

LEMMA RefusedPaced == Paced /\ (P!Refused \/ P!Failed) => Paced'
<1> SUFFICES ASSUME Paced, P!Refused \/ P!Failed PROVE Paced'
  OBVIOUS
<1>1. UNCHANGED <<rows, aged, rotor, late>> /\ task' = P!Onward /\ InBatch
  BY DEF P!Refused, P!Failed, P!rowVars, P!pacerVars, InBatch
<1>2. CASE P!Refused
  <2>1. PICK n \in Pauses : P!PauseChat(P!Here, n)
    BY <1>2 DEF P!Refused
  <2>2. P!Here \in Chats
    BY <1>2, PacingGiven DEF P!Refused
  <2>3. P!TypeOK'
    BY <1>1, <2>1, <2>2, PauseTypes, OnwardTypes DEF Paced, P!TypeOK, Tasks
  <2>4. LateOnce'
    BY <1>1, <2>1, <2>2, PauseLate, OnwardTypes
  <2> QED BY <1>1, <2>3, <2>4, OnwardTypes DEF Paced
<1>3. CASE P!Failed
  <2>1. UNCHANGED <<tokens, paused, recent, stopped>>
    BY <1>3 DEF P!Failed, P!pacerVars
  <2>2. P!TypeOK'
    BY <1>1, <2>1, OnwardTypes DEF Paced, P!TypeOK, Tasks
  <2>3. LateOnce'
    BY <1>1, <2>1, OnwardTypes DEF Paced, LateOnce, Overtaken
  <2> QED BY <1>1, <2>2, <2>3, OnwardTypes DEF Paced
<1> QED BY <1>2, <1>3

LEMMA PacedStep == Paced /\ [P!Next]_(P!vars) => Paced'
<1>1. Paced /\ UNCHANGED P!vars => Paced'
  BY DEF Paced, P!vars, P!rowVars, P!pacerVars, P!TypeOK, Batches, InBatch, LateOnce, Overtaken, P!Here
<1>2. Paced /\ P!Work => Paced'
  BY PassPaced, ServePaced, PassEndsPaced, CheckPaced, AcquireChatPaced, AcquireGlobalPaced, SettledPaced,
     RefusedBrieflyPaced, RefusedPaced DEF P!Work
<1> QED BY <1>1, <1>2, TickPaced, CardPaced, RowsPaced DEF P!Next

(* However many pauses the 429s of topics, cards and the whole token ask   *)
(* for, and wherever in its batch the task is: one row at most of a chat   *)
(* goes out between the beginning of its pause and the end.                *)
THEOREM OneRowPerPause == SideBySide => []OneRowIntoAPause
<1>1. Paced => OneRowIntoAPause
  BY DEF Paced, OneRowIntoAPause, P!OneRowIntoAPause, LateOnce
<1> QED BY <1>1, PacingSteps, PacedInit, PacedStep, PTL DEF P!Spec

-----------------------------------------------------------------------------
(* Voice notes.                                                            *)
LEMMA VoiceSteps == SideBySide => V!Spec
<1>1. Start => V!Init
  BY DEF Start
<1>2. [Step]_allVars => [V!Next]_(V!vars)
  BY DEF Step, allVars, voiceVars, V!vars
<1> QED BY <1>1, <1>2, PTL DEF SideBySide, V!Spec

LEMMA VoiceGiven ==
    /\ IsFiniteSet(Workers) /\ NoNote \notin Notes /\ Notes \subseteq Nat
    /\ MaxAttempts \in Nat /\ MaxAttempts > 0 /\ OrphanAfter \in Nat /\ Deadline \in Nat
    /\ MaxTaps \in Nat /\ MaxMishaps \in Nat
<1>1. V!IsFiniteSet(Workers) = IsFiniteSet(Workers)
  BY DEF V!IsFiniteSet, IsFiniteSet
<1>2. V!VoiceAssumption
  BY ConstantsFit
<1> QED BY <1>1, <1>2 DEF V!VoiceAssumption

(* The invariant.  A worker owes the vendor a call from the moment it has  *)
(* claimed a note without a transcript: calls made and calls owed are no   *)
(* more than the attempts counted.  Attempts stay within the budget and    *)
(* the taps, with one in hand for a row that waits to be claimed.          *)
Rows ==
    [state : {"none", "pruned", "received", "transcribed", "transcribing", "dispatching",
              "completed", "failed", "waiting_for_user"},
     text : BOOLEAN, tries : Nat, age : 0 .. OrphanAfter]

Jobs ==
    [pc : {"idle", "claimed", "calling", "marked", "dispatching", "answering", "asking"},
     note : Notes \cup {NoNote}, text : BOOLEAN, age : 0 .. Deadline]

Owing(n) == {w \in Workers : worker[w].pc = "claimed" /\ worker[w].note = n /\ ~worker[w].text}
Owed(n) == Cardinality(Owing(n))

Sound(r, t) ==
    /\ r.state = "none" => r.tries = 0
    /\ r.state = "transcribed" => r.text
    /\ r.tries + (IF r.state = "received" THEN 1 ELSE 0) <= MaxAttempts + t

Holds(w) == worker[w].pc # "idle" => worker[w].note \in Notes /\ note[worker[w].note].state # "none"

Budgeted ==
    /\ note \in [Notes -> Rows] /\ worker \in [Workers -> Jobs]
    /\ billed \in [Notes -> Nat] /\ prompts \in [Notes -> 0 .. 1]
    /\ taps \in [Notes -> 0 .. MaxTaps] /\ mishaps \in 0 .. MaxMishaps
    /\ \A n \in Notes : Sound(note[n], taps[n]) /\ billed[n] + Owed(n) <= note[n].tries
    /\ \A w \in Workers : Holds(w)

LEMMA BudgetedInit == V!Init => Budgeted
<1> SUFFICES ASSUME V!Init PROVE Budgeted
  OBVIOUS
<1>1. /\ note = [n \in Notes |-> [state |-> "none", text |-> FALSE, tries |-> 0, age |-> 0]]
      /\ worker = [w \in Workers |-> [pc |-> "idle", note |-> NoNote, text |-> FALSE, age |-> 0]]
      /\ billed = [n \in Notes |-> 0] /\ prompts = [n \in Notes |-> 0] /\ taps = [n \in Notes |-> 0]
      /\ mishaps = 0
  BY DEF V!Init, V!Free
<1>2. note \in [Notes -> Rows] /\ worker \in [Workers -> Jobs]
  BY <1>1, VoiceGiven DEF Rows, Jobs
<1>3. \A n \in Notes : Sound(note[n], taps[n])
  BY <1>1, VoiceGiven DEF Sound
<1>4. \A n \in Notes : Owing(n) = {}
  BY <1>1 DEF Owing
<1>5. \A n \in Notes : billed[n] + Owed(n) <= note[n].tries
  <2>1. ASSUME NEW n \in Notes PROVE Owed(n) = 0
    BY <1>4, FS_EmptySet DEF Owed
  <2>2. \A n \in Notes : billed[n] = 0 /\ note[n].tries = 0
    BY <1>1
  <2> QED BY <2>1, <2>2
<1>6. /\ billed \in [Notes -> Nat] /\ prompts \in [Notes -> 0 .. 1]
      /\ taps \in [Notes -> 0 .. MaxTaps] /\ mishaps \in 0 .. MaxMishaps
  BY <1>1, VoiceGiven
<1>7. \A w \in Workers : Holds(w)
  BY <1>1 DEF Holds
<1> QED BY <1>2, <1>3, <1>5, <1>6, <1>7 DEF Budgeted

(* What workers owe, and what is owed when one of them stops owing.        *)
LEMMA OwedFinite == \A n \in Notes : IsFiniteSet(Owing(n)) /\ Owed(n) \in Nat
<1> SUFFICES ASSUME NEW n \in Notes PROVE IsFiniteSet(Owing(n)) /\ Owed(n) \in Nat
  OBVIOUS
<1>1. Owing(n) \in SUBSET Workers
  BY DEF Owing
<1>2. IsFiniteSet(Owing(n))
  BY <1>1, FS_Subset, VoiceGiven
<1> QED BY <1>2, FS_CardinalityType DEF Owed

LEMMA OwedNoMore ==
    ASSUME NEW n \in Notes, Owing(n)' \subseteq Owing(n)
    PROVE  Owed(n)' \in Nat /\ Owed(n)' <= Owed(n)
<1>1. IsFiniteSet(Owing(n)') /\ Cardinality(Owing(n)') <= Cardinality(Owing(n))
  BY OwedFinite, FS_Subset
<1> QED BY <1>1, FS_CardinalityType DEF Owed

LEMMA OwedOneLess ==
    ASSUME NEW n \in Notes, NEW w \in Owing(n), Owing(n)' \subseteq Owing(n) \ {w}
    PROVE  Owed(n)' \in Nat /\ Owed(n)' + 1 <= Owed(n)
<1>1. IsFiniteSet(Owing(n) \ {w}) /\ Cardinality(Owing(n) \ {w}) = Owed(n) - 1
  BY OwedFinite, FS_RemoveElement DEF Owed
<1>2. IsFiniteSet(Owing(n)') /\ Cardinality(Owing(n)') <= Cardinality(Owing(n) \ {w})
  BY <1>1, FS_Subset
<1>3. Owed(n)' \in Nat
  BY <1>2, FS_CardinalityType DEF Owed
<1> QED BY <1>1, <1>2, <1>3, OwedFinite DEF Owed

LEMMA OwedOneMore ==
    ASSUME NEW n \in Notes, NEW w \in Workers, Owing(n)' \subseteq Owing(n) \cup {w}
    PROVE  Owed(n)' \in Nat /\ Owed(n)' <= Owed(n) + 1
<1>1. /\ IsFiniteSet(Owing(n) \cup {w})
      /\ Cardinality(Owing(n) \cup {w}) = IF w \in Owing(n) THEN Owed(n) ELSE Owed(n) + 1
  BY OwedFinite, FS_AddElement DEF Owed
<1>2. IsFiniteSet(Owing(n)') /\ Cardinality(Owing(n)') <= Cardinality(Owing(n) \cup {w})
  BY <1>1, FS_Subset
<1>3. Owed(n)' \in Nat
  BY <1>2, FS_CardinalityType DEF Owed
<1> QED BY <1>1, <1>2, <1>3, OwedFinite DEF Owed

(* A row that is written keeps its attempts or counts one more, and stays  *)
(* within the budget.                                                      *)
Written(n) ==
    \E r \in Rows :
        /\ note' = [note EXCEPT ![n] = r]
        /\ r.tries >= note[n].tries /\ r.state # "none" /\ Sound(r, taps[n])

LEMMA WrittenRows ==
    ASSUME Budgeted, NEW m \in Notes, note' = note \/ Written(m), taps' = taps
    PROVE  /\ note' \in [Notes -> Rows]
           /\ \A n \in Notes : /\ Sound(note[n], taps[n])'
                               /\ note'[n].tries >= note[n].tries
                               /\ note[n].state # "none" => note'[n].state # "none"
<1>0. note \in [Notes -> Rows] /\ \A n \in Notes : Sound(note[n], taps[n]) /\ note[n].tries \in Nat
  BY DEF Budgeted, Rows
<1>1. CASE note' = note
  BY <1>0, <1>1 DEF Sound
<1>2. CASE Written(m)
  <2>1. PICK r \in Rows :
          /\ note' = [note EXCEPT ![m] = r]
          /\ r.tries >= note[m].tries /\ r.state # "none" /\ Sound(r, taps[m])
    BY <1>2 DEF Written
  <2>2. note'[m] = r /\ \A n \in Notes \ {m} : note'[n] = note[n]
    BY <1>0, <2>1
  <2>3. note' \in [Notes -> Rows]
    BY <1>0, <2>1
  <2>4. \A n \in Notes : Sound(note[n], taps[n])'
    BY <1>0, <2>1, <2>2 DEF Sound
  <2> QED BY <1>0, <2>1, <2>2, <2>3, <2>4
<1> QED BY <1>1, <1>2

(* Any write of a state that is neither a queue nor none. *)
LEMMA AnyWrite ==
    ASSUME Budgeted, NEW m \in Notes,
           NEW state \in {"pruned", "transcribing", "dispatching", "completed", "failed", "waiting_for_user"},
           V!Write(m, state)
    PROVE  Written(m)
<1> DEFINE r == [note[m] EXCEPT !.state = state, !.age = 0]
<1>1. note[m] \in Rows /\ Sound(note[m], taps[m]) /\ taps[m] \in Nat /\ 0 \in 0 .. OrphanAfter
  BY VoiceGiven DEF Budgeted
<1>2. r \in Rows /\ r.state = state /\ r.tries = note[m].tries /\ r.tries \in Nat
  BY <1>1 DEF Rows
<1>3. note' = [note EXCEPT ![m] = r]
  BY DEF V!Write, Budgeted
<1> HIDE DEF r
<1>4. Sound(r, taps[m])
  BY <1>1, <1>2, VoiceGiven DEF Sound
<1>5. r.tries >= note[m].tries /\ r.state # "none"
  BY <1>2
<1> QED BY <1>2, <1>3, <1>4, <1>5 DEF Written

(* A worker goes on with its note, or lets go of it: it owes no call any   *)
(* more, and may just have made the one it owed.                           *)
LEMMA JobStep ==
    ASSUME Budgeted, NEW w \in Workers, NEW j \in Jobs, worker[w].pc # "idle",
           worker' = [worker EXCEPT ![w] = j], j.pc # "claimed",
           j.pc # "idle" => j.note = worker[w].note,
           note' = note \/ Written(worker[w].note), taps' = taps,
           prompts' \in [Notes -> 0 .. 1], mishaps' \in 0 .. MaxMishaps,
           \/ billed' = billed
           \/ /\ worker[w].pc = "claimed" /\ ~worker[w].text
              /\ billed' = [billed EXCEPT ![worker[w].note] = @ + 1]
    PROVE  Budgeted'
<1> DEFINE m == worker[w].note
<1>1. /\ m \in Notes /\ note[m].state # "none"
      /\ worker \in [Workers -> Jobs] /\ billed \in [Notes -> Nat] /\ note \in [Notes -> Rows]
  BY DEF Budgeted, Holds
<1>2. /\ worker' \in [Workers -> Jobs] /\ worker'[w] = j
      /\ \A v \in Workers \ {w} : worker'[v] = worker[v]
  BY <1>1
<1>3. /\ note' \in [Notes -> Rows]
      /\ \A n \in Notes : /\ Sound(note[n], taps[n])'
                          /\ note'[n].tries >= note[n].tries
                          /\ note[n].state # "none" => note'[n].state # "none"
  BY <1>1, WrittenRows
<1>4. \A n \in Notes : Owing(n)' \subseteq Owing(n) \ {w}
  BY <1>2 DEF Owing
<1>5. ASSUME NEW v \in Workers PROVE Holds(v)'
  <2>1. CASE v = w
    BY <1>1, <1>2, <1>3, <2>1 DEF Holds
  <2>2. CASE v # w
    BY <1>2, <1>3, <2>2 DEF Budgeted, Holds
  <2> QED BY <2>1, <2>2
<1>6. billed' \in [Notes -> Nat]
  BY <1>1
<1>7. ASSUME NEW n \in Notes PROVE billed'[n] + Owed(n)' <= note'[n].tries
  <2>1. /\ billed[n] \in Nat /\ Owed(n) \in Nat /\ billed[n] + Owed(n) <= note[n].tries
        /\ note[n].tries \in Nat /\ note'[n].tries \in Nat /\ note'[n].tries >= note[n].tries
    BY <1>1, <1>3, OwedFinite DEF Budgeted, Rows
  <2>2. CASE billed'[n] = billed[n]
    <3>1. Owed(n)' \in Nat /\ Owed(n)' <= Owed(n)
      BY <1>4, OwedNoMore
    <3> QED BY <2>1, <2>2, <3>1
  <2>3. CASE /\ n = m /\ worker[w].pc = "claimed" /\ ~worker[w].text
             /\ billed'[n] = billed[n] + 1
    <3>1. w \in Owing(n)
      BY <2>3 DEF Owing
    <3>2. Owed(n)' \in Nat /\ Owed(n)' + 1 <= Owed(n)
      BY <1>4, <3>1, OwedOneLess
    <3> QED BY <2>1, <2>3, <3>2
  <2> QED BY <1>1, <2>2, <2>3
<1> QED BY <1>2, <1>3, <1>5, <1>6, <1>7 DEF Budgeted

LEMMA FreeIsAJob == V!Free \in Jobs /\ V!Free.pc = "idle"
BY VoiceGiven DEF V!Free, Jobs

(* What an early end leaves, whether it fails the note or puts it back. *)
LEMMA FailGivesUp ==
    ASSUME Budgeted, NEW w \in Workers, worker[w].pc # "idle", V!Fail(w)
    PROVE  /\ worker' = [worker EXCEPT ![w] = V!Free]
           /\ note' = note \/ Written(worker[w].note)
           /\ mishaps' \in 0 .. MaxMishaps
<1>1. worker[w].note \in Notes
  BY DEF Budgeted, Holds
<1>2. worker' = [worker EXCEPT ![w] = V!Free]
  BY DEF V!Fail, V!Rest
<1>3. CASE V!Write(worker[w].note, "failed") /\ UNCHANGED mishaps
  <2>1. Written(worker[w].note)
    BY <1>1, <1>3, AnyWrite
  <2> QED BY <1>2, <1>3, <2>1 DEF Budgeted
<1>4. CASE V!LostWrite(w)
  BY <1>2, <1>4, VoiceGiven DEF Budgeted, V!LostWrite
<1> QED BY <1>3, <1>4 DEF V!Fail

LEMMA RaiseGivesUp ==
    ASSUME Budgeted, NEW w \in Workers, worker[w].pc # "idle", V!Raise(w)
    PROVE  /\ worker' = [worker EXCEPT ![w] = V!Free]
           /\ note' = note \/ Written(worker[w].note)
           /\ mishaps' \in 0 .. MaxMishaps
<1> DEFINE n == worker[w].note
           r == [note[n] EXCEPT !.state = V!QueueOf(n), !.age = 0,
                                !.tries = IF note[n].text THEN @ + 1 ELSE @]
<1>1. n \in Notes /\ note[n] \in Rows /\ taps[n] \in Nat
  <2>1. n \in Notes /\ note[n] \in Rows /\ taps[n] \in 0 .. MaxTaps
    BY DEF Budgeted, Holds
  <2> QED BY <2>1, VoiceGiven
<1>2. CASE V!Fail(w)
  BY <1>2, FailGivesUp
<1>3. CASE /\ note[n].tries < MaxAttempts
           /\ note' = [note EXCEPT ![n].state = V!QueueOf(n), ![n].age = 0,
                                   ![n].tries = IF note[n].text THEN @ + 1 ELSE @]
           /\ V!Rest(w) /\ UNCHANGED mishaps
  <2>1. /\ note[n].tries \in Nat /\ note[n].text \in BOOLEAN /\ 0 \in 0 .. OrphanAfter
    BY <1>1, VoiceGiven DEF Rows
  <2>2. /\ r \in Rows /\ r.text = note[n].text
        /\ r.state = IF note[n].text THEN "transcribed" ELSE "received"
        /\ r.tries = IF note[n].text THEN note[n].tries + 1 ELSE note[n].tries
    <3>1. /\ V!QueueOf(n) \in {"received", "transcribed"}
          /\ V!QueueOf(n) = IF note[n].text THEN "transcribed" ELSE "received"
      BY DEF V!QueueOf
    <3> HIDE DEF n
    <3>2. CASE note[n].text
      <4>1. r = [note[n] EXCEPT !.state = V!QueueOf(n), !.age = 0, !.tries = note[n].tries + 1]
        BY <3>2
      <4>2. note[n].tries + 1 \in Nat
        BY <2>1
      <4> HIDE DEF r
      <4> QED BY <1>1, <2>1, <3>1, <3>2, <4>1, <4>2 DEF Rows
    <3>3. CASE ~note[n].text
      BY <1>1, <2>1, <3>1, <3>3 DEF Rows
    <3> QED BY <3>2, <3>3
  <2>3. note' = [note EXCEPT ![n] = r]
    <3>1. note \in [Notes -> Rows]
      BY DEF Budgeted
    <3> HIDE DEF n
    <3>2. \A q : note' = [note EXCEPT ![n].state = q, ![n].age = 0,
                                     ![n].tries = IF note[n].text THEN @ + 1 ELSE @]
                    => note' = [note EXCEPT ![n] = [note[n] EXCEPT !.state = q, !.age = 0,
                                     !.tries = IF note[n].text THEN @ + 1 ELSE @]]
      BY <1>1, <3>1
    <3> QED BY <1>3, <3>2
  <2> HIDE DEF r, n
  <2>4. Sound(r, taps[n])
    BY <1>1, <1>3, <2>1, <2>2, VoiceGiven DEF Sound
  <2>5. r.tries >= note[n].tries /\ r.state # "none"
    BY <2>1, <2>2
  <2>6. Written(n)
    BY <2>2, <2>3, <2>4, <2>5 DEF Written
  <2> QED BY <1>3, <2>6 DEF V!Rest, Budgeted, n
<1> QED BY <1>2, <1>3 DEF V!Raise

LEMMA GivesUp ==
    ASSUME Budgeted, NEW w \in Workers, worker[w].pc # "idle", V!Fail(w) \/ V!Raise(w),
           UNCHANGED <<billed, prompts, taps>>
    PROVE  Budgeted'
<1>1. /\ worker' = [worker EXCEPT ![w] = V!Free]
      /\ note' = note \/ Written(worker[w].note)
      /\ mishaps' \in 0 .. MaxMishaps
  BY FailGivesUp, RaiseGivesUp
<1> QED BY <1>1, FreeIsAJob, JobStep DEF Budgeted

(* The step of a job that goes on. *)
LEMMA GoesOn ==
    ASSUME Budgeted, NEW w \in Workers, worker[w].pc # "idle",
           NEW pc \in {"calling", "marked", "dispatching", "answering", "asking"}, V!To(w, pc)
    PROVE  \E j \in Jobs : /\ worker' = [worker EXCEPT ![w] = j]
                           /\ j.pc # "claimed" /\ j.note = worker[w].note
<1> DEFINE j == [worker[w] EXCEPT !.pc = pc]
<1>1. worker[w] \in Jobs
  BY DEF Budgeted
<1>2. j \in Jobs /\ j.pc = pc /\ j.note = worker[w].note
  BY <1>1 DEF Jobs
<1>3. worker' = [worker EXCEPT ![w] = j]
  BY DEF V!To, Budgeted
<1> QED BY <1>2, <1>3

(* A step in which no worker takes a note or makes a call. *)
LEMMA RowsStep ==
    ASSUME Budgeted, worker' \in [Workers -> Jobs], UNCHANGED <<billed, prompts>>,
           \A w \in Workers : worker'[w].pc # "idle" =>
               /\ worker'[w].pc = worker[w].pc /\ worker'[w].note = worker[w].note
               /\ worker'[w].text = worker[w].text,
           note' \in [Notes -> Rows], taps' \in [Notes -> 0 .. MaxTaps], mishaps' \in 0 .. MaxMishaps,
           \A n \in Notes : /\ Sound(note[n], taps[n])' /\ note'[n].tries >= note[n].tries
                            /\ note[n].state # "none" => note'[n].state # "none"
    PROVE  Budgeted'
<1>1. ASSUME NEW n \in Notes PROVE billed'[n] + Owed(n)' <= note'[n].tries
  <2>1. /\ billed[n] \in Nat /\ Owed(n) \in Nat /\ billed[n] + Owed(n) <= note[n].tries
        /\ note[n].tries \in Nat /\ note'[n].tries \in Nat /\ note'[n].tries >= note[n].tries
    BY OwedFinite DEF Budgeted, Rows
  <2>2. ASSUME NEW w \in Workers, worker'[w].pc = "claimed", worker'[w].note = n, ~worker'[w].text
        PROVE  worker[w].pc = "claimed" /\ worker[w].note = n /\ ~worker[w].text
    BY <2>2
  <2>3. Owing(n)' \subseteq Owing(n)
    BY <2>2 DEF Owing
  <2>4. Owed(n)' \in Nat /\ Owed(n)' <= Owed(n)
    BY <2>3, OwedNoMore
  <2> QED BY <2>1, <2>4
<1>2. ASSUME NEW w \in Workers PROVE Holds(w)'
  <2>1. Holds(w)
    BY DEF Budgeted
  <2>2. worker'[w].pc # "idle" => worker'[w].pc = worker[w].pc /\ worker'[w].note = worker[w].note
    OBVIOUS
  <2> QED BY <2>1, <2>2 DEF Holds
<1>3. \A n \in Notes : Sound(note[n], taps[n])'
  OBVIOUS
<1>4. billed' \in [Notes -> Nat] /\ prompts' \in [Notes -> 0 .. 1]
  BY DEF Budgeted
<1> QED BY <1>1, <1>2, <1>3, <1>4 DEF Budgeted

LEMMA EnqueueBudgeted == ASSUME NEW n \in Notes PROVE Budgeted /\ V!Enqueue(n) => Budgeted'
<1> SUFFICES ASSUME Budgeted, V!Enqueue(n) PROVE Budgeted'
  OBVIOUS
<1> DEFINE r == [note[n] EXCEPT !.state = "received", !.age = 0]
<1>1. /\ note \in [Notes -> Rows] /\ note[n].state = "none" /\ Sound(note[n], taps[n])
      /\ \A m \in Notes : Sound(note[m], taps[m]) /\ note[m].tries \in Nat
  BY DEF Budgeted, V!Enqueue, Rows
<1>2. 0 \in 0 .. OrphanAfter /\ taps[n] \in 0 .. MaxTaps /\ taps[n] \in Nat
  BY VoiceGiven DEF Budgeted
<1>3. r \in Rows /\ r.state = "received" /\ r.tries = note[n].tries
  BY <1>1, <1>2 DEF Rows
<1>4. note' = [note EXCEPT ![n] = r] /\ UNCHANGED <<worker, billed, prompts, taps, mishaps>>
  BY <1>1 DEF V!Enqueue, V!Write
<1> HIDE DEF r
<1>5. Sound(r, taps[n])
  BY <1>1, <1>2, <1>3, VoiceGiven DEF Sound
<1>6. note' \in [Notes -> Rows] /\ note'[n] = r /\ \A m \in Notes \ {n} : note'[m] = note[m]
  BY <1>1, <1>3, <1>4
<1>7. \A m \in Notes : /\ Sound(note[m], taps[m])' /\ note'[m].tries >= note[m].tries
                       /\ note[m].state # "none" => note'[m].state # "none"
  BY <1>1, <1>3, <1>4, <1>5, <1>6 DEF Sound
<1> QED BY <1>4, <1>6, <1>7, RowsStep DEF Budgeted

(* Asking again buys one attempt more. *)
LEMMA RetryBudgeted == ASSUME NEW n \in Notes PROVE Budgeted /\ V!Retry(n) => Budgeted'
<1> SUFFICES ASSUME Budgeted, V!Retry(n) PROVE Budgeted'
  OBVIOUS
<1> DEFINE r == [note[n] EXCEPT !.state = V!QueueOf(n), !.age = 0]
<1>1. /\ note \in [Notes -> Rows] /\ note[n].state \in {"failed", "waiting_for_user"}
      /\ \A m \in Notes : Sound(note[m], taps[m]) /\ note[m].tries \in Nat
      /\ note[n].text \in BOOLEAN
  BY DEF Budgeted, V!Retry, Rows
<1>2. 0 \in 0 .. OrphanAfter /\ taps \in [Notes -> 0 .. MaxTaps] /\ taps[n] \in Nat /\ taps[n] < MaxTaps
  BY VoiceGiven DEF Budgeted, V!Retry
<1>3. /\ V!QueueOf(n) \in {"received", "transcribed"}
      /\ V!QueueOf(n) = "transcribed" => note[n].text
  BY DEF V!QueueOf
<1>4. r \in Rows /\ r.state = V!QueueOf(n) /\ r.tries = note[n].tries /\ r.text = note[n].text
  BY <1>1, <1>2, <1>3 DEF Rows
<1>5. /\ note' = [note EXCEPT ![n] = r] /\ UNCHANGED <<worker, billed, prompts, mishaps>>
      /\ taps' = [taps EXCEPT ![n] = @ + 1]
  BY <1>1 DEF V!Retry, V!Write
<1> HIDE DEF r
<1>6. /\ taps' \in [Notes -> 0 .. MaxTaps] /\ taps'[n] = taps[n] + 1
      /\ \A m \in Notes \ {n} : taps'[m] = taps[m]
  BY <1>2, <1>5, VoiceGiven
<1>7. Sound(r, taps[n] + 1)
  BY <1>1, <1>2, <1>3, <1>4, VoiceGiven DEF Sound
<1>8. note' \in [Notes -> Rows] /\ note'[n] = r /\ \A m \in Notes \ {n} : note'[m] = note[m]
  BY <1>1, <1>4, <1>5
<1>9. \A m \in Notes : /\ Sound(note[m], taps[m])' /\ note'[m].tries >= note[m].tries
                       /\ note[m].state # "none" => note'[m].state # "none"
  BY <1>1, <1>3, <1>4, <1>6, <1>7, <1>8 DEF Sound
<1> QED BY <1>5, <1>6, <1>8, <1>9, RowsStep DEF Budgeted

LEMMA PruneBudgeted == ASSUME NEW n \in Notes PROVE Budgeted /\ V!Prune(n) => Budgeted'
<1> SUFFICES ASSUME Budgeted, V!Prune(n) PROVE Budgeted'
  OBVIOUS
<1>1. Written(n) /\ UNCHANGED <<worker, billed, prompts, taps, mishaps>>
  BY AnyWrite DEF V!Prune
<1> QED BY <1>1, WrittenRows, RowsStep DEF Budgeted

(* The sweep gives up what has no attempt left, and puts back the rest. *)
LEMMA SweepBudgeted == Budgeted /\ V!Sweep => Budgeted'
<1> SUFFICES ASSUME Budgeted, V!Sweep PROVE Budgeted'
  OBVIOUS
<1>1. /\ note' = [n \in Notes |-> IF V!Stale(n) THEN V!Recovered(n) ELSE note[n]]
      /\ UNCHANGED <<worker, billed, prompts, taps, mishaps>>
  BY DEF V!Sweep
<1>2. ASSUME NEW n \in Notes
      PROVE  /\ note'[n] \in Rows /\ note'[n].tries >= note[n].tries
             /\ Sound(note[n], taps[n])' /\ (note[n].state # "none" => note'[n].state # "none")
  <2>1. /\ note[n] \in Rows /\ Sound(note[n], taps[n]) /\ note[n].tries \in Nat /\ note[n].text \in BOOLEAN
        /\ taps[n] \in 0 .. MaxTaps /\ taps[n] \in Nat /\ 0 \in 0 .. OrphanAfter
    BY VoiceGiven DEF Budgeted, Rows
  <2>2. CASE ~V!Stale(n)
    BY <1>1, <2>1, <2>2 DEF Sound
  <2>3. CASE V!Stale(n)
    <3> DEFINE state == IF note[n].tries >= MaxAttempts THEN "failed" ELSE V!QueueOf(n)
               r == [note[n] EXCEPT !.state = state, !.age = 0]
    <3>1. /\ state \in {"failed", "received", "transcribed"}
          /\ state = "received" => note[n].tries < MaxAttempts
          /\ state = "transcribed" => note[n].text
      BY <2>1, VoiceGiven DEF V!QueueOf
    <3>2. note'[n] = r
      BY <1>1, <2>3 DEF V!Recovered
    <3> HIDE DEF state
    <3>3. r \in Rows /\ r.state = state /\ r.tries = note[n].tries /\ r.text = note[n].text
      BY <2>1, <3>1 DEF Rows
    <3> HIDE DEF r
    <3>4. Sound(r, taps[n])
      BY <2>1, <3>1, <3>3, VoiceGiven DEF Sound
    <3> QED BY <1>1, <2>1, <3>1, <3>2, <3>3, <3>4 DEF Sound
  <2> QED BY <2>2, <2>3
<1>3. note' \in [Notes -> Rows]
  BY <1>1, <1>2
<1> QED BY <1>1, <1>2, <1>3, RowsStep DEF Budgeted

LEMMA TickBudgeted == Budgeted /\ V!Tick => Budgeted'
<1> SUFFICES ASSUME Budgeted, V!Tick PROVE Budgeted'
  OBVIOUS
<1>1. /\ note' = [n \in Notes |-> [note[n] EXCEPT !.age = IF note[n].state \in V!InFlight /\ @ < OrphanAfter THEN @ + 1 ELSE @]]
      /\ worker' = [w \in Workers |-> [worker[w] EXCEPT !.age = IF worker[w].pc = "idle" THEN 0 ELSE @ + 1]]
      /\ \A w \in Workers : worker[w].age < Deadline
      /\ UNCHANGED <<billed, prompts, taps, mishaps>>
  BY DEF V!Tick
<1>2. ASSUME NEW n \in Notes
      PROVE  /\ note'[n] \in Rows /\ note'[n].tries >= note[n].tries
             /\ Sound(note[n], taps[n])' /\ (note[n].state # "none" => note'[n].state # "none")
  <2>1. note[n] \in Rows /\ Sound(note[n], taps[n])
    BY DEF Budgeted
  <2>2. PICK age \in 0 .. OrphanAfter : note'[n] = [note[n] EXCEPT !.age = age]
    <3>1. note[n].age \in 0 .. OrphanAfter /\ (note[n].age < OrphanAfter => note[n].age + 1 \in 0 .. OrphanAfter)
      BY <2>1, VoiceGiven DEF Rows
    <3> QED BY <1>1, <3>1
  <2>3. /\ note'[n] \in Rows /\ note'[n].state = note[n].state /\ note'[n].text = note[n].text
        /\ note'[n].tries = note[n].tries /\ note[n].tries \in Nat
    BY <2>1, <2>2 DEF Rows
  <2> QED BY <1>1, <2>1, <2>3 DEF Sound
<1>3. ASSUME NEW w \in Workers
      PROVE  /\ worker'[w] \in Jobs /\ worker'[w].pc = worker[w].pc
             /\ worker'[w].note = worker[w].note /\ worker'[w].text = worker[w].text
  <2>1. worker[w] \in Jobs
    BY DEF Budgeted
  <2>2. PICK age \in 0 .. Deadline : worker'[w] = [worker[w] EXCEPT !.age = age]
    <3>1. worker[w].age \in 0 .. Deadline /\ worker[w].age + 1 \in 0 .. Deadline /\ 0 \in 0 .. Deadline
      BY <1>1, <2>1, VoiceGiven DEF Jobs
    <3> QED BY <1>1, <3>1
  <2> QED BY <2>1, <2>2 DEF Jobs
<1>4. note' \in [Notes -> Rows] /\ worker' \in [Workers -> Jobs]
  BY <1>1, <1>2, <1>3
<1> QED BY <1>1, <1>2, <1>3, <1>4, RowsStep DEF Budgeted

LEMMA CrashBudgeted == Budgeted /\ V!Crash => Budgeted'
<1> SUFFICES ASSUME Budgeted, V!Crash PROVE Budgeted'
  OBVIOUS
<1>1. /\ worker' = [w \in Workers |-> V!Free] /\ UNCHANGED <<note, billed, prompts, taps>>
      /\ mishaps < MaxMishaps /\ mishaps' = mishaps + 1
  BY DEF V!Crash
<1>2. worker' \in [Workers -> Jobs] /\ \A w \in Workers : worker'[w].pc = "idle"
  BY <1>1, FreeIsAJob
<1>3. \A n \in Notes : /\ Sound(note[n], taps[n])' /\ note'[n].tries >= note[n].tries
  BY <1>1 DEF Budgeted, Sound, Rows
<1>4. mishaps' \in 0 .. MaxMishaps
  BY <1>1, VoiceGiven DEF Budgeted
<1> QED BY <1>1, <1>2, <1>3, <1>4, RowsStep DEF Budgeted

(* A claim: of a note without a transcript it is an attempt, and the call  *)
(* the worker owes; of one with a transcript neither.                      *)
LEMMA ClaimBudgeted ==
    ASSUME NEW w \in Workers, NEW n \in Notes PROVE Budgeted /\ V!Claim(w, n) => Budgeted'
<1> SUFFICES ASSUME Budgeted, V!Claim(w, n) PROVE Budgeted'
  OBVIOUS
<1> DEFINE first == note[n].state = "received"
           r == [note[n] EXCEPT !.state = IF first THEN "transcribing" ELSE "dispatching",
                                !.tries = IF first THEN @ + 1 ELSE @, !.age = 0]
           j == [pc |-> "claimed", note |-> n, text |-> note[n].text, age |-> 0]
<1>1. /\ note \in [Notes -> Rows] /\ worker \in [Workers -> Jobs] /\ billed \in [Notes -> Nat]
      /\ \A m \in Notes : /\ Sound(note[m], taps[m]) /\ note[m].tries \in Nat
                          /\ billed[m] + Owed(m) <= note[m].tries
      /\ note[n] \in Rows /\ note[n].text \in BOOLEAN
  BY DEF Budgeted, Rows
<1>2. 0 \in 0 .. OrphanAfter /\ 0 \in 0 .. Deadline /\ taps[n] \in 0 .. MaxTaps /\ taps[n] \in Nat
  BY VoiceGiven DEF Budgeted
<1>3. /\ worker[w].pc = "idle" /\ note[n].state \in {"received", "transcribed"}
      /\ worker' = [worker EXCEPT ![w] = j] /\ UNCHANGED <<billed, prompts, taps, mishaps>>
  BY DEF V!Claim, V!At, V!Queued
<1>4. note' = [note EXCEPT ![n] = r]
  BY <1>1 DEF V!Claim
<1>5. j \in Jobs /\ j.pc = "claimed" /\ j.note = n /\ j.text = note[n].text
  BY <1>1, <1>2 DEF Jobs
<1>6. /\ r \in Rows /\ r.state \in {"transcribing", "dispatching"}
      /\ r.tries = IF first THEN note[n].tries + 1 ELSE note[n].tries
  <2>1. CASE first
    <3>1. r = [note[n] EXCEPT !.state = "transcribing", !.tries = note[n].tries + 1, !.age = 0]
      BY <2>1
    <3>2. note[n].tries + 1 \in Nat
      BY <1>1
    <3> HIDE DEF r
    <3> QED BY <1>1, <1>2, <2>1, <3>1, <3>2 DEF Rows
  <2>2. CASE ~first
    BY <1>1, <1>2, <2>2 DEF Rows
  <2> QED BY <2>1, <2>2
<1> HIDE DEF r, j
<1>7. /\ worker' \in [Workers -> Jobs] /\ worker'[w] = j
      /\ \A v \in Workers \ {w} : worker'[v] = worker[v]
  BY <1>1, <1>3, <1>5
<1>8. note' \in [Notes -> Rows] /\ note'[n] = r /\ \A m \in Notes \ {n} : note'[m] = note[m]
  BY <1>1, <1>4, <1>6
<1>9. Sound(r, taps[n])
  BY <1>1, <1>2, <1>6, VoiceGiven DEF Sound
<1>10. \A m \in Notes : Sound(note[m], taps[m])'
  BY <1>1, <1>3, <1>8, <1>9 DEF Sound
<1>11. ASSUME NEW m \in Notes PROVE billed'[m] + Owed(m)' <= note'[m].tries
  <2>1. /\ billed'[m] = billed[m] /\ billed[m] \in Nat /\ Owed(m) \in Nat /\ note[m].tries \in Nat
        /\ billed[m] + Owed(m) <= note[m].tries
    BY <1>1, <1>3, OwedFinite
  <2>2. CASE m = n /\ first
    <3>1. Owing(m)' \subseteq Owing(m) \cup {w}
      BY <1>7 DEF Owing
    <3>2. Owed(m)' \in Nat /\ Owed(m)' <= Owed(m) + 1
      BY <3>1, OwedOneMore
    <3>3. note'[m].tries = note[m].tries + 1
      BY <1>6, <1>8, <2>2
    <3> QED BY <2>1, <3>2, <3>3
  <2>3. CASE ~(m = n /\ first)
    <3>1. Owing(m)' \subseteq Owing(m)
      <4>1. m = n => j.text
        BY <1>1, <1>3, <1>5, <2>3 DEF Sound
      <4> QED BY <1>5, <1>7, <4>1 DEF Owing
    <3>2. Owed(m)' \in Nat /\ Owed(m)' <= Owed(m)
      BY <3>1, OwedNoMore
    <3>3. note'[m].tries = note[m].tries
      BY <1>6, <1>8, <2>3
    <3> QED BY <2>1, <3>2, <3>3
  <2> QED BY <2>2, <2>3
<1>12. ASSUME NEW v \in Workers PROVE Holds(v)'
  <2>1. CASE v = w
    BY <1>5, <1>6, <1>7, <1>8, <2>1 DEF Holds
  <2>2. CASE v # w
    <3>1. Holds(v) /\ worker'[v] = worker[v]
      BY <1>7, <2>2 DEF Budgeted
    <3> QED BY <1>6, <1>8, <3>1 DEF Holds
  <2> QED BY <2>1, <2>2
<1> QED BY <1>3, <1>7, <1>8, <1>10, <1>11, <1>12 DEF Budgeted

(* The vendor is called: the call that was owed is now billed. *)
LEMMA DownloadBudgeted == ASSUME NEW w \in Workers PROVE Budgeted /\ V!Download(w) => Budgeted'
<1> SUFFICES ASSUME Budgeted, V!Download(w) PROVE Budgeted'
  OBVIOUS
<1>1. worker[w].pc = "claimed" /\ ~worker[w].text /\ UNCHANGED <<prompts, taps>>
  BY DEF V!Download, V!At
<1>2. CASE /\ V!To(w, "calling") /\ billed' = [billed EXCEPT ![worker[w].note] = @ + 1]
           /\ UNCHANGED <<note, mishaps>>
  <2>1. PICK j \in Jobs : /\ worker' = [worker EXCEPT ![w] = j]
                         /\ j.pc # "claimed" /\ j.note = worker[w].note
    BY <1>1, <1>2, GoesOn
  <2> QED BY <1>1, <1>2, <2>1, JobStep DEF Budgeted
<1>3. CASE (V!Fail(w) \/ V!Raise(w)) /\ UNCHANGED billed
  BY <1>1, <1>3, GivesUp
<1> QED BY <1>2, <1>3 DEF V!Download

LEMMA TranscribedBudgeted == ASSUME NEW w \in Workers PROVE Budgeted /\ V!Transcribed(w) => Budgeted'
<1> SUFFICES ASSUME Budgeted, V!Transcribed(w) PROVE Budgeted'
  OBVIOUS
<1> DEFINE n == worker[w].note
           r == [note[n] EXCEPT !.state = "transcribed", !.text = TRUE, !.age = 0]
<1>1. worker[w].pc = "calling" /\ UNCHANGED <<billed, prompts, taps>>
  BY DEF V!Transcribed, V!At
<1>2. CASE note' = [note EXCEPT ![n] = r] /\ V!To(w, "marked") /\ UNCHANGED mishaps
  <2>1. n \in Notes /\ note[n] \in Rows /\ Sound(note[n], taps[n]) /\ taps[n] \in 0 .. MaxTaps
    BY <1>1 DEF Budgeted, Holds
  <2>2. 0 \in 0 .. OrphanAfter /\ taps[n] \in Nat /\ note[n].tries \in Nat
    BY <2>1, VoiceGiven DEF Rows
  <2>3. r \in Rows /\ r.state = "transcribed" /\ r.text /\ r.tries = note[n].tries
    BY <2>1, <2>2 DEF Rows
  <2> HIDE DEF r
  <2>4. Sound(r, taps[n])
    BY <2>1, <2>2, <2>3, VoiceGiven DEF Sound
  <2>5. r.tries >= note[n].tries /\ r.state # "none"
    BY <2>2, <2>3
  <2>6. Written(n)
    BY <1>2, <2>3, <2>4, <2>5 DEF Written
  <2>7. PICK j \in Jobs : /\ worker' = [worker EXCEPT ![w] = j]
                         /\ j.pc # "claimed" /\ j.note = worker[w].note
    BY <1>1, <1>2, GoesOn
  <2> QED BY <1>1, <1>2, <2>6, <2>7, JobStep DEF Budgeted
<1>3. CASE V!Fail(w)
  BY <1>1, <1>3, GivesUp
<1> QED BY <1>2, <1>3 DEF V!Transcribed

(* Handing the transcript on bills nothing and is one prompt at most. *)
LEMMA DispatchBudgeted ==
    ASSUME NEW w \in Workers
    PROVE  Budgeted /\ (V!Resume(w) \/ V!HandOn(w) \/ V!Ask(w) \/ V!Prompt(w) \/ V!Command(w)) => Budgeted'
<1> SUFFICES ASSUME Budgeted, V!Resume(w) \/ V!HandOn(w) \/ V!Ask(w) \/ V!Prompt(w) \/ V!Command(w)
             PROVE  Budgeted'
  OBVIOUS
<1>1. worker[w].pc # "idle" /\ UNCHANGED <<billed, taps, mishaps>>
  BY DEF V!Resume, V!HandOn, V!Ask, V!Prompt, V!Command, V!At
<1>2. worker[w].note \in Notes
  BY <1>1 DEF Budgeted, Holds
<1>3. PICK pc \in {"calling", "marked", "dispatching", "answering", "asking"} : V!To(w, pc)
  BY DEF V!Resume, V!HandOn, V!Ask, V!Prompt, V!Command
<1>4. PICK j \in Jobs : /\ worker' = [worker EXCEPT ![w] = j]
                       /\ j.pc # "claimed" /\ j.note = worker[w].note
  BY <1>1, <1>3, GoesOn
<1>5. prompts' \in [Notes -> 0 .. 1]
  BY <1>2 DEF Budgeted, V!Resume, V!HandOn, V!Ask, V!Prompt, V!Command, V!Recorded
<1>6. note' = note \/ Written(worker[w].note)
  <2>1. CASE V!HandOn(w)
    BY <1>2, <2>1, AnyWrite DEF V!HandOn
  <2>2. CASE V!Ask(w)
    BY <1>2, <2>2, AnyWrite DEF V!Ask
  <2> QED BY <2>1, <2>2 DEF V!Resume, V!Prompt, V!Command
<1> QED BY <1>1, <1>4, <1>5, <1>6, JobStep DEF Budgeted

LEMMA EndBudgeted ==
    ASSUME NEW w \in Workers
    PROVE  Budgeted /\ (V!Answer(w) \/ V!Stumble(w) \/ V!Overrun(w)) => Budgeted'
<1> SUFFICES ASSUME Budgeted, V!Answer(w) \/ V!Stumble(w) \/ V!Overrun(w) PROVE Budgeted'
  OBVIOUS
<1>1. CASE V!Answer(w)
  <2>1. /\ worker[w].pc # "idle" /\ worker' = [worker EXCEPT ![w] = V!Free]
        /\ UNCHANGED <<billed, prompts, taps, mishaps>>
    BY <1>1 DEF V!Answer, V!At, V!Rest
  <2>2. worker[w].note \in Notes
    BY <2>1 DEF Budgeted, Holds
  <2>3. note' = note \/ Written(worker[w].note)
    BY <1>1, <2>2, AnyWrite DEF V!Answer
  <2> QED BY <2>1, <2>3, FreeIsAJob, JobStep DEF Budgeted
<1>2. CASE V!Stumble(w)
  BY <1>2, GivesUp DEF V!Stumble
<1>3. CASE V!Overrun(w)
  BY <1>3, GivesUp DEF V!Overrun, V!At
<1> QED BY <1>1, <1>2, <1>3

LEMMA BudgetedStep == Budgeted /\ [V!Next]_(V!vars) => Budgeted'
<1>1. Budgeted /\ UNCHANGED V!vars => Budgeted'
  <2> SUFFICES ASSUME Budgeted, UNCHANGED V!vars PROVE Budgeted'
    OBVIOUS
  <2>1. UNCHANGED <<note, worker, billed, prompts, taps, mishaps>>
    BY DEF V!vars
  <2>2. \A n \in Notes : /\ Sound(note[n], taps[n])' /\ note'[n].tries >= note[n].tries
                         /\ note[n].state # "none" => note'[n].state # "none"
    BY <2>1 DEF Budgeted, Sound, Rows
  <2> QED BY <2>1, <2>2, RowsStep DEF Budgeted
<1>2. ASSUME NEW w \in Workers, Budgeted, V!Work(w) PROVE Budgeted'
  BY <1>2, ClaimBudgeted, DownloadBudgeted, TranscribedBudgeted, DispatchBudgeted, EndBudgeted DEF V!Work
<1> QED BY <1>1, <1>2, EnqueueBudgeted, RetryBudgeted, PruneBudgeted, SweepBudgeted, TickBudgeted, CrashBudgeted
        DEF V!Next

(* Whichever worker claims a note, however often one dies, overruns, loses *)
(* a write or has its claim swept from under it, the vendor is paid for a  *)
(* note no more often than its attempts and the person's taps allow, and   *)
(* the note is one prompt at most.                                         *)
THEOREM NoteWithinBudget == SideBySide => []OneNoteOnePrompt
<1>1. Budgeted => OneNoteOnePrompt
  <2> SUFFICES ASSUME Budgeted PROVE OneNoteOnePrompt
    OBVIOUS
  <2>1. ASSUME NEW n \in Notes
        PROVE  /\ billed[n] \in Nat /\ billed[n] <= MaxAttempts + taps[n] /\ prompts[n] <= 1
               /\ note[n].tries \in 0 .. MaxAttempts + MaxTaps
    <3>1. /\ note[n] \in Rows /\ note[n].tries \in Nat /\ billed[n] \in Nat /\ Owed(n) \in Nat
          /\ billed[n] + Owed(n) <= note[n].tries /\ Sound(note[n], taps[n])
          /\ taps[n] \in 0 .. MaxTaps /\ prompts[n] \in 0 .. 1
      BY OwedFinite DEF Budgeted, Rows
    <3>2. note[n].tries <= MaxAttempts + taps[n]
      BY <3>1, VoiceGiven DEF Sound
    <3> QED BY <3>1, <3>2, VoiceGiven
  <2>2. note \in [Notes -> [state : {"none", "pruned"} \cup V!Queued \cup V!InFlight \cup V!Settled,
                            text : BOOLEAN, tries : 0 .. MaxAttempts + MaxTaps, age : 0 .. OrphanAfter]]
    BY <2>1 DEF Budgeted, Rows, V!Queued, V!InFlight, V!Settled
  <2>3. V!TypeOK
    BY <2>2, VoiceGiven DEF Budgeted, Jobs, V!TypeOK
  <2> QED BY <2>1, <2>3 DEF OneNoteOnePrompt, V!BilledWithinBudget, V!OnePromptPerNote
<1> QED BY <1>1, VoiceSteps, BudgetedInit, BudgetedStep, PTL DEF V!Spec
=============================================================================
