---------------------------- MODULE OffsetSearch ----------------------------
(***************************************************************************)
(* The offset probing of ctb/turn/cursor.py: _first_offset_matching over   *)
(* a _Prober, as find_last_message uses it ("end") and as _repair_offset   *)
(* does ("past" the cursor).  The transcript, which is external, may grow  *)
(* between any two requests, while the prober answers from what it was     *)
(* told the first time it asked.                                           *)
(***************************************************************************)
EXTENDS Integers, FiniteSets, FiniteSetsExt

CONSTANTS
    Cap,            \* MAX_PROBE_OFFSET
    Longest,        \* messages the transcript may grow to
    Growth          \* of them, those that may come during one search

ASSUME CapAssumption == Cap \in Nat \ {0}
ASSUME LongestAssumption == Longest \in Nat /\ Growth \in Nat

VARIABLES
    goal,           \* "end" or "past"
    behind,         \* messages the cursor has passed
    start,          \* the transcript's length when the search began
    length,         \* and now
    asked,          \* the length each probed offset was answered with
    phase,          \* "double", "halve", "back" or "done"
    low, high,      \* low - 1 is the last offset known not to match
    result          \* the offset it returns, -1 for an empty transcript

search == <<goal, behind, start, asked, phase, low, high, result>>
vars == <<search, length>>

Offsets == 0..Cap
Unasked == -1

Init ==
    /\ goal \in {"end", "past"}
    /\ length \in 0..Longest
    /\ behind \in 0..length
    /\ start = length
    /\ asked = [k \in Offsets |-> Unasked]
    /\ phase = "double"
    /\ low = 0
    /\ high = 0
    /\ result = -1

Grow ==
    /\ length < Longest
    /\ length < start + Growth
    /\ length' = length + 1
    /\ UNCHANGED search

(* What a request for one message at offset k tells, now or when it was    *)
(* first sent.                                                             *)
Answer(k) == IF asked[k] = Unasked THEN length ELSE asked[k]

(* Mutant: the cursor's own message counts as past it. *)
MatchesTooEarly(k, seen) ==
    IF goal = "end" THEN seen <= k + 1 ELSE seen <= k \/ behind <= k + 1

(* _at_or_past_end: no message there, or none after it.  past_cursor: no   *)
(* message there, or one with a higher index.                              *)
Matches(k, seen) ==
    IF goal = "end" THEN seen <= k + 1 ELSE seen <= k \/ behind <= k

Probe(k) == asked' = [asked EXCEPT ![k] = Answer(k)]

(* Mutant: the bracket grows by one offset at a time. *)
DoubleByOne ==
    /\ phase = "double"
    /\ Probe(high)
    /\ IF Matches(high, Answer(high))
       THEN /\ phase' = "halve"
            /\ UNCHANGED <<low, high>>
       ELSE /\ low' = high + 1
            /\ phase' = IF high >= Cap THEN "halve" ELSE "double"
            /\ high' = Min({high + 1, Cap})
    /\ UNCHANGED <<goal, behind, start, length, result>>

Double ==
    /\ phase = "double"
    /\ Probe(high)
    /\ IF Matches(high, Answer(high))
       THEN /\ phase' = "halve"
            /\ UNCHANGED <<low, high>>
       ELSE /\ low' = high + 1
            /\ phase' = IF high >= Cap THEN "halve" ELSE "double"
            /\ high' = IF high >= Cap THEN high
                       ELSE IF high = 0 THEN 1 ELSE Min({2 * high, Cap})
    /\ UNCHANGED <<goal, behind, start, length, result>>

Halve ==
    LET mid == (low + high) \div 2 IN
    /\ phase = "halve"
    /\ low < high
    /\ Probe(mid)
    /\ IF Matches(mid, Answer(mid))
       THEN high' = mid /\ UNCHANGED low
       ELSE low' = mid + 1 /\ UNCHANGED high
    /\ UNCHANGED <<goal, behind, start, length, phase, result>>

Found ==
    /\ phase = "halve"
    /\ low >= high
    /\ phase' = IF goal = "end" THEN "back" ELSE "done"
    /\ result' = high
    /\ UNCHANGED <<goal, behind, start, length, asked, low, high>>

(* Mutant: an offset that holds no message is taken for an empty one. *)
BackFromNowhere ==
    /\ phase = "back"
    /\ Probe(result)
    /\ result' = IF Answer(result) <= result THEN -1 ELSE result
    /\ phase' = "done"
    /\ UNCHANGED <<goal, behind, start, length, low, high>>

(* find_last_message: step back from an offset that holds no message. *)
Back ==
    LET offset == IF Answer(result) <= result /\ result > 0
                  THEN result - 1 ELSE result
    IN  /\ phase = "back"
        /\ Probe(offset)
        /\ result' = IF Answer(offset) <= offset THEN -1 ELSE offset
        /\ phase' = "done"
        /\ UNCHANGED <<goal, behind, start, length, low, high>>

Search == Double \/ Halve \/ Found \/ Back

(* Done stays done. *)
Rest == phase = "done" /\ UNCHANGED vars

Next == Grow \/ Search \/ Rest

Spec == Init /\ [][Next]_vars
-----------------------------------------------------------------------------
(* Every variable keeps its type. *)
TypeOK ==
    /\ goal \in {"end", "past"}
    /\ length \in Nat /\ start \in 0..length /\ behind \in 0..start
    /\ asked \in [Offsets -> {Unasked} \union Nat]
    /\ phase \in {"double", "halve", "back", "done"}
    /\ low \in 0..(Cap + 1) /\ high \in Offsets
    /\ result \in Offsets \union {-1}

Fits == length <= Cap

(* However the transcript grows meanwhile, the message taken for the last  *)
(* one was the last at some moment of the search: a message before it is   *)
(* history, and one said after the search is never jumped over.            *)
FindsAnEnd ==
    phase = "done" /\ goal = "end" /\ Fits => result + 1 \in start..length

(* A repair resumes exactly at the first message past the cursor. *)
RepairsExactly ==
    phase = "done" /\ goal = "past" /\ Fits => result = behind

(* "~2 log2 N requests instead of N", however the transcript grows. *)
FewRequests ==
    \A e \in 0..Longest :
        length <= 2^e => Cardinality({k \in Offsets : asked[k] # Unasked})
                            <= 2 * e + 3
=============================================================================
