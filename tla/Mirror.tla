------------------------------- MODULE Mirror --------------------------------
(***************************************************************************)
(* What ctb/turn/cursor.py promises of one session, whatever pollers run:  *)
(* from the place where mirroring began, once, the transcript goes to the  *)
(* chat in order and in full.  The place reached never moves back, and     *)
(* nothing behind it is left out except what was set aside on purpose (by  *)
(* backpressure, or while the session has no topic), which an overlapping  *)
(* poller may still bring back.                                            *)
(***************************************************************************)
EXTENDS Naturals

CONSTANT Last       \* the transcript's final length

VARIABLES
    length,         \* messages the transcript holds
    begun,          \* the place to begin at has been chosen
    reached,        \* the last message dealt with
    queued,         \* messages with a delivery
    dropped         \* messages set aside

vars == <<length, begun, reached, queued, dropped>>

Init ==
    /\ length \in 0..Last
    /\ begun \in BOOLEAN
    /\ reached = IF begun THEN length ELSE 0
    /\ queued = {}
    /\ dropped = {}

Say ==
    /\ length < Last
    /\ length' = length + 1
    /\ UNCHANGED <<begun, reached, queued, dropped>>

Begin ==
    /\ ~begun
    /\ begun' = TRUE
    /\ reached' \in 0..length
    /\ UNCHANGED <<length, queued, dropped>>

Keep ==
    /\ begun
    /\ \E upto \in reached..length, back \in SUBSET dropped :
        LET new == (reached + 1)..upto IN
        \E aside \in SUBSET new :
            /\ reached' = upto
            /\ queued' = queued \union back \union (new \ aside)
            /\ dropped' = (dropped \ back) \union aside
            /\ UNCHANGED <<length, begun>>

Next == Say \/ Begin \/ Keep

Spec == Init /\ [][Next]_vars
=============================================================================
