---------------------------- MODULE ReplyPromise -----------------------------
(***************************************************************************)
(* What the outbox promises of every queued reply (delivery/outbox.py,     *)
(* "Never lose a reply"): at least once.  A row is settled as delivered    *)
(* only after Telegram has shown it, a settled row stays settled, and the  *)
(* only other way out is a definite refusal, a give-up, or a deliberate    *)
(* skip.                                                                   *)
(***************************************************************************)
CONSTANT Rows

VARIABLES
    seen,       \* rows Telegram has shown at least once
    fate        \* of each row: "absent", "owed", "delivered" or "dropped"

vars == <<seen, fate>>

Fates == {"absent", "owed", "delivered", "dropped"}

Init ==
    /\ seen = {}
    /\ fate = [r \in Rows |-> "absent"]

Promise(r) ==
    /\ fate[r] = "absent"
    /\ fate' = [fate EXCEPT ![r] = "owed"]
    /\ UNCHANGED seen

Show(r) ==
    /\ fate[r] = "owed"
    /\ seen' = seen \union {r}
    /\ UNCHANGED fate

(* Several rows may be settled at once, by a worker that shuts down or one *)
(* that recovers another's claims.                                         *)
Settle(rows) ==
    /\ \A r \in rows : fate[r] = "owed"
    /\ fate' \in [Rows -> Fates]
    /\ \A r \in Rows : CASE r \notin rows -> fate'[r] = fate[r]
                         [] r \in rows /\ r \in seen ->
                                fate'[r] \in {"delivered", "dropped"}
                         [] r \in rows /\ r \notin seen ->
                                fate'[r] = "dropped"
    /\ UNCHANGED seen

Next ==
    \/ \E r \in Rows : Promise(r) \/ Show(r)
    \/ \E rows \in SUBSET Rows : Settle(rows)

Spec == Init /\ [][Next]_vars
=============================================================================
