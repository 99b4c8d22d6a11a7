----------------------------- MODULE FinishLine ------------------------------
(***************************************************************************)
(* SessionPoller with an observer of the one message a turn ends with: the *)
(* finish line, sent by FinalizeDone and FinalizeCancelled                 *)
(* (session_poller._execute_actions).                                      *)
(***************************************************************************)
EXTENDS SessionPoller

VARIABLE
    finish      \* the turn's finish line: "due", "sent", or "moot" when the
                \* handler has queued a new prompt in the row meanwhile

Reopened == \E p \in Prompts : HandlerPosted(p) \/ HandlerAmbiguous(p)

TurnLeavesIdle == /\ task = "up" /\ task' = "up"
                  /\ ctx.state = "IDLE" /\ ctx'.state # "IDLE"

Observe ==
    finish' = CASE Reopened -> "moot"
                [] TurnLeavesIdle -> "due"
                [] Announce /\ finish = "due" -> "sent"
                [] OTHER -> finish

ObservedInit == Init /\ finish = "due"
ObservedSpec == ObservedInit /\ [][Next /\ Observe]_<<vars, finish>>

(* A turn's finish line is posted at most once, whatever crashes: the save *)
(* precedes the actions (session_poller._apply_evidence), so a restarted   *)
(* poller finds the turn over.                                             *)
FinishAtMostOnce == [][Announce => finish # "sent"]_<<vars, finish>>
=============================================================================
