----------------------------- MODULE TopicReader -----------------------------
(***************************************************************************)
(* Outbox with an observer beside the topic, who knows which sends were    *)
(* accepted by Telegram without the worker ever recording it.              *)
(***************************************************************************)
EXTENDS Outbox

VARIABLE
    lost        \* rows shown at least once by a send that was not recorded

Unrecorded ==
    {r \in Rows : \E w \in Workers :
        inflight[w] = r /\ inflight'[w] # r /\ state'[r] # "sent"}

ReaderInit == Init /\ lost = {}
ReaderSpec ==
    ReaderInit /\ [][Next /\ lost' = lost \union Unrecorded]_<<vars, lost>>
ReaderFairSpec == ReaderSpec /\ Fairness

(* A part is shown twice only when an earlier send of it was never         *)
(* recorded: overlapping workers, crashes, stops and recovery never repeat *)
(* a part whose worker lived to write it down ("two overlapping pollers    *)
(* cannot both send one", outbox.py).                                      *)
ShownOnce ==
    [][ \A r \in Rows : \A w \in Workers :
          (inflight[w] # r /\ inflight'[w] = r)
              => r \notin seen \/ r \in lost ]_<<vars, lost>>
=============================================================================
