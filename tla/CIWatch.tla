------------------------------ MODULE CIWatch ------------------------------
(***************************************************************************)
(* The watch on one pull request (ci/watcher.py, db/repo/ci.py): a row     *)
(* armed when a turn ends on a link, claimed by whichever instance finds   *)
(* it due, and polled in steps that hold no lock: GitHub's pull, GitHub's  *)
(* checks, the message, the write.  The claim's lease is one interval;     *)
(* nothing stops a poll that outlives it, and a turn may arm the row again *)
(* under a poll in flight.                                                 *)
(***************************************************************************)
EXTENDS Naturals, FiniteSets

CONSTANTS
    Instances,     \* processes of the service; two while a deploy overlaps
    MaxHeads,      \* commits pushed
    MaxRuns,       \* check suites started on a commit
    MaxTurns,      \* turns that end on the link
    MaxErrors,     \* MAX_ERRORS
    Lifetime,      \* GIVE_UP_AFTER_MS, in poll intervals
    MaxMishaps     \* polls cut off by a crash or a stop

CIAssumption ==
    /\ IsFiniteSet(Instances) /\ MaxMishaps \in Nat
    /\ {MaxHeads, MaxRuns, MaxTurns, MaxErrors, Lifetime} \subseteq Nat \ {0}

VARIABLES
    row,           \* ci_watches: [state, said, errors, due, left]
    pull,          \* at GitHub: [open, head, check, runs], check of the head
    team,          \* [token, muted]
    poll,          \* per instance: [pc, said, late, head, check]
    turns,         \* [made, head]: times the row was armed, and for which commit last
    last,          \* the last verdict posted or withheld on purpose
    heard,         \* all of them
    repeats,       \* times the same one was posted twice running
    excuses,       \* polls cut off after posting, polls begun under another
    mishaps

vars == <<row, pull, team, poll, turns, last, heard, repeats, excuses, mishaps>>

NoVerdict == [head |-> 0, check |-> "none"]
Quiet == [pc |-> "idle", said |-> NoVerdict, late |-> FALSE, head |-> 0, check |-> "none"]
At(i, pc) == poll[i].pc = pc
To(i, pc) == poll' = [poll EXCEPT ![i].pc = pc]
Rest(i) == poll' = [poll EXCEPT ![i] = Quiet]
Verdict(i) == [head |-> poll[i].head, check |-> poll[i].check]

(***************************************************************************)
(* The four writes.  None of them looks at the row's state.                *)
(***************************************************************************)
\* Mutant: a new turn forgets what was said.
WatchAfresh ==
    row' = [state |-> "watching", said |-> NoVerdict, errors |-> 0, due |-> TRUE, left |-> Lifetime]

Watch ==
    row' = [state |-> "watching", said |-> row.said, errors |-> 0, due |-> TRUE, left |-> Lifetime]

Reschedule == row' = [row EXCEPT !.errors = 0, !.due = FALSE]

Finish(state, said) == row' = [row EXCEPT !.state = state, !.said = said]

Fail(fatal) ==
    row' = [row EXCEPT !.errors = IF @ < MaxErrors THEN @ + 1 ELSE @, !.due = FALSE,
                       !.state = IF fatal \/ row.errors + 1 >= MaxErrors THEN "gave_up" ELSE @]

(***************************************************************************)
(* _watch_ci: the turn ended, its transcript names the pull request.       *)
(***************************************************************************)
TurnEnds ==
    /\ turns.made < MaxTurns /\ turns' = [made |-> turns.made + 1, head |-> pull.head]
    /\ team.token /\ Watch
    /\ UNCHANGED <<pull, team, poll, last, heard, repeats, excuses, mishaps>>

(***************************************************************************)
(* tick and _poll.                                                         *)
(***************************************************************************)
Claim(i) ==
    /\ At(i, "idle") /\ row.state = "watching" /\ row.due
    /\ row' = [row EXCEPT !.due = FALSE]
    /\ poll' = [poll EXCEPT ![i] = [Quiet EXCEPT !.pc = "pull", !.said = row.said, !.late = (row.left = 0)]]
    /\ excuses' = IF \E j \in Instances \ {i} : ~At(j, "idle") THEN excuses + 1 ELSE excuses
    /\ UNCHANGED <<pull, team, turns, last, heard, repeats, mishaps>>

Expired(i) == poll[i].late

GiveUp(i) ==
    /\ At(i, "pull")
    /\ \/ Expired(i) /\ Finish("gave_up", row.said)
       \/ ~Expired(i) /\ ~team.token /\ Fail(TRUE)
    /\ Rest(i)
    /\ UNCHANGED <<pull, team, turns, last, heard, repeats, excuses, mishaps>>

\* _record_github_error, and whatever else is raised.
Errs(i) ==
    /\ poll[i].pc \in {"pull", "checks"} /\ ~(At(i, "pull") /\ Expired(i))
    /\ \E fatal \in BOOLEAN : Fail(fatal)
    /\ Rest(i)
    /\ UNCHANGED <<pull, team, turns, last, heard, repeats, excuses, mishaps>>

GetPull(i) ==
    /\ At(i, "pull") /\ ~Expired(i) /\ team.token
    /\ IF pull.open
       THEN poll' = [poll EXCEPT ![i].pc = "checks", ![i].head = pull.head] /\ UNCHANGED row
       ELSE Finish("done", row.said) /\ Rest(i)
    /\ UNCHANGED <<pull, team, turns, last, heard, repeats, excuses, mishaps>>

\* The checks of the commit the pull was at; an older commit keeps its last.
GetChecks(i) ==
    /\ At(i, "checks")
    /\ \E check \in IF poll[i].head = pull.head THEN {pull.check} ELSE {"none", "pending", "success", "failure"} :
          IF check \in {"none", "pending"}
          THEN Reschedule /\ Rest(i)
          ELSE IF poll[i].said = [head |-> poll[i].head, check |-> check]
          THEN Finish("done", row.said) /\ Rest(i)
          ELSE poll' = [poll EXCEPT ![i].pc = "tell", ![i].check = check] /\ UNCHANGED row
    /\ UNCHANGED <<pull, team, turns, last, heard, repeats, excuses, mishaps>>

\* _announce: posted, or kept quiet because the topic is muted.
Tell(i) ==
    /\ At(i, "tell") /\ To(i, "told")
    /\ last' = Verdict(i) /\ heard' = heard \cup {Verdict(i)}
    /\ repeats' = IF last = Verdict(i) /\ ~team.muted THEN repeats + 1 ELSE repeats
    /\ UNCHANGED <<row, pull, team, turns, excuses, mishaps>>

Refused(i) ==
    /\ At(i, "tell") /\ ~team.muted
    /\ Reschedule /\ Rest(i)
    /\ UNCHANGED <<pull, team, turns, last, heard, repeats, excuses, mishaps>>

Told(i) ==
    /\ At(i, "told")
    /\ Finish("done", Verdict(i)) /\ Rest(i)
    /\ UNCHANGED <<pull, team, turns, last, heard, repeats, excuses, mishaps>>

\* The process dies or stops mid-poll: no write follows.
CutOff(i) ==
    /\ ~At(i, "idle") /\ mishaps < MaxMishaps /\ mishaps' = mishaps + 1
    /\ excuses' = IF At(i, "told") THEN excuses + 1 ELSE excuses
    /\ Rest(i)
    /\ UNCHANGED <<row, pull, team, turns, last, heard, repeats>>

\* An interval passes; the row's age is bounded by its lifetime.
Interval ==
    /\ row.state = "watching" /\ ~row.due
    /\ row' = [row EXCEPT !.due = TRUE, !.left = IF @ > 0 THEN @ - 1 ELSE 0]
    /\ UNCHANGED <<pull, team, poll, turns, last, heard, repeats, excuses, mishaps>>

(***************************************************************************)
(* Around it: the author pushes, checks run and are run again, the pull is *)
(* merged or closed, the owner mutes the topic or withdraws the token.     *)
(***************************************************************************)
Push ==
    /\ pull.open /\ pull.head < MaxHeads
    /\ pull' = [pull EXCEPT !.head = @ + 1, !.check = "none", !.runs = 0]
Run ==
    /\ pull.check # "pending" /\ pull.runs < MaxRuns
    /\ pull' = [pull EXCEPT !.check = "pending", !.runs = @ + 1]
Conclude == \E c \in {"success", "failure"} : pull.check = "pending" /\ pull' = [pull EXCEPT !.check = c]
Close == pull.open /\ pull' = [pull EXCEPT !.open = FALSE]

GitHub ==
    /\ Push \/ Run \/ Conclude \/ Close
    /\ UNCHANGED <<row, team, poll, turns, last, heard, repeats, excuses, mishaps>>

Owner ==
    /\ \/ ~team.muted /\ team' = [team EXCEPT !.muted = TRUE]
       \/ team.token /\ team' = [team EXCEPT !.token = FALSE]
    /\ UNCHANGED <<row, pull, poll, turns, last, heard, repeats, excuses, mishaps>>

Init ==
    /\ row = [state |-> "none", said |-> NoVerdict, errors |-> 0, due |-> FALSE, left |-> 0]
    /\ pull = [open |-> TRUE, head |-> 1, check |-> "none", runs |-> 0]
    /\ team = [token |-> TRUE, muted |-> FALSE]
    /\ poll = [i \in Instances |-> Quiet]
    /\ turns = [made |-> 0, head |-> 0] /\ last = NoVerdict /\ heard = {NoVerdict}
    /\ repeats = 0 /\ excuses = 0 /\ mishaps = 0

Poll(i) ==
    \/ Claim(i) \/ GiveUp(i) \/ Errs(i) \/ GetPull(i) \/ GetChecks(i)
    \/ Tell(i) \/ Refused(i) \/ Told(i)

Next ==
    \/ \E i \in Instances : Poll(i) \/ CutOff(i)
    \/ TurnEnds \/ Interval \/ GitHub \/ Owner

Spec == Init /\ [][Next]_vars

(* The watcher's loop catches everything and sleeps; time passes.          *)
Fairness == (\A i \in Instances : WF_vars(Poll(i))) /\ WF_vars(Interval)

FairSpec == Spec /\ Fairness

(***************************************************************************)
(* Properties.                                                             *)
(***************************************************************************)
(* Types.                                                                  *)
Verdicts == [head : 0 .. MaxHeads, check : {"none", "success", "failure"}]
TypeOK ==
    /\ row \in [state : {"none", "watching", "done", "gave_up"}, said : Verdicts, errors : 0 .. MaxErrors,
                due : BOOLEAN, left : 0 .. Lifetime]
    /\ pull \in [open : BOOLEAN, head : 1 .. MaxHeads, check : {"none", "pending", "success", "failure"}, runs : 0 .. MaxRuns]
    /\ team \in [token : BOOLEAN, muted : BOOLEAN]
    /\ poll \in [Instances -> [pc : {"idle", "pull", "checks", "tell", "told"}, said : Verdicts, late : BOOLEAN,
                               head : 0 .. MaxHeads, check : {"none", "success", "failure"}]]
    /\ turns \in [made : 0 .. MaxTurns, head : 0 .. MaxHeads]
    /\ last \in Verdicts /\ heard \subseteq Verdicts
    /\ {repeats, excuses} \subseteq Nat /\ mishaps \in 0 .. MaxMishaps

(* "Say it once": the same verdict for the same commit is posted twice     *)
(* running only when a poll was cut off between its message and its write, *)
(* or began while another instance's poll had not ended; neither a new     *)
(* turn nor a check that is run again repeats it.                          *)
SaidOnce == repeats <= excuses

(* A verdict on record as said was posted, or withheld from a muted topic, *)
(* and no watch on an open pull request is done before the first.          *)
RecordedMeansHeard ==
    /\ row.said \in heard
    /\ row.state = "done" => ~pull.open \/ heard # {NoVerdict}

(* Every watch ends, whatever GitHub, Telegram and the checks do: on a     *)
(* verdict, a closed pull, too many errors, or its age (MAX_ERRORS,        *)
(* GIVE_UP_AFTER_MS).                                                      *)
EveryWatchEnds == row.state = "watching" ~> row.state # "watching"

=============================================================================
