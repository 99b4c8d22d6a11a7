----------------------------- MODULE VoiceNotes -----------------------------
(***************************************************************************)
(* Voice notes: rows of voice_inputs, a few workers that claim the oldest, *)
(* pay a speech vendor for the transcript, and hand it on as a prompt or a *)
(* command (voice/service.py, db/repo/voice_inputs.py).  A row's state is  *)
(* all a second worker sees of the first.  A sweep puts back rows that     *)
(* look abandoned; a person may tap Retry.                                 *)
(***************************************************************************)
EXTENDS Naturals, FiniteSets, FiniteSetsExt

CONSTANTS
    Notes,         \* numbers, in the order the notes arrive
    Workers,       \* voice_max_concurrent
    NoNote,
    MaxAttempts,   \* MAX_ATTEMPTS
    OrphanAfter,   \* ORPHAN_AFTER_MS, in ticks
    Deadline,      \* _JOB_DEADLINE_SECONDS, in ticks
    MaxTaps,       \* Retry taps on one note
    MaxMishaps     \* process deaths and lost writes, in all

VoiceAssumption ==
    /\ Notes \subseteq Nat /\ IsFiniteSet(Notes) /\ IsFiniteSet(Workers) /\ NoNote \notin Notes
    /\ {MaxAttempts, OrphanAfter, Deadline} \subseteq Nat \ {0} /\ {MaxTaps, MaxMishaps} \subseteq Nat

VARIABLES
    note,      \* rows: [state, text, tries, age], age counting from updated_at
    worker,    \* [pc, note, text, age]: the row as claimed, and the job's clock
    billed,    \* vendor calls per note
    prompts,   \* prompt rows per note: the note's action id is the row's key
    taps,      \* Retry taps per note
    mishaps

vars == <<note, worker, billed, prompts, taps, mishaps>>

Queued == {"received", "transcribed"}
InFlight == {"transcribing", "dispatching"}
Settled == {"completed", "failed", "waiting_for_user"}
Free == [pc |-> "idle", note |-> NoNote, text |-> FALSE, age |-> 0]

At(w, pc) == worker[w].pc = pc
To(w, pc) == worker' = [worker EXCEPT ![w].pc = pc]
Rest(w) == worker' = [worker EXCEPT ![w] = Free]
Write(n, state) == note' = [note EXCEPT ![n].state = state, ![n].age = 0]

\* The queue a row goes back to.
QueueOf(n) == IF note[n].text THEN "transcribed" ELSE "received"

\* audio_message, enqueue: inserted once, a repeated update finds the row.
Enqueue(n) ==
    /\ note[n].state = "none" /\ \A m \in Notes : m < n => note[m].state # "none"
    /\ Write(n, "received")
    /\ UNCHANGED <<worker, billed, prompts, taps, mishaps>>

(***************************************************************************)
(* claim_next: the oldest queued row, in one statement.                    *)
(***************************************************************************)
Claim(w, n) ==
    /\ At(w, "idle") /\ note[n].state \in Queued
    /\ \A m \in Notes : m < n => note[m].state \notin Queued
    /\ note' = [note EXCEPT ![n].state = IF @ = "received" THEN "transcribing" ELSE "dispatching",
                            ![n].tries = IF note[n].state = "received" THEN @ + 1 ELSE @, ![n].age = 0]
    /\ worker' = [worker EXCEPT ![w] = [pc |-> "claimed", note |-> n, text |-> note[n].text, age |-> 0]]
    /\ UNCHANGED <<billed, prompts, taps, mishaps>>

(***************************************************************************)
(* How a job ends early.  A verdict of the vendor, or of the note itself,  *)
(* fails it; anything else is retried while attempts are left              *)
(* (retry_after_error); the deadline fails it.  A write may be lost.       *)
(***************************************************************************)
LostWrite(w) == mishaps < MaxMishaps /\ mishaps' = mishaps + 1 /\ UNCHANGED note

Fail(w) ==
    /\ \/ Write(worker[w].note, "failed") /\ UNCHANGED mishaps
       \/ LostWrite(w)
    /\ Rest(w)

Raise(w) ==
    LET n == worker[w].note
    IN  IF note[n].state \in InFlight /\ note[n].tries < MaxAttempts
        THEN /\ note' = [note EXCEPT ![n].state = QueueOf(n), ![n].age = 0,
                                     ![n].tries = IF note[n].text THEN @ + 1 ELSE @]
             /\ Rest(w) /\ UNCHANGED mishaps
        ELSE Fail(w)

Overrun(w) ==
    /\ ~At(w, "idle") /\ worker[w].age = Deadline
    /\ Fail(w)
    /\ UNCHANGED <<billed, prompts, taps>>

(***************************************************************************)
(* _process: download, call the vendor, write the transcript, write that   *)
(* it is being handed on, hand it on, write that it is done.               *)
(***************************************************************************)
Download(w) ==
    /\ At(w, "claimed") /\ ~worker[w].text
    /\ \/ To(w, "calling") /\ billed' = [billed EXCEPT ![worker[w].note] = @ + 1] /\ UNCHANGED <<note, mishaps>>
       \/ (Fail(w) \/ Raise(w)) /\ UNCHANGED billed      \* no key, too large; Telegram unreachable
    /\ UNCHANGED <<prompts, taps>>

Transcribed(w) ==
    /\ At(w, "calling")
    /\ \/ /\ note' = [note EXCEPT ![worker[w].note] = [@ EXCEPT !.state = "transcribed", !.text = TRUE, !.age = 0]]
          /\ To(w, "marked") /\ UNCHANGED mishaps
       \/ Fail(w)                                        \* refused, silent, unclear
    /\ UNCHANGED <<billed, prompts, taps>>

Resume(w) ==
    /\ At(w, "claimed") /\ worker[w].text /\ To(w, "marked")
    /\ UNCHANGED <<note, billed, prompts, taps, mishaps>>

HandOn(w) ==
    /\ At(w, "marked")
    /\ Write(worker[w].note, "dispatching") /\ To(w, "dispatching")
    /\ UNCHANGED <<billed, prompts, taps, mishaps>>

\* _dispatch: an empty or unclear note, or one that asks for a confirmation,
\* is left to the person, and then they are told so.
Ask(w) ==
    /\ At(w, "dispatching")
    /\ Write(worker[w].note, "waiting_for_user") /\ To(w, "asking")
    /\ UNCHANGED <<billed, prompts, taps, mishaps>>

\* Mutant: a message id is drawn for each submission.
RecordedAnew(n) == [prompts EXCEPT ![n] = @ + 1]

\* submit_prompt under the row's action_id: ON CONFLICT DO NOTHING.
Recorded(n) == [prompts EXCEPT ![n] = 1]

\* _prompt: a bound seat's prompt is recorded, and then posted; the tail of
\* the handler is _send, which may fail after it.
Prompt(w) ==
    /\ At(w, "dispatching")
    /\ prompts' = Recorded(worker[w].note) /\ To(w, "answering")
    /\ UNCHANGED <<note, billed, taps, mishaps>>

\* _command, _offer_task, the search, the hints and the shadow mode: an answer
\* is sent and nothing of this model changes.
Command(w) ==
    /\ At(w, "dispatching") /\ To(w, "answering")
    /\ UNCHANGED <<note, billed, prompts, taps, mishaps>>

\* The answer is sent; complete is the last write of a terminal dispatch.
Answer(w) ==
    /\ \/ At(w, "answering") /\ Write(worker[w].note, "completed") /\ Rest(w)
       \/ At(w, "asking") /\ Rest(w) /\ UNCHANGED note
    /\ UNCHANGED <<billed, prompts, taps, mishaps>>

\* Whatever is raised on the way that is no verdict.
Stumble(w) ==
    /\ worker[w].pc \in {"dispatching", "answering", "asking"}
    /\ Raise(w)
    /\ UNCHANGED <<billed, prompts, taps>>

(***************************************************************************)
(* recover_stale, at boot and every two minutes: rows untouched for the    *)
(* orphan window are put back, or given up when their attempts are spent.  *)
(***************************************************************************)
Stale(n) == note[n].state \in InFlight /\ note[n].age >= OrphanAfter

Recovered(n) ==
    [note[n] EXCEPT !.state = IF note[n].tries >= MaxAttempts THEN "failed" ELSE QueueOf(n), !.age = 0]

\* Mutant: the sweep asks the pool that has no tenant, and sees no row.
SweepBlind ==
    /\ \E n \in Notes : Stale(n)
    /\ UNCHANGED vars

Sweep ==
    /\ \E n \in Notes : Stale(n)
    /\ note' = [n \in Notes |-> IF Stale(n) THEN Recovered(n) ELSE note[n]]
    /\ UNCHANGED <<worker, billed, prompts, taps, mishaps>>

\* retry_voice, requeue.
Retry(n) ==
    /\ note[n].state \in {"failed", "waiting_for_user"} /\ taps[n] < MaxTaps
    /\ Write(n, QueueOf(n))
    /\ taps' = [taps EXCEPT ![n] = @ + 1]
    /\ UNCHANGED <<worker, billed, prompts, mishaps>>

\* Kept for days: no worker is still at it.
Prune(n) ==
    /\ note[n].state \in Settled /\ \A w \in Workers : worker[w].note # n
    /\ Write(n, "pruned")
    /\ UNCHANGED <<worker, billed, prompts, taps, mishaps>>

\* Clocks stop where nothing is left to compare them with.
Tick ==
    /\ \A w \in Workers : worker[w].age < Deadline
    /\ \E n \in Notes : note[n].state \in InFlight
    /\ note' = [n \in Notes |-> [note[n] EXCEPT !.age = IF note[n].state \in InFlight /\ @ < OrphanAfter THEN @ + 1 ELSE @]]
    /\ worker' = [w \in Workers |-> [worker[w] EXCEPT !.age = IF worker[w].pc = "idle" THEN 0 ELSE @ + 1]]
    /\ UNCHANGED <<billed, prompts, taps, mishaps>>

Crash ==
    /\ mishaps < MaxMishaps /\ mishaps' = mishaps + 1
    /\ \E w \in Workers : ~At(w, "idle")
    /\ worker' = [w \in Workers |-> Free]
    /\ UNCHANGED <<note, billed, prompts, taps>>

Init ==
    /\ note = [n \in Notes |-> [state |-> "none", text |-> FALSE, tries |-> 0, age |-> 0]]
    /\ worker = [w \in Workers |-> Free]
    /\ billed = [n \in Notes |-> 0] /\ prompts = [n \in Notes |-> 0] /\ taps = [n \in Notes |-> 0]
    /\ mishaps = 0

Work(w) ==
    \/ \E n \in Notes : Claim(w, n)
    \/ Download(w) \/ Transcribed(w) \/ Resume(w) \/ HandOn(w) \/ Ask(w) \/ Prompt(w) \/ Command(w)
    \/ Answer(w) \/ Stumble(w) \/ Overrun(w)

Next ==
    \/ \E n \in Notes : Enqueue(n) \/ Retry(n) \/ Prune(n)
    \/ \E w \in Workers : Work(w)
    \/ Sweep \/ Tick \/ Crash

Spec == Init /\ [][Next]_vars

(* Workers and the sweep are loops that catch everything; time passes.     *)
Fairness == (\A w \in Workers : WF_vars(Work(w))) /\ WF_vars(Sweep) /\ WF_vars(Tick)

FairSpec == Spec /\ Fairness

(***************************************************************************)
(* Properties.                                                             *)
(***************************************************************************)
(* Types.                                                                  *)
TypeOK ==
    /\ note \in [Notes -> [state : {"none", "pruned"} \cup Queued \cup InFlight \cup Settled, text : BOOLEAN,
                           tries : 0 .. MaxAttempts + MaxTaps, age : 0 .. OrphanAfter]]
    /\ worker \in [Workers -> [pc : {"idle", "claimed", "calling", "marked", "dispatching", "answering", "asking"},
                               note : Notes \cup {NoNote}, text : BOOLEAN, age : 0 .. Deadline]]
    /\ {billed, prompts} \subseteq [Notes -> Nat]
    /\ taps \in [Notes -> 0 .. MaxTaps] /\ mishaps \in 0 .. MaxMishaps

(* Whatever crashes, overruns or is claimed twice, the vendor is paid for  *)
(* a note no more often than its attempts allow, plus once for each time   *)
(* the person asked again (claim_next, retry_after_error, recover_stale).  *)
BilledWithinBudget == \A n \in Notes : billed[n] <= MaxAttempts + taps[n]

(* However often it is dispatched - again after an error, by the sweep, by  *)
(* a second worker, on a Retry - a note is one prompt (action_id).         *)
OnePromptPerNote == \A n \in Notes : prompts[n] <= 1

(* As long as jobs finish within the orphan window, no note is left on     *)
(* "Transcribing...": each one that was accepted is done, failed, pruned,  *)
(* or waits for the person, whatever was lost in between (recover_stale).  *)
(* Without the premise two slow workers can pass a note back and forth for *)
(* ever, because the window is shorter than a job's deadline.              *)
Quick == \A w \in Workers : worker[w].age < OrphanAfter
Unanswered(n) == note[n].state \in Queued \cup InFlight
EveryNoteIsAnswered == <>[]Quick => \A n \in Notes : Unanswered(n) ~> ~Unanswered(n)

=============================================================================
