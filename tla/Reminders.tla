------------------------------ MODULE Reminders ------------------------------
(***************************************************************************)
(* The wearer's reminders (agent/src/reminders.ts).  A reminder waits for  *)
(* a time or for a person; everything due at once wakes one task, and what *)
(* becomes of a reminder is read off its task.  The wearer cancels         *)
(* reminders and tasks, and corrects what was said, at any moment.         *)
(***************************************************************************)
EXTENDS Integers, FiniteSets

CONSTANTS
    Reminder,
    Somebody,   \* the people a reminder may wait for
    Cites,      \* [Reminder -> the utterance it rests on]
    MaxWakes    \* bound: wake tasks

ASSUME ReminderAssumption == MaxWakes \in Nat

VARIABLES
    reminder,   \* the row of each reminder: its state, its notification, is it due, is it past its day
    wake,       \* the tasks woken so far: the reminders of each, its status, its notification
    withdrawn   \* the utterances that were corrected or deleted

reminderVars == <<reminder, wake, withdrawn>>

None == 0
Wakes == DOMAIN wake
WakesOf(r) == {t \in Wakes : r \in wake[t].for}
Running(t) == wake[t].status = "running"

RemindersInit ==
    /\ reminder = [r \in Reminder |-> [state |-> "none", cause |-> "time", note |-> None, due |-> FALSE, over |-> FALSE]]
    /\ wake = [t \in {} |-> {}]
    /\ withdrawn = {}

(* The assist task's tool: its evidence has to be current. *)
Create(r, cause) ==
    /\ reminder[r].state = "none"
    /\ Cites[r] \notin withdrawn
    /\ reminder' = [reminder EXCEPT ![r].state = "pending", ![r].cause = cause]
    /\ UNCHANGED <<wake, withdrawn>>

(* The due time comes; a day later, a year for a person, the reminder is over. *)
ComesDue(r) ==
    /\ reminder[r].cause = "time" /\ reminder[r].state = "pending" /\ ~reminder[r].due
    /\ reminder' = [reminder EXCEPT ![r].due = TRUE]
    /\ UNCHANGED <<wake, withdrawn>>

GoesBy(r) ==
    /\ reminder[r].state = "pending" /\ ~reminder[r].over /\ (reminder[r].cause = "time" => reminder[r].due)
    /\ reminder' = [reminder EXCEPT ![r].over = TRUE]
    /\ UNCHANGED <<wake, withdrawn>>

-----------------------------------------------------------------------------
(* Waking, and reading the outcome. *)

Queued(row) == [row EXCEPT !.state = "queued"]

(* What the end of a task means for its reminders: a live notification was delivered. *)
Outcome(t) ==
    IF wake[t].note = "live" THEN "delivered"
    ELSE IF wake[t].status = "completed" THEN "resolved"
    ELSE IF wake[t].status = "cancelled" THEN "cancelled" ELSE "failed"

(* A queued reminder with an ended task is settled, with another one still running too; of *)
(* several ended tasks the one read last decides.                                          *)
Reconciled(rows) ==
    LET settled == {r \in Reminder : rows[r].state = "queued" /\ \E t \in WakesOf(r) : ~Running(t)}
    IN \E last \in [settled -> {t \in Wakes : ~Running(t)}] :
         /\ \A r \in settled : last[r] \in WakesOf(r)
         /\ reminder' = [r \in Reminder |->
              IF r \in settled
              THEN [rows[r] EXCEPT !.state = Outcome(last[r]), !.note = IF wake[last[r]].note = "live" THEN last[r] ELSE None]
              ELSE rows[r]]

Expired(rows, candidates) ==
    [r \in Reminder |-> IF rows[r].state = "pending" /\ (rows[r].over \/ (r \in candidates /\ Cites[r] \in withdrawn))
                        THEN [rows[r] EXCEPT !.state = "expired"] ELSE rows[r]]

(* One round of fire() over the reminders of one cause: they wake one task together. *)
Fired(candidates) ==
    LET checked == Expired(reminder, candidates)
        group   == {r \in candidates : checked[r].state = "pending"}
        woken   == [r \in Reminder |-> IF r \in group THEN Queued(checked[r]) ELSE checked[r]]
    IN /\ group # {} => Cardinality(Wakes) < MaxWakes
       /\ wake' = IF group = {} THEN wake
                  ELSE [t \in Wakes \cup {Cardinality(Wakes) + 1} |->
                          IF t \in Wakes THEN wake[t]
                          ELSE [for |-> group, status |-> "running", note |-> "none"]]
       /\ Reconciled(woken)
       /\ UNCHANGED withdrawn

(* Every round of the scheduler. *)
FireTime == Fired({r \in Reminder : reminder[r].cause = "time" /\ reminder[r].due /\ reminder[r].state = "pending"})

(* A person is seen for certain, just now, after the reminder was made; other sightings end in fire() early. *)
FireEncounter(p) == Fired({r \in Reminder : reminder[r].cause = p /\ reminder[r].state = "pending"})

(* The task ends: with a reviewed notification, without one, or it fails, as it does when the review rejects it. *)
WakeEnds(t, status, note) ==
    /\ Running(t)
    /\ note = "live" => status = "completed"
    /\ wake' = [wake EXCEPT ![t].status = status, ![t].note = note]
    /\ UNCHANGED <<reminder, withdrawn>>

-----------------------------------------------------------------------------
(* What the wearer does. *)

(* Cancelling a task withdraws its notification, whether it runs or not. *)
CancelledTasks(tasks) ==
    [t \in Wakes |-> IF t \notin tasks THEN wake[t]
                     ELSE [wake[t] EXCEPT !.status = IF @ = "running" THEN "cancelled" ELSE @,
                                          !.note = IF @ = "live" THEN "withdrawn" ELSE @]]

CancelWake(t) ==
    /\ wake' = CancelledTasks({t})
    /\ UNCHANGED <<reminder, withdrawn>>

\* Mutant: the notification of a reminder that is cancelled stays, its companions wait again.
CancelledWakes_Kept(r) == wake

CancelledWakes(r) == CancelledTasks(WakesOf(r))

(* Cancelling a reminder cancels its tasks; the others they were about wait again. *)
CancelReminder(r) ==
    /\ reminder[r].state # "none"
    /\ wake' = CancelledWakes(r)
    /\ reminder' = [q \in Reminder |->
         CASE q = r -> [reminder[q] EXCEPT !.state = "cancelled"]
           [] q # r /\ reminder[q].state = "queued" /\ WakesOf(q) \cap WakesOf(r) # {} -> [reminder[q] EXCEPT !.state = "pending"]
           [] OTHER -> reminder[q]]
    /\ UNCHANGED withdrawn

(* An utterance changes: its reminders and the tasks that cite it are cancelled. *)
Withdraw(u) ==
    LET hit == {r \in Reminder : Cites[r] = u /\ reminder[r].state # "none"} IN
    /\ u \notin withdrawn
    /\ withdrawn' = withdrawn \cup {u}
    /\ wake' = CancelledTasks({t \in Wakes : wake[t].for \cap hit # {}})
    /\ reminder' = [r \in Reminder |-> IF r \in hit THEN [reminder[r] EXCEPT !.state = "cancelled"] ELSE reminder[r]]

RemindersNext ==
    \/ \E r \in Reminder, cause \in {"time"} \cup Somebody : Create(r, cause)
    \/ \E r \in Reminder : ComesDue(r) \/ GoesBy(r) \/ CancelReminder(r)
    \/ FireTime \/ \E p \in Somebody : FireEncounter(p)
    \/ \E t \in Wakes, status \in {"completed", "failed"}, note \in {"none", "live"} : WakeEnds(t, status, note)
    \/ \E t \in Wakes : CancelWake(t)
    \/ \E r \in Reminder : Withdraw(Cites[r])

(* The scheduler's rounds go on, and tasks end. *)
Rounds == FireTime
TasksEnd == \E t \in Wakes, status \in {"completed", "failed"}, note \in {"none", "live"} : WakeEnds(t, status, note)

RemindersSpec == RemindersInit /\ [][RemindersNext]_reminderVars /\ WF_reminderVars(Rounds) /\ WF_reminderVars(TasksEnd)

-----------------------------------------------------------------------------
RemindersTypeOK ==
    /\ reminder \in [Reminder -> [state: {"none", "pending", "queued", "delivered", "resolved", "failed", "cancelled", "expired"},
                                  cause: {"time"} \cup Somebody,
                                  note: 0..MaxWakes, due: BOOLEAN, over: BOOLEAN]]
    /\ \A t \in Wakes : wake[t] \in [for: SUBSET Reminder, note: {"none", "live", "withdrawn"},
                                      status: {"running", "completed", "failed", "cancelled"}]

(* A reminder is delivered at most once, however often its companions are cancelled *)
(* and however late its task is read: no two notifications about it stand.          *)
RemindedOnce == \A r \in Reminder : Cardinality({t \in WakesOf(r) : wake[t].note = "live"}) <= 1
=============================================================================
