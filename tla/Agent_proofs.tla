---------------------------- MODULE Agent_proofs ----------------------------
(***************************************************************************)
(* Parts of the agent, for values of any size: workspaces of the runner    *)
(* (Runner), reminders (Reminders), updates on the page (Notices), pushes  *)
(* (WebPush), the gallery of its own camera (AgentGallery), its page       *)
(* (AgentPage), its archive and history (Archive).                         *)
(*                                                                         *)
(* A workspace that is gone leaves nothing running: close() ends it two    *)
(* steps after it has looked at the processes (CloseStages), only one that *)
(* is open or closing has anything in it (Bare), and AfterDispose is what  *)
(* remains after dispose().                                                *)
(*                                                                         *)
(* No two notifications about a reminder stand (RemindedOnce).  A          *)
(* notification stands when its task has ended, so the invariant is about  *)
(* tasks that may still bring one (Hot): a reminder that waits has none    *)
(* (Cold), one that is queued has a single task (OneTask), and whatever    *)
(* becomes of it later it never has two that are hot (OneHot).  OneTask is *)
(* what makes cancelReminder() right to let the companions wait again.     *)
(* What is acknowledged was seen (AckedWasSeen): a page that is closed has *)
(* nothing under way (NoticesInv).  A push is sent to whom it is meant for *)
(* (PushIsHonest): what is being sent stands in the row it was read from,  *)
(* or the row was withdrawn meanwhile (FlushRound, Unsent), and what was   *)
(* taken is counted as unheard until the row says so (RowStands, Untold).  *)
(*                                                                         *)
(* What was derived is gone with its source: a frame at the face service   *)
(* has left nothing in the ledger yet (StillToCome), a row of the gallery  *)
(* depends on all it refers to (Sources), a labelled frame rests on all    *)
(* that its label rests on (Labels).                                       *)
(*                                                                         *)
(* A page that asks for a session has no timer that would ask as well      *)
(* (FeedInv).  What is written to a file is the hour as it was at a        *)
(* version no export has reached (WritingHolds); what was found is what    *)
(* was the latest up to the cursor, and what is not the latest of its      *)
(* event any more never is again (SearchHolds, NeverLatestAgain).          *)
(***************************************************************************)
EXTENDS Runner, Reminders, Notices, WebPush, AgentGallery, AgentPage, Archive,
        FiniteSetTheorems, SequenceTheorems, TLAPS


-----------------------------------------------------------------------------
(* The runner *)

WorkspaceRecord ==
    workspace \in [at : {"none", "creating", "open", "closed"}, id : 0..MaxWorkspaces]

Bare == workspace.at \in {"none", "creating"} => ~context /\ ProcessesOver

CloseStages ==
    /\ workspace.at = "none" => closing = "no"
    /\ closing \in {"processes", "page"} <=> workspace.at = "closed"
    /\ closing = "page" => ProcessesOver

AfterDispose == disposal = "done" => workspace.at = "none" /\ theBrowser = "none"

RunnerInv == WorkspaceRecord /\ RunnerTypeOK /\ Bare /\ CloseStages /\ AfterDispose

-----------------------------------------------------------------------------
LEMMA RunnerStarts == RunnerInit => RunnerInv
  BY RunnerAssumption
     DEF RunnerInit, RunnerInv, WorkspaceRecord, RunnerTypeOK, Bare, CloseStages, AfterDispose, NoSession, ProcessesOver

LEMMA RunnerStep == RunnerInv /\ [RunnerNext]_runnerVars => RunnerInv'
<1> SUFFICES ASSUME RunnerInv, [RunnerNext]_runnerVars PROVE RunnerInv'
  OBVIOUS
<1> USE RunnerAssumption DEF RunnerInv, WorkspaceRecord, RunnerTypeOK, Bare, CloseStages, AfterDispose, ProcessesOver
(* Calls. *)
<1>1. ASSUME NEW c \in RunnerCall, CallArrives(c) PROVE RunnerInv'
  <2>1. CASE disposal # "no" \/ closing # "no"
    BY <1>1, <2>1 DEF CallArrives
  <2>2. CASE ~ (disposal # "no" \/ closing # "no") /\ workspace.at = "none"
    BY <1>1, <2>2 DEF CallArrives
  <2>3. CASE ~ (disposal # "no" \/ closing # "no") /\ workspace.at # "none"
    BY <1>1, <2>3 DEF CallArrives
  <2> QED
    BY <2>1, <2>2, <2>3
<1>2. ASSUME NEW c \in RunnerCall, TurnedAway(c) PROVE RunnerInv'
  BY <1>2 DEF TurnedAway
<1>3. ASSUME NEW c \in RunnerCall, Browse(c) PROVE RunnerInv'
  BY <1>3 DEF Browse, Entering, MayEnter
<1>4. ASSUME NEW c \in RunnerCall, BrowseEnds(c) PROVE RunnerInv'
  BY <1>4 DEF BrowseEnds
<1>5. ASSUME NEW c \in RunnerCall, AbortCall(c) PROVE RunnerInv'
  BY <1>5 DEF AbortCall
<1>6. ASSUME NEW c \in RunnerCall, NEW j \in Process, Execute(c, j) PROVE RunnerInv'
  BY <1>6 DEF Execute, Entering, MayEnter
(* Processes and the browser. *)
<1>7. ASSUME NEW j \in Process, ProcessEnds(j) PROVE RunnerInv'
  BY <1>7 DEF ProcessEnds
<1>8. CASE SessionCreated
  BY <1>8 DEF SessionCreated
<1>9. CASE SessionFails
  BY <1>9 DEF SessionFails
<1>10. CASE BrowserLaunched
  BY <1>10 DEF BrowserLaunched
<1>11. CASE PageGoesOn
  <2>1. taskPage' \in {"none", "browser", "context", "open"}
    BY <1>11 DEF PageGoesOn
  <2>2. UNCHANGED <<workspace, closing, process, theBrowser, disposal>>
    BY <1>11 DEF PageGoesOn
  <2>3. CASE workspace.at \in {"none", "creating"}
    <3>1. workspace.at # "open"
      BY <2>3
    <3>2. ~ context'
      BY <1>11, <2>3, <3>1, Zenon DEF PageGoesOn
    <3> QED
      BY <2>1, <2>2, <3>2
  <2>4. CASE workspace.at \notin {"none", "creating"}
    BY <2>1, <2>2, <2>4
  <2> QED
    BY <2>3, <2>4
<1>12. CASE BrowserCrashes
  BY <1>12 DEF BrowserCrashes
(* CloseStages. *)
<1>13. CASE TaskEnds
  BY <1>13 DEF TaskEnds
<1>14. CASE CloseStarts
  BY <1>14 DEF CloseStarts
<1>15. CASE CloseMarks
  BY <1>15 DEF CloseMarks
<1>16. CASE CloseWaits
  BY <1>16 DEF CloseWaits
<1>17. CASE CloseEnds
  BY <1>17 DEF CloseEnds
<1>18. CASE Dispose
  BY <1>18 DEF Dispose
<1>19. CASE Disposed
  BY <1>19 DEF Disposed
<1>20. CASE UNCHANGED runnerVars
  BY <1>20 DEF runnerVars
<1> QED
  BY <1>1, <1>2, <1>3, <1>4, <1>5, <1>6, <1>7, <1>8, <1>9, <1>10, <1>11, <1>12, <1>13,
     <1>14, <1>15, <1>16, <1>17, <1>18, <1>19, <1>20 DEF RunnerNext

LEMMA RunnerInvariant == RunnerSpec => []RunnerInv
  BY RunnerStarts, RunnerStep, PTL DEF RunnerSpec

-----------------------------------------------------------------------------
(* The runner's state keeps its type, whatever calls arrive while a workspace is made or *)
(* closed (agent/src/runner.ts:session, close).                                          *)
THEOREM RunnerTypes == RunnerSpec => []RunnerTypeOK
<1>1. RunnerInv => RunnerTypeOK
  BY DEF RunnerInv
<1> QED
  BY <1>1, RunnerInvariant, PTL

(* When close() has ended a workspace, no process and no page of it is left, and a runner *)
(* that dispose() has stopped has no session and no browser, in whatever order calls are  *)
(* aborted, sessions fail and browsers crash (agent/src/runner.ts:close, dispose).        *)
THEOREM WorkspacesLeaveNothing == RunnerSpec => []NothingRunsOn
<1>1. RunnerInv => NothingRunsOn
  BY DEF RunnerInv, Bare, AfterDispose, NothingRunsOn, ProcessesOver, RunnerTypeOK
<1> QED
  BY <1>1, RunnerInvariant, PTL

-----------------------------------------------------------------------------
(* Reminders *)

RowOfReminder ==
    [state : {"none", "pending", "queued", "delivered", "resolved", "failed", "cancelled", "expired"},
     cause : {"time"} \cup Somebody, note : 0..MaxWakes, due : BOOLEAN, over : BOOLEAN]
WakeTask ==
    [for : SUBSET Reminder, note : {"none", "live", "withdrawn"},
     status : {"running", "completed", "failed", "cancelled"}]

ReminderRows == reminder \in [Reminder -> RowOfReminder]
Tasks == \E n \in 0..MaxWakes : wake \in [1..n -> WakeTask]

\* The task may still bring a notification, or has brought one that stands.
Hot(t) == wake[t].status = "running" \/ wake[t].note = "live"

Cold == \A r \in Reminder : \A t \in WakesOf(r) : reminder[r].state \in {"none", "pending"} => ~Hot(t)
OneTask == \A r \in Reminder : \A t, u \in WakesOf(r) : reminder[r].state = "queued" => t = u
OneHot == \A r \in Reminder : \A t, u \in WakesOf(r) : Hot(t) /\ Hot(u) => t = u

RemindersInv == ReminderRows /\ Tasks /\ Cold /\ OneTask /\ OneHot

-----------------------------------------------------------------------------
LEMMA RemindersStart == RemindersInit => RemindersInv
<1> SUFFICES ASSUME RemindersInit PROVE RemindersInv
  OBVIOUS
<1>1. ReminderRows
  BY ReminderAssumption DEF RemindersInit, ReminderRows, RowOfReminder, None
<1>2. wake \in [1..0 -> WakeTask]
  BY DEF RemindersInit
<1>3. Tasks
  BY <1>2, ReminderAssumption DEF Tasks
<1>4. Wakes = {}
  BY <1>2 DEF Wakes
<1> QED
  BY <1>1, <1>3, <1>4 DEF RemindersInv, Cold, OneTask, OneHot, WakesOf

\* The new task has a number of its own.
LEMMA NewNumber ==
  ASSUME NEW n \in Nat, Wakes = 1..n
  PROVE  Cardinality(Wakes) = n
<1> QED
  BY FS_Interval DEF Wakes

\* A change of the rows alone that queues no reminder, and makes none wait that has a hot task.
LEMMA RowsChange ==
  ASSUME RemindersInv, ReminderRows', UNCHANGED wake,
         \A r \in Reminder : reminder'[r].state = "queued" => reminder[r].state = "queued",
         \A r \in Reminder : reminder'[r].state \in {"none", "pending"} => reminder[r].state \in {"none", "pending"}
  PROVE  RemindersInv'
<1>1. \A t : Hot(t)' <=> Hot(t)
  BY DEF Hot
<1>2. \A r : WakesOf(r)' = WakesOf(r)
  BY DEF WakesOf, Wakes
<1>3. Tasks'
  BY DEF RemindersInv, Tasks
<1>4. Cold' /\ OneTask' /\ OneHot'
  BY <1>1, <1>2 DEF RemindersInv, Cold, OneTask, OneHot
<1> QED
  BY <1>3, <1>4 DEF RemindersInv

\* Tasks that only end or are cancelled.
LEMMA TasksCool ==
  ASSUME RemindersInv, ReminderRows', NEW f, f = wake', Tasks', DOMAIN wake' = DOMAIN wake,
         \A t \in Wakes : wake'[t].for = wake[t].for,
         \A t \in Wakes : Hot(t)' => Hot(t),
         \A r \in Reminder : reminder'[r].state = "queued" => reminder[r].state = "queued",
         \A r \in Reminder : \A t \in WakesOf(r) :
             reminder'[r].state \in {"none", "pending"} => ~Hot(t)' \/ reminder[r].state \in {"none", "pending"}
  PROVE  RemindersInv'
<1>1. \A r : WakesOf(r)' = WakesOf(r)
  BY DEF WakesOf, Wakes
<1>2. \A r : WakesOf(r) \subseteq Wakes
  BY DEF WakesOf
<1>3. Cold'
  BY <1>1, <1>2 DEF RemindersInv, Cold
<1>4. OneTask' /\ OneHot'
  BY <1>1, <1>2 DEF RemindersInv, OneTask, OneHot
<1> QED
  BY <1>3, <1>4 DEF RemindersInv

-----------------------------------------------------------------------------
(* Waking. *)

LEMMA FiredKeepsInv ==
  ASSUME RemindersInv, NEW candidates \in SUBSET Reminder, Fired(candidates)
  PROVE  RemindersInv'
<1> DEFINE checked == Expired(reminder, candidates)
           group == {r \in candidates : checked[r].state = "pending"}
           woken == [r \in Reminder |-> IF r \in group THEN Queued(checked[r]) ELSE checked[r]]
           settled == {r \in Reminder : woken[r].state = "queued" /\ \E t \in WakesOf(r) : ~Running(t)}
           new == Cardinality(Wakes) + 1
<1>1. PICK n \in 0..MaxWakes : wake \in [1..n -> WakeTask]
  BY DEF RemindersInv, Tasks
<1>2. n \in Nat /\ Wakes = 1..n /\ Cardinality(Wakes) = n
  BY <1>1, ReminderAssumption, NewNumber DEF Wakes
<1>3. /\ group # {} => n < MaxWakes
      /\ wake' = IF group = {} THEN wake
                 ELSE [t \in Wakes \cup {new} |->
                         IF t \in Wakes THEN wake[t] ELSE [for |-> group, status |-> "running", note |-> "none"]]
      /\ Reconciled(woken)
  BY <1>2 DEF Fired
<1>4. PICK last \in [settled -> {t \in Wakes : ~Running(t)}] :
         reminder' = [r \in Reminder |->
              IF r \in settled
              THEN [woken[r] EXCEPT !.state = Outcome(last[r]), !.note = IF wake[last[r]].note = "live" THEN last[r] ELSE None]
              ELSE woken[r]]
  BY <1>3 DEF Reconciled
<1>5. checked \in [Reminder -> RowOfReminder]
  BY DEF RemindersInv, ReminderRows, RowOfReminder, Expired
<1>6. woken \in [Reminder -> RowOfReminder]
  BY <1>5 DEF Queued, RowOfReminder
<1>7. \A r \in settled : last[r] \in 1..n /\ last[r] \in 0..MaxWakes
  BY <1>2, ReminderAssumption
<1>8. \A r \in settled : Outcome(last[r]) \in {"delivered", "resolved", "cancelled", "failed"}
  BY DEF Outcome
<1>9. ASSUME NEW r \in Reminder PROVE reminder'[r] \in RowOfReminder
  <2>1. CASE r \in settled
    <3>1. (IF wake[last[r]].note = "live" THEN last[r] ELSE None) \in 0..MaxWakes
      BY <1>7, <2>1, ReminderAssumption DEF None
    <3>2. reminder'[r] = [woken[r] EXCEPT !.state = Outcome(last[r]), !.note = IF wake[last[r]].note = "live" THEN last[r] ELSE None]
      BY <1>4, <2>1
    <3> HIDE DEF woken, settled
    <3> QED
      BY <1>6, <1>8, <2>1, <3>1, <3>2 DEF RowOfReminder
  <2>2. CASE r \notin settled
    <3> HIDE DEF woken, settled
    <3> QED
      BY <1>4, <1>6, <2>2
  <2> QED
    BY <2>1, <2>2
<1>10. ReminderRows'
  BY <1>4, <1>9 DEF ReminderRows
\* What the states after the round say of the states before.
<1>11. ASSUME NEW r \in Reminder PROVE
          /\ reminder'[r].state \in {"none", "pending"} => r \notin group /\ reminder[r].state \in {"none", "pending"}
          /\ reminder'[r].state = "queued" =>
                /\ r \notin group => reminder[r].state = "queued"
                /\ \A t \in WakesOf(r) : Running(t)
          /\ r \in group => reminder[r].state = "pending"
  <2>1. reminder[r] \in RowOfReminder
    BY DEF RemindersInv, ReminderRows
  <2>2. checked[r] = reminder[r] \/ (checked[r].state = "expired" /\ reminder[r].state = "pending")
    BY <2>1 DEF Expired, RowOfReminder
  <2>3. r \in group => woken[r].state = "queued"
    BY <1>5 DEF Queued, RowOfReminder
  <2>4. r \notin group => woken[r] = checked[r]
    OBVIOUS
  <2>5. r \in group => reminder[r].state = "pending"
    BY <2>2
  <2>6. r \in settled => reminder'[r].state \in {"delivered", "resolved", "cancelled", "failed"}
    <3> SUFFICES ASSUME r \in settled PROVE reminder'[r].state = Outcome(last[r])
      BY <1>8
    <3> HIDE DEF woken, settled
    <3> QED
      BY <1>4, <1>6 DEF RowOfReminder
  <2>7. r \notin settled => reminder'[r] = woken[r]
    BY <1>4
  <2>8. r \notin settled /\ woken[r].state = "queued" => \A t \in WakesOf(r) : Running(t)
    OBVIOUS
  <2> HIDE DEF checked, group, woken, settled
  <2> QED
    BY <2>2, <2>3, <2>4, <2>5, <2>6, <2>7, <2>8
<1>12. CASE group = {}
  <2>1. wake' = wake
    BY <1>3, <1>12
  <2> HIDE DEF group, woken, settled, checked
  <2> QED
    BY <1>10, <1>11, <1>12, <2>1, RowsChange
<1>13. CASE group # {}
  <2> HIDE DEF checked
  <2>1. /\ n + 1 \in 0..MaxWakes
        /\ Wakes \cup {new} = 1..(n + 1)
        /\ new = n + 1 /\ new \notin Wakes
    BY <1>2, <1>3, <1>13, ReminderAssumption
  <2>2. group \subseteq Reminder
    OBVIOUS
  <2>3. /\ DOMAIN wake' = Wakes \cup {new}
        /\ \A t \in Wakes : wake'[t] = wake[t]
        /\ wake'[new] = [for |-> group, status |-> "running", note |-> "none"]
    BY <1>3, <1>13, <2>1
  <2> HIDE DEF group, woken, settled, new
  <2>4. wake' \in [1..(n + 1) -> WakeTask]
    <3>1. \A t \in 1..(n + 1) : wake'[t] \in WakeTask
      BY <1>1, <1>2, <2>1, <2>2, <2>3 DEF WakeTask
    <3>2. wake' = [t \in 1..(n + 1) |-> wake'[t]]
      BY <1>3, <1>13, <2>1
    <3> QED
      BY <3>1, <3>2
  <2>5. Tasks'
    BY <2>1, <2>4 DEF Tasks
  <2>6. \A r \in Reminder : WakesOf(r)' = IF r \in group THEN WakesOf(r) \cup {new} ELSE WakesOf(r)
    BY <2>1, <2>3 DEF WakesOf, Wakes
  <2>7. \A t \in Wakes : Hot(t)' <=> Hot(t)
    BY <2>3 DEF Hot
  <2>8. \A r : WakesOf(r) \subseteq Wakes
    BY DEF WakesOf
  <2>9. Cold'
    BY <1>11, <2>6, <2>7, <2>8 DEF RemindersInv, Cold
  <2>10. \A r \in group : \A t \in WakesOf(r) : ~Hot(t)
    BY <1>11, <2>2 DEF RemindersInv, Cold
  <2>11. \A r \in group : WakesOf(r) # {} => reminder'[r].state # "queued"
    BY <1>11, <2>2, <2>10 DEF Hot, Running
  <2>12. OneTask'
    BY <1>11, <2>6, <2>11 DEF RemindersInv, OneTask
  <2>13. OneHot'
    BY <2>6, <2>7, <2>8, <2>10 DEF RemindersInv, OneHot
  <2> QED
    BY <1>10, <2>5, <2>9, <2>12, <2>13 DEF RemindersInv
<1> QED
  BY <1>12, <1>13

-----------------------------------------------------------------------------
(* Tasks that end or are cancelled. *)

CancelledOne(w) == [w EXCEPT !.status = IF @ = "running" THEN "cancelled" ELSE @,
                             !.note = IF @ = "live" THEN "withdrawn" ELSE @]

LEMMA CancelledOneIs ==
  ASSUME NEW w \in WakeTask
  PROVE  /\ CancelledOne(w) \in WakeTask /\ CancelledOne(w).for = w.for
         /\ CancelledOne(w).status # "running" /\ CancelledOne(w).note # "live"
BY DEF CancelledOne, WakeTask

\* Cancelling tasks leaves none of them hot, and the others as they were.
LEMMA CancelledCool ==
  ASSUME RemindersInv, NEW tasks, wake' = CancelledTasks(tasks)
  PROVE  /\ Tasks' /\ DOMAIN wake' = DOMAIN wake
         /\ \A t \in Wakes : wake'[t].for = wake[t].for
         /\ \A t \in Wakes : Hot(t)' => Hot(t)
         /\ \A t \in Wakes \cap tasks : ~Hot(t)'
<1>1. PICK n \in 0..MaxWakes : wake \in [1..n -> WakeTask]
  BY DEF RemindersInv, Tasks
<1>2. Wakes = 1..n
  BY <1>1 DEF Wakes
<1>3. \A t \in 1..n : wake'[t] = IF t \notin tasks THEN wake[t] ELSE CancelledOne(wake[t])
  BY <1>2 DEF CancelledTasks, CancelledOne
<1>4. \A t \in 1..n : wake[t] \in WakeTask
  BY <1>1
<1>5. \A t \in 1..n :
         /\ wake'[t] \in WakeTask
         /\ wake'[t].for = wake[t].for
         /\ t \notin tasks => wake'[t] = wake[t]
         /\ t \in tasks => wake'[t].status # "running" /\ wake'[t].note # "live"
  <2> SUFFICES ASSUME NEW t \in 1..n
               PROVE  /\ wake'[t] \in WakeTask
                      /\ wake'[t].for = wake[t].for
                      /\ t \notin tasks => wake'[t] = wake[t]
                      /\ t \in tasks => wake'[t].status # "running" /\ wake'[t].note # "live"
    OBVIOUS
  <2>1. CASE t \in tasks
    BY <2>1, <1>3, <1>4, CancelledOneIs
  <2>2. CASE t \notin tasks
    BY <2>2, <1>3, <1>4
  <2> QED
    BY <2>1, <2>2
<1>6. wake' = [t \in 1..n |-> wake'[t]]
  BY <1>2 DEF CancelledTasks
<1>7. wake' \in [1..n -> WakeTask]
  BY <1>5, <1>6
<1> QED
  BY <1>2, <1>5, <1>7 DEF Tasks, Wakes, Hot

LEMMA WakeEndsKeepsInv ==
  ASSUME RemindersInv, NEW t \in Wakes, NEW status \in {"completed", "failed"}, NEW note \in {"none", "live"},
         WakeEnds(t, status, note)
  PROVE  RemindersInv'
<1>1. PICK n \in 0..MaxWakes : wake \in [1..n -> WakeTask]
  BY DEF RemindersInv, Tasks
<1>2. Wakes = 1..n
  BY <1>1 DEF Wakes
<1>3. wake' = [wake EXCEPT ![t].status = status, ![t].note = note] /\ UNCHANGED reminder /\ wake[t].status = "running"
  BY DEF WakeEnds, Running
<1>4. wake' \in [1..n -> WakeTask]
  BY <1>1, <1>2, <1>3 DEF WakeTask
<1>5. \A u \in Wakes : wake'[u].for = wake[u].for /\ (u # t => wake'[u] = wake[u])
  BY <1>1, <1>2, <1>3 DEF WakeTask
<1>6. \A u \in Wakes : Hot(u)' => Hot(u)
  BY <1>3, <1>5 DEF Hot
<1>7. Tasks' /\ DOMAIN wake' = DOMAIN wake
  BY <1>1, <1>4 DEF Tasks
<1>8. ReminderRows'
  BY <1>3 DEF RemindersInv, ReminderRows
<1> QED
  BY <1>3, <1>5, <1>6, <1>7, <1>8, TasksCool

LEMMA CancelWakeKeepsInv ==
  ASSUME RemindersInv, NEW t \in Wakes, CancelWake(t)
  PROVE  RemindersInv'
<1>1. wake' = CancelledTasks({t}) /\ UNCHANGED reminder
  BY DEF CancelWake
<1>2. ReminderRows'
  BY <1>1 DEF RemindersInv, ReminderRows
<1> QED
  BY <1>1, <1>2, CancelledCool, TasksCool

LEMMA CancelReminderKeepsInv ==
  ASSUME RemindersInv, NEW r \in Reminder, CancelReminder(r)
  PROVE  RemindersInv'
<1>1. wake' = CancelledTasks(WakesOf(r))
  BY DEF CancelReminder, CancelledWakes
<1>2. ASSUME NEW q \in Reminder PROVE
         /\ reminder'[q] \in RowOfReminder
         /\ reminder'[q].state = "queued" => reminder[q].state = "queued"
         /\ reminder'[q].state \in {"none", "pending"} =>
               \/ reminder[q].state \in {"none", "pending"}
               \/ reminder[q].state = "queued" /\ WakesOf(q) \cap WakesOf(r) # {}
  <2>1. reminder[q] \in RowOfReminder
    BY DEF RemindersInv, ReminderRows
  <2>2. CASE q = r
    BY <2>1, <2>2 DEF CancelReminder, RowOfReminder
  <2>3. CASE q # r /\ reminder[q].state = "queued" /\ WakesOf(q) \cap WakesOf(r) # {}
    BY <2>1, <2>3 DEF CancelReminder, RowOfReminder
  <2>4. CASE q # r /\ ~ (reminder[q].state = "queued" /\ WakesOf(q) \cap WakesOf(r) # {})
    BY <2>1, <2>4 DEF CancelReminder, RowOfReminder
  <2> QED
    BY <2>2, <2>3, <2>4
<1>3. ReminderRows'
  <2>1. reminder' = [q \in Reminder |-> reminder'[q]]
    BY DEF CancelReminder
  <2> QED
    BY <1>2, <2>1 DEF ReminderRows
<1>4. \A q \in Reminder : WakesOf(q) \subseteq Wakes
  BY DEF WakesOf
<1>5. \A t \in WakesOf(r) : ~Hot(t)'
  BY <1>1, <1>4, CancelledCool
\* The only task of a companion that waits again is cancelled.
<1>6. ASSUME NEW q \in Reminder, NEW t \in WakesOf(q), reminder'[q].state \in {"none", "pending"}
      PROVE  ~Hot(t)' \/ reminder[q].state \in {"none", "pending"}
  <2>1. CASE reminder[q].state = "queued" /\ WakesOf(q) \cap WakesOf(r) # {}
    <3>1. PICK u \in WakesOf(q) : u \in WakesOf(r)
      BY <2>1
    <3>2. t = u
      BY <2>1, <3>1 DEF RemindersInv, OneTask
    <3> QED
      BY <1>5, <3>1, <3>2
  <2> QED
    BY <1>2, <1>6, <2>1
<1> QED
  BY <1>1, <1>2, <1>3, <1>6, CancelledCool, TasksCool

LEMMA WithdrawKeepsInv ==
  ASSUME RemindersInv, NEW u, Withdraw(u)
  PROVE  RemindersInv'
<1> DEFINE hit == {r \in Reminder : Cites[r] = u /\ reminder[r].state # "none"}
<1>1. wake' = CancelledTasks({t \in Wakes : wake[t].for \cap hit # {}})
  BY DEF Withdraw
<1>2. reminder' = [r \in Reminder |-> IF r \in hit THEN [reminder[r] EXCEPT !.state = "cancelled"] ELSE reminder[r]]
  BY DEF Withdraw
<1> HIDE DEF hit
<1>3. ASSUME NEW r \in Reminder PROVE
         /\ reminder'[r] \in RowOfReminder
         /\ reminder'[r].state = "queued" => reminder[r].state = "queued"
         /\ reminder'[r].state \in {"none", "pending"} => reminder[r].state \in {"none", "pending"}
  <2>1. reminder[r] \in RowOfReminder
    BY DEF RemindersInv, ReminderRows
  <2> QED
    BY <1>2, <2>1 DEF RowOfReminder
<1>4. ReminderRows'
  BY <1>2, <1>3 DEF ReminderRows
<1> QED
  BY <1>1, <1>3, <1>4, CancelledCool, TasksCool

-----------------------------------------------------------------------------
LEMMA ATurnedRow ==
  ASSUME NEW row \in RowOfReminder
  PROVE  /\ [row EXCEPT !.due = TRUE] \in RowOfReminder
         /\ [row EXCEPT !.over = TRUE] \in RowOfReminder
         /\ [row EXCEPT !.due = TRUE].state = row.state
         /\ [row EXCEPT !.over = TRUE].state = row.state
  BY DEF RowOfReminder

LEMMA TimeTurns ==
  ASSUME ReminderRows, NEW r \in Reminder,
         \/ reminder' = [reminder EXCEPT ![r].due = TRUE]
         \/ reminder' = [reminder EXCEPT ![r].over = TRUE]
  PROVE  /\ ReminderRows'
         /\ \A q \in Reminder : reminder'[q].state = reminder[q].state
<1>1. PICK row : row = reminder'[r] /\ reminder' = [reminder EXCEPT ![r] = row]
                 /\ row \in {[reminder[r] EXCEPT !.due = TRUE], [reminder[r] EXCEPT !.over = TRUE]}
  BY DEF ReminderRows
<1>2. reminder[r] \in RowOfReminder /\ reminder \in [Reminder -> RowOfReminder]
  BY DEF ReminderRows
<1>3. row \in RowOfReminder /\ row.state = reminder[r].state
  <2> DEFINE was == reminder[r]
  <2>1. was \in RowOfReminder /\ row \in {[was EXCEPT !.due = TRUE], [was EXCEPT !.over = TRUE]}
    BY <1>1, <1>2
  <2> HIDE DEF was
  <2>2. row \in RowOfReminder /\ row.state = was.state
    BY <2>1, ATurnedRow
  <2> QED
    BY <2>2 DEF was
<1> QED
  BY <1>1, <1>2, <1>3 DEF ReminderRows

LEMMA RemindersStep == RemindersInv /\ [RemindersNext]_reminderVars => RemindersInv'
<1> SUFFICES ASSUME RemindersInv, [RemindersNext]_reminderVars PROVE RemindersInv'
  OBVIOUS
<1>1. ASSUME NEW r \in Reminder, NEW cause \in {"time"} \cup Somebody, Create(r, cause) PROVE RemindersInv'
  <2>1. reminder' = [reminder EXCEPT ![r].state = "pending", ![r].cause = cause]
        /\ reminder[r].state = "none" /\ UNCHANGED wake
    BY <1>1 DEF Create
  <2>2. ReminderRows'
    BY <2>1 DEF RemindersInv, ReminderRows, RowOfReminder
  <2>3. \A q \in Reminder : reminder'[q].state = IF q = r THEN "pending" ELSE reminder[q].state
    BY <2>1 DEF RemindersInv, ReminderRows, RowOfReminder
  <2>4. \A q \in Reminder : reminder'[q].state = "queued" => reminder[q].state = "queued"
    BY <2>3
  <2>5. \A q \in Reminder : reminder'[q].state \in {"none", "pending"} => reminder[q].state \in {"none", "pending"}
    BY <2>1, <2>3
  <2> QED
    BY <2>1, <2>2, <2>4, <2>5, RowsChange
<1>2. ASSUME NEW r \in Reminder, ComesDue(r) \/ GoesBy(r) PROVE RemindersInv'
  <2>1. (reminder' = [reminder EXCEPT ![r].due = TRUE] \/ reminder' = [reminder EXCEPT ![r].over = TRUE]) /\ UNCHANGED wake
    BY <1>2 DEF ComesDue, GoesBy
  <2>2. ReminderRows
    BY DEF RemindersInv
  <2>3. /\ ReminderRows'
        /\ \A q \in Reminder : reminder'[q].state = reminder[q].state
    BY <2>1, <2>2, TimeTurns
  <2>4. /\ \A q \in Reminder : reminder'[q].state = "queued" => reminder[q].state = "queued"
        /\ \A q \in Reminder : reminder'[q].state \in {"none", "pending"} => reminder[q].state \in {"none", "pending"}
    BY <2>3
  <2> QED
    BY <2>1, <2>3, <2>4, RowsChange
<1>3. ASSUME NEW r \in Reminder, CancelReminder(r) PROVE RemindersInv'
  BY <1>3, CancelReminderKeepsInv
<1>4. CASE FireTime
  BY <1>4, FiredKeepsInv DEF FireTime
<1>5. ASSUME NEW p \in Somebody, FireEncounter(p) PROVE RemindersInv'
  BY <1>5, FiredKeepsInv DEF FireEncounter
<1>6. ASSUME NEW t \in Wakes, NEW status \in {"completed", "failed"}, NEW note \in {"none", "live"}, WakeEnds(t, status, note)
      PROVE  RemindersInv'
  BY <1>6, WakeEndsKeepsInv
<1>7. ASSUME NEW t \in Wakes, CancelWake(t) PROVE RemindersInv'
  BY <1>7, CancelWakeKeepsInv
<1>8. ASSUME NEW r \in Reminder, Withdraw(Cites[r]) PROVE RemindersInv'
  BY <1>8, WithdrawKeepsInv
<1>9. CASE UNCHANGED reminderVars
  BY <1>9, RowsChange DEF reminderVars, RemindersInv, ReminderRows
<1> QED
  BY <1>1, <1>2, <1>3, <1>4, <1>5, <1>6, <1>7, <1>8, <1>9 DEF RemindersNext

LEMMA RemindersMean == RemindersInv => RemindersTypeOK
  BY DEF RemindersInv, ReminderRows, Tasks, RemindersTypeOK, RowOfReminder, WakeTask, Wakes

LEMMA RemindersInvariant == RemindersSpec => []RemindersInv
  BY RemindersStart, RemindersStep, PTL DEF RemindersSpec

-----------------------------------------------------------------------------
(* Reminders and the tasks they wake keep their types (agent/src/reminders.ts:fire, *)
(* reconcile, cancelReminder).                                                      *)
THEOREM RemindersTypes == RemindersSpec => []RemindersTypeOK
<1> QED
  BY RemindersMean, RemindersInvariant, PTL

(* No two notifications about a reminder stand, however often its companions are   *)
(* cancelled and however late its task is read (agent/src/reminders.ts:reconcile). *)
THEOREM OnlyOneReminder == RemindersSpec => []RemindedOnce
<1>1. RemindersInv => RemindedOnce
  <2> SUFFICES ASSUME RemindersInv, NEW r \in Reminder
               PROVE  Cardinality({t \in WakesOf(r) : wake[t].note = "live"}) <= 1
    BY DEF RemindedOnce
  <2> DEFINE live == {t \in WakesOf(r) : wake[t].note = "live"}
  <2>1. \A t, u \in live : t = u
    BY DEF RemindersInv, OneHot, Hot
  <2> SUFFICES Cardinality(live) <= 1
    OBVIOUS
  <2> HIDE DEF live
  <2>2. CASE live = {}
    BY <2>2, FS_EmptySet
  <2>3. CASE live # {}
    <3>1. PICK t : t \in live
      BY <2>3
    <3>2. live = {t}
      BY <2>1, <3>1
    <3>3. Cardinality(live) = 1
      BY <3>2, FS_Singleton, Zenon
    <3> QED
      BY <3>3
  <2> QED
    BY <2>2, <2>3
<1> QED
  BY <1>1, RemindersInvariant, PTL

-----------------------------------------------------------------------------
(* Updates on the page *)

\* What is being acknowledged was seen; a page that is closed has nothing under way and shows
\* nothing as acknowledged.
NoticesInv ==
    /\ NoticesTypeOK /\ AckedWasSeen
    /\ ackedHere \subseteq Notice /\ acking \subseteq Notice /\ posted \subseteq [of: Notice, why: {"in front", "hidden", "not shown", "opened"}]
    /\ acking \subseteq seenByWearer
    /\ page = "closed" => ackedHere = {} /\ acking = {}
    /\ stream \in [up : BOOLEAN, sent : SUBSET Notice]
    /\ pushed \subseteq Notice /\ banner \subseteq Notice /\ shown \subseteq Notice

LEMMA StreamSends ==
    ASSUME NEW st \in [up : BOOLEAN, sent : SUBSET Notice], NEW now \in SUBSET Notice
    PROVE  /\ [st EXCEPT !.sent = now] \in [up : BOOLEAN, sent : SUBSET Notice]
           /\ [up |-> FALSE, sent |-> now] \in [up : BOOLEAN, sent : SUBSET Notice]
<1> QED
  OBVIOUS

LEMMA NoticesStep == NoticesInv /\ [NoticesNext]_noticeVars => NoticesInv'
<1> SUFFICES ASSUME NoticesInv, [NoticesNext]_noticeVars PROVE NoticesInv'
  OBVIOUS
<1> DEFINE State == {"none", "pending", "acked", "withdrawn"}
           Post == [of : Notice, why : {"in front", "hidden", "not shown", "opened"}]
<1>i. /\ notice \in [Notice -> State] /\ posted \subseteq Post /\ page \in {"closed", "hidden", "live", "other"}
      /\ ackedHere \subseteq shown /\ acking \subseteq seenByWearer
      /\ \A n \in Notice : notice[n] = "acked" => n \in seenByWearer
      /\ \A n \in Notice : n \in ackedHere => notice[n] = "acked"
      /\ page = "closed" => ackedHere = {} /\ acking = {}
      /\ stream \in [up : BOOLEAN, sent : SUBSET Notice]
      /\ pushed \subseteq Notice /\ banner \subseteq Notice /\ shown \subseteq Notice
      /\ acking \subseteq Notice
  BY DEF NoticesInv, NoticesTypeOK, AckedWasSeen
<1>n. ASSUME notice' \in [Notice -> State], posted' \subseteq Post, page' \in {"closed", "hidden", "live", "other"},
             ackedHere' \subseteq shown', acking' \subseteq seenByWearer',
             \A n \in Notice : notice'[n] = "acked" => n \in seenByWearer',
             \A n \in Notice : n \in ackedHere' => notice'[n] = "acked",
             page' = "closed" => ackedHere' = {} /\ acking' = {},
             stream' \in [up : BOOLEAN, sent : SUBSET Notice],
             pushed' \subseteq Notice, banner' \subseteq Notice, shown' \subseteq Notice, acking' \subseteq Notice
      PROVE  NoticesInv'
  BY <1>n DEF NoticesInv, NoticesTypeOK, AckedWasSeen
<1>c. Current \subseteq Notice
  BY DEF Current
<1> USE <1>i
<1>1. ASSUME NEW n \in Notice, Notify(n) PROVE NoticesInv'
  <2>1. /\ \A k \in Notice : notice'[k] = IF k = n THEN "pending" ELSE notice[k]
        /\ notice' \in [Notice -> State]
    BY <1>1 DEF Notify
  <2> QED
    BY <1>n, <1>1, <2>1 DEF Notify
<1>2. ASSUME NEW n \in Notice, TakeBack(n) PROVE NoticesInv'
  <2>1. /\ \A k \in Notice : notice'[k] = IF k = n THEN "withdrawn" ELSE notice[k]
        /\ notice' \in [Notice -> State]
    BY <1>2 DEF TakeBack
  <2> QED
    BY <1>n, <1>2, <2>1 DEF TakeBack
<1>3. ASSUME NEW n \in Notice, Push(n) \/ ShowBanner(n) \/ BannerFails(n) PROVE NoticesInv'
  <2>1. PICK why \in {"in front", "hidden", "not shown"} : posted' \subseteq posted \cup {[of |-> n, why |-> why]}
    BY <1>3 DEF Push, ShowBanner, BannerFails
  <2>2. [of |-> n, why |-> why] \in Post
    OBVIOUS
  <2>3. posted' \subseteq Post
    BY <2>1, <2>2
  <2>4. pushed' \subseteq Notice /\ banner' \subseteq Notice
    BY <1>3 DEF Push, ShowBanner, BannerFails
  <2>5. UNCHANGED <<notice, page, shown, ackedHere, acking, stream, seenByWearer>>
    BY <1>3 DEF Push, ShowBanner, BannerFails
  <2> QED
    BY <1>n, <2>3, <2>4, <2>5
<1>4. ASSUME NEW n \in Notice, Click(n) PROVE NoticesInv'
  <2>1. [of |-> n, why |-> "opened"] \in Post
    OBVIOUS
  <2>3. ackedHere \subseteq shown'
    BY <1>4 DEF Click
  <2>2. page' \in {"closed", "hidden", "live", "other"} /\ shown' \subseteq Notice
    BY <1>4, <1>c DEF Click
  <2> QED
    BY <1>n, <1>4, <2>1, <2>2, <2>3 DEF Click
<1>5. ASSUME NEW n \in Notice, PressAck(n) PROVE NoticesInv'
  BY <1>n, <1>5 DEF PressAck
<1>6. ASSUME NEW m \in posted, Message(m) PROVE NoticesInv'
  <2>1. m.of \in Notice
    OBVIOUS
  <2> QED
    BY <1>n, <1>6, <2>1 DEF Message, Displayed
<1>7. ASSUME NEW n \in acking, Acknowledged(n) PROVE NoticesInv'
  <2>1. /\ \A k \in Notice : notice'[k] = IF k = n /\ notice[k] = "pending" THEN "acked" ELSE notice[k]
        /\ notice' \in [Notice -> State] /\ n \in Notice /\ n \in seenByWearer
    BY <1>7 DEF Acknowledged
  <2>2. ackedHere' \subseteq shown /\ \A k \in Notice : k \in ackedHere' => notice'[k] = "acked"
    BY <1>7, <2>1 DEF Acknowledged, Confirmed
  <2> QED
    BY <1>n, <1>7, <2>1, <2>2 DEF Acknowledged
<1>8. CASE StreamOpens \/ StreamTick
  <2>1. stream' \in [up : BOOLEAN, sent : SUBSET Notice]
    <3>1. CASE StreamOpens
      BY <3>1 DEF StreamOpens, FreshStream
    <3>2. CASE StreamTick
      <4>1. Current \in SUBSET Notice
        BY <1>c
      <4>2. stream' = [stream EXCEPT !.sent = Current] \/ stream' = [up |-> FALSE, sent |-> Current]
        BY <3>2 DEF StreamTick
      <4> QED
        BY <4>1, <4>2, StreamSends
    <3> QED
      BY <1>8, <3>1, <3>2
  <2>2. shown \subseteq shown' /\ shown' \subseteq Notice
    BY <1>8, <1>c DEF StreamOpens, StreamTick
  <2> QED
    BY <1>n, <1>8, <2>1, <2>2 DEF StreamOpens, StreamTick
<1>9. CASE Hide
  BY <1>n, <1>9 DEF Hide, InFront
<1>10. CASE ClosePage
  <2>1. PICK handled \in SUBSET acking :
           notice' = [n \in Notice |-> IF n \in handled /\ notice[n] = "pending" THEN "acked" ELSE notice[n]]
    BY <1>10 DEF ClosePage
  <2>2. /\ notice' \in [Notice -> State]
        /\ \A n \in Notice : notice'[n] = "acked" => n \in seenByWearer
    BY <2>1
  <2> QED
    BY <1>n, <1>10, <2>2 DEF ClosePage
<1>11. ASSUME NEW view \in {"live", "other"}, LookAt(view) PROVE NoticesInv'
  BY <1>n, <1>11 DEF LookAt, Current
<1>12. CASE UNCHANGED noticeVars
  BY <1>n, <1>12 DEF noticeVars
<1> QED
  BY <1>1, <1>2, <1>3, <1>4, <1>5, <1>6, <1>7, <1>8, <1>9, <1>10, <1>11, <1>12 DEF NoticesNext

LEMMA NoticesStart == NoticesInit => NoticesInv
  BY DEF NoticesInit, NoticesInv, NoticesTypeOK, AckedWasSeen

LEMMA NoticesInvariant == NoticesSpec => []NoticesInv
  BY NoticesStart, NoticesStep, PTL DEF NoticesSpec

\* An update is acknowledged only after its row was before the wearer's eyes or was opened,
\* and the page shows it as acknowledged only if it is: over streams that break, pushes to a
\* page in any state, and answers that are lost (main.ts, sw.js, agentFeed.ts).
THEOREM AcksAreOfSeen == NoticesSpec => []AckedWasSeen
<1>1. NoticesInv => AckedWasSeen
  BY DEF NoticesInv
<1> QED
  BY <1>1, NoticesInvariant, PTL

-----------------------------------------------------------------------------
(* Pushes *)

PushRow == [state : {"none", "pending", "sent", "failed"}, attempts : 0..MaxPushAttempts, waits : BOOLEAN]
FlushRow ==
    [on : BOOLEAN, todo : SUBSET Endpoint, dev : Endpoint \cup {NoEndpoint}, list : SUBSET Update,
     sending : Update \cup {NoUpdate}, taken : BOOLEAN]
Takings == [times : Nat, unheard : Nat]
ControllerRow ==
    [kind : {"none", "prepare", "sync", "ask", "record", "disable", "forget"},
     sub : Endpoint \cup {NoEndpoint}, prepared : BOOLEAN, subscribed : BOOLEAN,
     says : {"off", "trouble", "ready", "enabled", "kept"}]

PushTypes ==
    /\ update \in [Update -> {"none", "pending", "gone"}]
    /\ pushService \in Endpoint \cup {NoEndpoint} /\ alive \subseteq Endpoint /\ known \subseteq Endpoint
    /\ delivery \in [Endpoint -> [Update -> PushRow]]
    /\ accepted \in [Endpoint -> [Update -> Takings]]
    /\ round \in FlushRow /\ ctl \in ControllerRow

\* The operation that has asked the agent to keep an endpoint is about the one the browser holds.
Controller ==
    /\ ctl.kind \in {"sync", "record"} => ctl.sub = pushService /\ ctl.sub \in Endpoint
    /\ ctl.kind = "forget" =>
         ctl.sub \in Endpoint /\ ctl.sub # NoEndpoint /\ pushService \in {ctl.sub, NoEndpoint}
    /\ ctl.kind = "none" =>
         /\ ctl.says = "enabled" => pushService \in known \/ pushService \notin alive
         /\ ctl.says = "off" => pushService = NoEndpoint
         /\ ctl.says = "kept" => pushService # NoEndpoint /\ pushService \notin known

\* A row that waits to be sent has attempts left; the agent has heard of one push that was taken,
\* or of none, and that is what the row says.
RowStands(row, got) ==
    /\ row.state = "none" => row = NoDelivery /\ got = Never
    /\ row.state = "pending" => row.attempts < MaxPushAttempts
    /\ got.times = got.unheard + (IF row.state = "sent" THEN 1 ELSE 0)
DeliveryRows == \A d \in Endpoint, n \in Update : RowStands(delivery[d][n], accepted[d][n])

\* What the flush is sending to a subscription waits there, unless the subscription went; and when
\* it was taken, the agent has not heard of that.
Unsent(d, n) == delivery[d][n].state \in {"none", "pending"}
Untold(d, n) == delivery[d][n].state = "pending" => accepted[d][n].unheard > 0
FlushRound ==
    /\ round.list # {} \/ round.sending # NoUpdate => round.dev \in Endpoint
    /\ round.sending # NoUpdate => Unsent(round.dev, round.sending)
    /\ round.taken => round.sending # NoUpdate /\ Untold(round.dev, round.sending)

PushInv == PushTypes /\ Controller /\ DeliveryRows /\ FlushRound

LEMMA NoDeliveryStands ==
  NoDelivery \in PushRow /\ Never \in Takings /\ RowStands(NoDelivery, Never) /\ NoDelivery.state = "none"
<1> QED
  BY PushAssumption DEF NoDelivery, Never, PushRow, Takings, RowStands

\* One row of the deliveries is written.
LEMMA RowWritten ==
  ASSUME PushTypes, DeliveryRows, NEW d \in Endpoint, NEW n \in Update, NEW row \in PushRow, NEW got \in Takings,
         RowStands(row, got),
         delivery' = [delivery EXCEPT ![d][n] = row],
         accepted' = [accepted EXCEPT ![d][n] = got]
  PROVE  /\ delivery' \in [Endpoint -> [Update -> PushRow]] /\ accepted' \in [Endpoint -> [Update -> Takings]]
         /\ DeliveryRows'
<1>1. \A e \in Endpoint, m \in Update :
         /\ delivery'[e][m] = IF e = d /\ m = n THEN row ELSE delivery[e][m]
         /\ accepted'[e][m] = IF e = d /\ m = n THEN got ELSE accepted[e][m]
  BY DEF PushTypes
<1>2. /\ delivery' \in [Endpoint -> [Update -> PushRow]] /\ accepted' \in [Endpoint -> [Update -> Takings]]
  BY DEF PushTypes
<1>3. DeliveryRows'
  BY <1>1 DEF DeliveryRows
<1> QED
  BY <1>1, <1>2, <1>3

\* A subscription goes, and with it its rows.
LEMMA WithdrawnRows ==
  ASSUME PushTypes, DeliveryRows, NEW d \in Endpoint, WithdrawnHere(d)
  PROVE  /\ delivery' \in [Endpoint -> [Update -> PushRow]] /\ accepted' \in [Endpoint -> [Update -> Takings]]
         /\ DeliveryRows'
         /\ \A e \in Endpoint, n \in Update : (Unsent(e, n) => Unsent(e, n)') /\ (Untold(e, n) => Untold(e, n)')
<1>1. \A e \in Endpoint, n \in Update :
         /\ delivery'[e][n] = IF e = d THEN NoDelivery ELSE delivery[e][n]
         /\ accepted'[e][n] = IF e = d THEN Never ELSE accepted[e][n]
  BY DEF WithdrawnHere, PushTypes
<1>2. /\ delivery' \in [Endpoint -> [Update -> PushRow]] /\ accepted' \in [Endpoint -> [Update -> Takings]]
  BY NoDeliveryStands DEF WithdrawnHere, PushTypes
<1>3. DeliveryRows'
  BY <1>1, NoDeliveryStands DEF DeliveryRows
<1>4. \A e \in Endpoint, n \in Update : (Unsent(e, n) => Unsent(e, n)') /\ (Untold(e, n) => Untold(e, n)')
  BY <1>1, NoDeliveryStands DEF Unsent, Untold
<1> QED
  BY <1>2, <1>3, <1>4

\* A step of the page that leaves the rows alone.
LEMMA PageKeeps ==
  ASSUME PushInv, UNCHANGED <<update, delivery, round, accepted>>, alive' \subseteq alive,
         pushService' \in Endpoint \cup {NoEndpoint}, known' \subseteq Endpoint, ctl' \in ControllerRow, Controller'
  PROVE  PushInv'
<1>1. PushTypes'
  BY DEF PushInv, PushTypes
<1>2. DeliveryRows' /\ FlushRound'
  BY DEF PushInv, DeliveryRows, FlushRound, Unsent, Untold
<1> QED
  BY <1>1, <1>2 DEF PushInv

\* A step of the agent: a subscription only goes when its endpoint is dead.
LEMMA AgentKeeps ==
  ASSUME PushInv, UNCHANGED <<pushService, ctl>>, alive' \subseteq alive,
         update' \in [Update -> {"none", "pending", "gone"}], round' \in FlushRow,
         delivery' \in [Endpoint -> [Update -> PushRow]], accepted' \in [Endpoint -> [Update -> Takings]],
         DeliveryRows', FlushRound', known' \subseteq known,
         \A d \in known : d \in known' \/ d \notin alive
  PROVE  PushInv'
<1>1. PushTypes'
  BY DEF PushInv, PushTypes
<1>2. Controller'
  BY DEF PushInv, Controller
<1> QED
  BY <1>1, <1>2 DEF PushInv

LEMMA PageSteps ==
  ASSUME PushInv, \/ Prepare \/ Enable \/ Disable \/ NotReady \/ PrepareLooks
                  \/ Sync \/ AskToSubscribe \/ Record \/ Undo
  PROVE  PushInv'
<1>t. PushTypes /\ Controller /\ ctl \in ControllerRow /\ alive \subseteq Endpoint
  BY DEF PushInv, PushTypes
<1>1. CASE Prepare \/ Enable \/ Disable
  <2>1. PICK kind \in {"prepare", "ask", "disable"} : Starts(kind)
    BY <1>1 DEF Prepare, Enable, Disable
  <2>2. ctl' \in ControllerRow /\ ctl'.kind = kind
    BY <2>1, <1>t DEF Starts, ControllerRow
  <2> QED
    BY <1>t, <2>1, <2>2, PageKeeps DEF Starts, Controller, PushTypes
<1>2. CASE NotReady
  <2>1. ctl' \in ControllerRow /\ ctl'.kind = "none" /\ ctl'.says = "trouble"
    BY <1>2, <1>t DEF NotReady, Ends, ControllerRow
  <2> QED
    BY <1>2, <1>t, <2>1, PageKeeps DEF NotReady, Controller, PushTypes
<1>3. CASE PrepareLooks
  <2>1. /\ UNCHANGED <<update, delivery, round, accepted, known>> /\ alive' \subseteq alive
        /\ pushService' \in {pushService, NoEndpoint}
    BY <1>3 DEF PrepareLooks, BrowserDrops
  <2>2. CASE /\ pushService # NoEndpoint /\ UNCHANGED pushService
             /\ ctl' = [ctl EXCEPT !.kind = "sync", !.sub = pushService]
    <3>1. ctl' \in ControllerRow /\ ctl'.kind = "sync" /\ ctl'.sub = pushService
      BY <2>2, <1>t DEF ControllerRow, PushTypes
    <3> QED
      BY <1>t, <2>1, <2>2, <3>1, PageKeeps DEF Controller, PushTypes
  <2>3. CASE ctl' = [ctl EXCEPT !.kind = "none", !.prepared = TRUE, !.subscribed = FALSE, !.says = "ready"]
    <3>1. ctl' \in ControllerRow /\ ctl'.kind = "none" /\ ctl'.says = "ready"
      BY <2>3, <1>t DEF ControllerRow
    <3> QED
      BY <1>t, <2>1, <3>1, PageKeeps DEF Controller, PushTypes
  <2> QED
    BY <1>3, <2>2, <2>3 DEF PrepareLooks
<1>4. CASE Sync
  <2>1. ctl.sub = pushService /\ pushService \in Endpoint
    BY <1>4, <1>t DEF Sync, Step, Controller
  <2>2. PICK ok \in BOOLEAN :
           /\ IF ok THEN Recorded(ctl.sub) ELSE Recorded(ctl.sub) \/ UNCHANGED known
           /\ ctl' = [ctl EXCEPT !.kind = "none", !.sub = NoEndpoint, !.prepared = TRUE, !.subscribed = TRUE,
                                 !.says = Synced(ok)]
           /\ UNCHANGED <<update, pushService, alive, delivery, round, accepted>>
    BY <1>4 DEF Sync
  <2>3. Synced(ok) \in {"enabled", "trouble"} /\ (Synced(ok) = "enabled" => ok)
    BY DEF Synced
  <2>4. ctl' \in ControllerRow /\ ctl'.kind = "none" /\ ctl'.says = Synced(ok)
    BY <2>2, <2>3, <1>t DEF ControllerRow
  <2>5. known' \subseteq Endpoint /\ (ok => pushService \in known')
    BY <2>1, <2>2, <1>t DEF Recorded, PushTypes
  <2> QED
    BY <1>t, <2>2, <2>3, <2>4, <2>5, PageKeeps DEF Controller, PushTypes
<1>5. CASE AskToSubscribe
  <2>1. UNCHANGED <<update, delivery, round, accepted, alive, known>>
    BY <1>5 DEF AskToSubscribe
  <2>2. CASE Ends("ready") /\ UNCHANGED pushService
    <3>1. ctl' \in ControllerRow /\ ctl'.kind = "none" /\ ctl'.says = "ready"
      BY <2>2, <1>t DEF Ends, ControllerRow
    <3> QED
      BY <1>t, <2>1, <2>2, <3>1, PageKeeps DEF Controller, PushTypes
  <2>3. CASE /\ \/ pushService # NoEndpoint /\ UNCHANGED pushService
                \/ pushService = NoEndpoint /\ pushService' \in alive
             /\ ctl' = [ctl EXCEPT !.kind = "record", !.sub = pushService']
    <3>1. pushService' \in Endpoint
      BY <2>3, <1>t DEF PushTypes
    <3>2. ctl' \in ControllerRow /\ ctl'.kind = "record" /\ ctl'.sub = pushService'
      BY <2>3, <1>t, <3>1 DEF ControllerRow
    <3> QED
      BY <1>t, <2>1, <3>1, <3>2, PageKeeps DEF Controller, PushTypes
  <2> QED
    BY <1>5, <2>2, <2>3 DEF AskToSubscribe
<1>6. CASE Record
  <2>1. ctl.sub = pushService /\ pushService \in Endpoint
    BY <1>6, <1>t DEF Record, Step, Controller
  <2>2. UNCHANGED <<update, delivery, round, accepted>>
    BY <1>6 DEF Record
  <2>3. CASE /\ Recorded(ctl.sub) /\ UNCHANGED <<pushService, alive>>
             /\ ctl' = [ctl EXCEPT !.kind = "none", !.sub = NoEndpoint, !.subscribed = TRUE, !.says = "enabled"]
    <3>1. ctl' \in ControllerRow /\ ctl'.kind = "none"
      BY <2>3, <1>t DEF ControllerRow
    <3> QED
      BY <1>t, <2>1, <2>2, <2>3, <3>1, PageKeeps DEF Recorded, Controller, PushTypes
  <2>4. CASE /\ Recorded(ctl.sub) \/ UNCHANGED known
             /\ BrowserDrops \/ UNCHANGED <<pushService, alive>>
             /\ Ends("trouble")
    <3>1. ctl' \in ControllerRow /\ ctl'.kind = "none" /\ ctl'.says = "trouble"
      BY <2>4, <1>t DEF Ends, ControllerRow
    <3>2. known' \subseteq Endpoint /\ alive' \subseteq alive /\ pushService' \in Endpoint \cup {NoEndpoint}
      BY <1>t, <2>1, <2>4 DEF Recorded, BrowserDrops, PushTypes
    <3> QED
      BY <2>2, <3>1, <3>2, PageKeeps DEF Controller
  <2> QED
    BY <1>6, <2>3, <2>4 DEF Record
<1>7. CASE Undo
  <2>1. UNCHANGED <<update, known, delivery, round, accepted>>
    BY <1>7 DEF Undo
  <2>2. CASE /\ pushService = NoEndpoint /\ UNCHANGED <<pushService, alive>>
             /\ ctl' = [ctl EXCEPT !.kind = "none", !.subscribed = FALSE, !.says = "off"]
    <3>1. ctl' \in ControllerRow /\ ctl'.kind = "none" /\ ctl'.says = "off"
      BY <2>2, <1>t DEF ControllerRow
    <3> QED
      BY <1>t, <2>1, <2>2, <3>1, PageKeeps DEF Controller, PushTypes
  <2>3. CASE /\ pushService # NoEndpoint
             /\ ctl' = [ctl EXCEPT !.kind = "forget", !.sub = pushService]
             /\ BrowserDrops \/ UNCHANGED <<pushService, alive>>
    <3>1. ctl' \in ControllerRow /\ ctl'.kind = "forget" /\ ctl'.sub = pushService
      BY <2>3, <1>t DEF ControllerRow, PushTypes
    <3>2. /\ alive' \subseteq alive /\ pushService' \in Endpoint \cup {NoEndpoint} /\ pushService \in Endpoint
          /\ pushService' \in {pushService, NoEndpoint}
      BY <1>t, <2>3 DEF BrowserDrops, PushTypes
    <3>3. Controller'
      BY <2>3, <3>1, <3>2 DEF Controller
    <3> QED
      BY <1>t, <2>1, <3>1, <3>2, <3>3, PageKeeps DEF PushTypes
  <2> QED
    BY <1>7, <2>2, <2>3 DEF Undo
<1> QED
  BY <1>1, <1>2, <1>3, <1>4, <1>5, <1>6, <1>7

LEMMA ForgetKeeps == ASSUME PushInv, ForgetSubscription PROVE PushInv'
<1>t. PushTypes /\ Controller /\ DeliveryRows /\ FlushRound /\ ctl \in ControllerRow
  BY DEF PushInv, PushTypes
<1>1. PICK ok \in BOOLEAN :
         /\ WithdrawnHere(ctl.sub) \/ (~ok /\ UNCHANGED <<known, delivery, accepted>>)
         /\ ctl' = [ctl EXCEPT !.kind = "none", !.sub = NoEndpoint, !.subscribed = (pushService = ctl.sub),
                               !.says = UndoSays(ok)]
         /\ UNCHANGED <<update, pushService, alive, round>>
  BY DEF ForgetSubscription
<1>2. ctl.sub \in Endpoint
  BY <1>t DEF ForgetSubscription, Step, Controller
<1>3. (pushService = ctl.sub) \in BOOLEAN
  OBVIOUS
<1>4. ctl' \in ControllerRow /\ ctl'.kind = "none" /\ ctl'.says = UndoSays(ok) /\ UndoSays(ok) # "enabled"
  <2>1. UndoSays(ok) \in {"trouble", "kept", "off"}
    BY DEF UndoSays
  <2> QED
    BY <1>1, <1>3, <1>t, <2>1 DEF ControllerRow
<1>8. Controller'
  <2>1. pushService \in {ctl.sub, NoEndpoint}
    BY <1>t DEF ForgetSubscription, Step, Controller
  <2>2. UndoSays(ok) = "off" => pushService = NoEndpoint
    BY <2>1 DEF UndoSays
  <2>3. UndoSays(ok) = "kept" => ok /\ pushService = ctl.sub
    BY DEF UndoSays
  <2>4. UndoSays(ok) = "kept" => pushService' \notin known' /\ pushService' # NoEndpoint
    BY <1>1, <1>2, <1>t, <2>3 DEF WithdrawnHere, ForgetSubscription, Step, Controller, PushTypes
  <2> QED
    BY <1>1, <1>4, <2>2, <2>4 DEF Controller
<1>5. /\ delivery' \in [Endpoint -> [Update -> PushRow]] /\ accepted' \in [Endpoint -> [Update -> Takings]]
      /\ DeliveryRows' /\ known' \subseteq Endpoint
      /\ \A e \in Endpoint, n \in Update : (Unsent(e, n) => Unsent(e, n)') /\ (Untold(e, n) => Untold(e, n)')
  <2>1. CASE WithdrawnHere(ctl.sub)
    BY <1>t, <1>2, <2>1, WithdrawnRows DEF WithdrawnHere, PushTypes
  <2>2. CASE UNCHANGED <<known, delivery, accepted>>
    BY <1>t, <2>2 DEF PushTypes, DeliveryRows, Unsent, Untold
  <2> QED
    BY <1>1, <2>1, <2>2
<1>6. PushTypes'
  BY <1>1, <1>4, <1>5, <1>t DEF PushTypes
<1>7. FlushRound'
  <2>1. round.sending # NoUpdate => round.dev \in Endpoint /\ round.sending \in Update
    BY <1>t DEF FlushRound, PushTypes, FlushRow
  <2> QED
    BY <1>1, <1>5, <1>t, <2>1 DEF FlushRound
<1> QED
  BY <1>5, <1>6, <1>7, <1>8 DEF PushInv

LEMMA TryKeeps == ASSUME PushInv, Try PROVE PushInv'
<1>t. PushTypes /\ DeliveryRows /\ FlushRound /\ round \in FlushRow
  BY DEF PushInv, PushTypes
<1> PICK n \in round.list :
       /\ delivery' = [delivery EXCEPT ![round.dev][n] = Listed(round.dev, n)]
       /\ round' = [round EXCEPT !.list = @ \ {n},
                      !.sending = IF Listed(round.dev, n).state = "pending" /\ ~Listed(round.dev, n).waits
                                       /\ n \in Pending /\ round.dev \in known THEN n ELSE NoUpdate]
       /\ round.sending = NoUpdate
       /\ UNCHANGED <<update, pushService, alive, known, ctl, accepted>>
  BY DEF Try
<1> DEFINE d == round.dev
           row == Listed(d, n)
<1>1. d \in Endpoint /\ n \in Update
  BY <1>t DEF FlushRound, FlushRow
<1>2. delivery[d][n] \in PushRow /\ RowStands(delivery[d][n], accepted[d][n]) /\ accepted[d][n] \in Takings
  BY <1>1, <1>t DEF PushTypes, DeliveryRows
<1>3. row \in PushRow /\ RowStands(row, accepted[d][n])
  <2>1. NewRow \in PushRow /\ NewRow.state = "pending" /\ NewRow.attempts = 0
    <3>1. NoDelivery \in PushRow /\ NoDelivery.attempts = 0
      BY NoDeliveryStands DEF NoDelivery
    <3> QED
      BY <3>1 DEF NewRow, PushRow
  <2>2. RowStands(NewRow, Never)
    BY <2>1, PushAssumption DEF RowStands, Never
  <2>3. delivery[d][n] = NoDelivery => accepted[d][n] = Never
    BY <1>2, NoDeliveryStands DEF RowStands
  <2> QED
    BY <1>2, <2>1, <2>2, <2>3 DEF Listed
<1>4. accepted' = [accepted EXCEPT ![d][n] = accepted[d][n]]
  BY <1>1, <1>t DEF PushTypes
<1>5. round' \in FlushRow /\ round'.dev = d /\ round'.sending \in {n, NoUpdate} /\ ~round'.taken
      /\ (round'.sending # NoUpdate => row.state = "pending")
  BY <1>1, <1>t DEF FlushRow, FlushRound
<1> HIDE DEF row
<1>6. /\ delivery' \in [Endpoint -> [Update -> PushRow]] /\ accepted' \in [Endpoint -> [Update -> Takings]]
      /\ DeliveryRows' /\ delivery'[d][n] = row
  <2>1. delivery' = [delivery EXCEPT ![d][n] = row]
    BY DEF row
  <2>2. delivery'[d][n] = row
    BY <1>1, <1>t, <2>1 DEF PushTypes
  <2>3. accepted[d][n] \in Takings
    BY <1>2
  <2> HIDE DEF d
  <2>4. /\ delivery' \in [Endpoint -> [Update -> PushRow]] /\ accepted' \in [Endpoint -> [Update -> Takings]]
        /\ DeliveryRows'
    BY <1>1, <1>3, <1>4, <1>t, <2>1, <2>3, RowWritten
  <2> QED
    BY <2>2, <2>4
<1>7. FlushRound'
  BY <1>1, <1>5, <1>6 DEF FlushRound, Unsent
<1> QED
  BY <1>5, <1>6, <1>7, <1>t, AgentKeeps DEF PushTypes

\* What is being sent to, with its row.
LEMMA BeingSent ==
  ASSUME PushInv, round.sending # NoUpdate
  PROVE  /\ round.dev \in Endpoint /\ round.sending \in Update
         /\ delivery[round.dev][round.sending] \in PushRow
         /\ accepted[round.dev][round.sending] \in Takings
         /\ RowStands(delivery[round.dev][round.sending], accepted[round.dev][round.sending])
         /\ Stands(round.dev, round.sending) <=> delivery[round.dev][round.sending].state = "pending"
<1>1. round.dev \in Endpoint /\ round.sending \in Update /\ Unsent(round.dev, round.sending)
  BY DEF PushInv, PushTypes, FlushRound, FlushRow
<1>2. /\ delivery[round.dev][round.sending] \in PushRow /\ accepted[round.dev][round.sending] \in Takings
      /\ RowStands(delivery[round.dev][round.sending], accepted[round.dev][round.sending])
  BY <1>1 DEF PushInv, PushTypes, DeliveryRows
<1>3. Stands(round.dev, round.sending) <=> delivery[round.dev][round.sending].state = "pending"
  BY <1>1, <1>2, NoDeliveryStands DEF Unsent, Stands, RowStands
<1> QED
  BY <1>1, <1>2, <1>3

\* The row of what is being sent is written, by the push service's answer or for want of one.
LEMMA SendWrites ==
  ASSUME PushInv, round.sending # NoUpdate,
         NEW row \in PushRow, NEW got \in Takings, RowStands(row, got),
         delivery' = [delivery EXCEPT ![round.dev][round.sending] = row],
         accepted' = [accepted EXCEPT ![round.dev][round.sending] = got],
         UNCHANGED <<update, pushService, alive, known, ctl>>,
         round' \in FlushRow, round'.dev = round.dev, round'.list = round.list,
         \/ round'.sending = NoUpdate /\ ~round'.taken
         \/ /\ round'.sending = round.sending /\ row.state \in {"none", "pending"}
            /\ row.state = "pending" => got.unheard > 0
  PROVE  PushInv'
<1>t. PushTypes /\ DeliveryRows /\ FlushRound
  BY DEF PushInv
<1>1. round.dev \in Endpoint /\ round.sending \in Update
  BY BeingSent
<1>2. /\ delivery' \in [Endpoint -> [Update -> PushRow]] /\ accepted' \in [Endpoint -> [Update -> Takings]]
      /\ DeliveryRows'
  BY <1>1, <1>t, RowWritten
<1>3. delivery'[round.dev][round.sending] = row /\ accepted'[round.dev][round.sending] = got
  BY <1>1, <1>t DEF PushTypes
<1>4. FlushRound'
  BY <1>1, <1>3, <1>t DEF FlushRound, Unsent, Untold
<1> QED
  BY <1>2, <1>4, <1>t, AgentKeeps DEF PushTypes

LEMMA TakenKeeps == ASSUME PushInv, PushTaken PROVE PushInv'
<1> DEFINE d == round.dev
           n == round.sending
           row == delivery[d][n]
           got == accepted[d][n]
           new == IF Stands(d, n) THEN [times |-> got.times + 1, unheard |-> got.unheard + 1] ELSE got
<1>t. PushTypes /\ round \in FlushRow /\ n # NoUpdate
  BY DEF PushInv, PushTypes, PushTaken
<1>1. /\ d \in Endpoint /\ n \in Update /\ row \in PushRow /\ got \in Takings /\ RowStands(row, got)
      /\ Stands(d, n) <=> row.state = "pending"
      /\ row.state \in {"none", "pending"}
  <2>1. Unsent(d, n)
    BY <1>t DEF PushInv, FlushRound
  <2> QED
    BY <1>t, <2>1, BeingSent DEF Unsent
<1>2. new \in Takings /\ RowStands(row, new) /\ (row.state = "pending" => new.unheard > 0)
  BY <1>1 DEF Takings, RowStands
<1>3. delivery' = [delivery EXCEPT ![d][n] = row] /\ accepted' = [accepted EXCEPT ![d][n] = new]
  BY <1>1, <1>t DEF PushTaken, PushTypes
<1>4. UNCHANGED <<update, pushService, alive, known, ctl>>
  BY DEF PushTaken
<1>5. round' \in FlushRow /\ round'.dev = d /\ round'.list = round.list /\ round'.sending = n
  BY <1>t DEF PushTaken, FlushRow
<1> HIDE DEF new
<1> QED
  BY <1>t, <1>1, <1>2, <1>3, <1>4, <1>5, SendWrites

LEMMA HeardKeeps == ASSUME PushInv, SentWasHeard PROVE PushInv'
<1> DEFINE d == round.dev
           n == round.sending
           row == delivery[d][n]
           got == accepted[d][n]
           new == IF Stands(d, n) THEN [row EXCEPT !.state = "sent"] ELSE row
           left == IF Stands(d, n) THEN [times |-> got.times, unheard |-> got.unheard - 1] ELSE got
<1>t. PushTypes /\ round \in FlushRow /\ n # NoUpdate /\ Untold(d, n)
  BY DEF PushInv, PushTypes, FlushRound, SentWasHeard
<1>1. /\ d \in Endpoint /\ n \in Update /\ row \in PushRow /\ got \in Takings /\ RowStands(row, got)
      /\ Stands(d, n) <=> row.state = "pending"
  BY <1>t, BeingSent
<1>2. new \in PushRow /\ left \in Takings /\ RowStands(new, left)
  <2>1. CASE Stands(d, n)
    <3>1. new \in PushRow /\ new.state = "sent"
      BY <1>1, <2>1 DEF PushRow
    <3>2. got.unheard > 0 /\ got.unheard \in Nat /\ got.times = got.unheard
      BY <1>t, <1>1, <2>1 DEF Untold, RowStands, Takings
    <3>3. left \in Takings /\ left.times = got.times /\ left.unheard = got.unheard - 1
      BY <1>1, <2>1, <3>2 DEF Takings
    <3> QED
      BY <3>1, <3>2, <3>3 DEF RowStands
  <2>2. CASE ~Stands(d, n)
    BY <1>1, <2>2
  <2> QED
    BY <2>1, <2>2
<1>3. delivery' = [delivery EXCEPT ![d][n] = new]
  BY DEF SentWasHeard
<1>6. accepted' = [accepted EXCEPT ![d][n] = left]
  BY DEF SentWasHeard
<1>4. UNCHANGED <<update, pushService, alive, known, ctl>>
  BY DEF SentWasHeard
<1>5. round' \in FlushRow /\ round'.dev = d /\ round'.list = round.list /\ round'.sending = NoUpdate /\ ~round'.taken
  BY <1>t DEF SentWasHeard, SendIsOver, FlushRow
<1> HIDE DEF new, left
<1> QED
  BY <1>t, <1>2, <1>3, <1>4, <1>5, <1>6, SendWrites

LEMMA FailedKeeps == ASSUME PushInv, SendFailed PROVE PushInv'
<1> DEFINE d == round.dev
           n == round.sending
           row == delivery[d][n]
           new == IF Stands(d, n) THEN Failed(row) ELSE row
<1>t. PushTypes /\ round \in FlushRow /\ n # NoUpdate
  BY DEF PushInv, PushTypes, SendFailed
<1>1. /\ d \in Endpoint /\ n \in Update /\ row \in PushRow /\ accepted[d][n] \in Takings
      /\ RowStands(row, accepted[d][n]) /\ (Stands(d, n) <=> row.state = "pending")
  BY <1>t, BeingSent
<1>2. new \in PushRow /\ RowStands(new, accepted[d][n])
  <2>1. CASE ~Stands(d, n)
    BY <1>1, <2>1
  <2>2. CASE Stands(d, n)
    <3> DEFINE next == IF row.attempts + 1 >= MaxPushAttempts THEN "failed" ELSE "pending"
               tries == row.attempts + 1
    <3>1. new = [row EXCEPT !.attempts = tries, !.waits = TRUE, !.state = next]
      BY <2>2 DEF Failed
    <3>2. next \in {"failed", "pending"} /\ tries \in 0..MaxPushAttempts /\ (next = "pending" => tries < MaxPushAttempts)
      BY <1>1, <2>2, PushAssumption DEF PushRow, RowStands
    <3>3. accepted[d][n].times = accepted[d][n].unheard
      BY <1>1, <2>2 DEF RowStands, Takings
    <3> HIDE DEF next, tries
    <3>4. new.attempts = tries /\ new.state = next /\ new \in PushRow
      BY <1>1, <3>1, <3>2 DEF PushRow
    <3> QED
      BY <1>1, <3>2, <3>3, <3>4 DEF RowStands, Takings
  <2> QED
    BY <2>1, <2>2
<1>3. delivery' = [delivery EXCEPT ![d][n] = new]
  BY DEF SendFailed
<1>4. accepted' = [accepted EXCEPT ![d][n] = accepted[d][n]]
  BY <1>1, <1>t DEF SendFailed, PushTypes
<1>5. UNCHANGED <<update, pushService, alive, known, ctl>>
  BY DEF SendFailed
<1>6. round' \in FlushRow /\ round'.dev = d /\ round'.list = round.list /\ round'.sending = NoUpdate /\ ~round'.taken
  BY <1>t DEF SendFailed, SendIsOver, FlushRow
<1> HIDE DEF new
<1> QED
  BY <1>t, <1>1, <1>2, <1>3, <1>4, <1>5, <1>6, SendWrites

LEMMA GoneKeeps == ASSUME PushInv, EndpointIsGone PROVE PushInv'
<1>t. PushTypes /\ DeliveryRows /\ round \in FlushRow
  BY DEF PushInv, PushTypes
<1>1. round.dev \in Endpoint /\ round.dev \notin alive /\ WithdrawnHere(round.dev)
  BY BeingSent DEF EndpointIsGone
<1>2. /\ delivery' \in [Endpoint -> [Update -> PushRow]] /\ accepted' \in [Endpoint -> [Update -> Takings]]
      /\ DeliveryRows'
  BY <1>1, <1>t, WithdrawnRows
<1>3. UNCHANGED <<update, pushService, alive, ctl>> /\ known' = known \ {round.dev}
  BY <1>1 DEF EndpointIsGone, WithdrawnHere
<1>4. round' \in FlushRow /\ FlushRound'
  <2>1. round' \in FlushRow /\ round'.sending = NoUpdate /\ round'.list = {} /\ ~round'.taken
    BY <1>t DEF EndpointIsGone, FlushRow
  <2> QED
    BY <2>1 DEF FlushRound
<1> QED
  BY <1>t, <1>1, <1>2, <1>3, <1>4, AgentKeeps DEF PushTypes

LEMMA AgentSteps ==
  ASSUME PushInv, \/ \E n \in Update : Notified(n) \/ NotWanted(n)
                  \/ FlushStarts \/ NextDevice \/ AgentRestarts \/ EndpointDies
                  \/ \E d \in Endpoint, n \in Update : WaitIsOver(d, n)
                  \/ UNCHANGED pushVars
  PROVE  PushInv'
<1>t. PushTypes /\ DeliveryRows /\ FlushRound /\ round \in FlushRow
  BY DEF PushInv, PushTypes
<1>s. ASSUME UNCHANGED <<delivery, accepted>>
      PROVE  /\ DeliveryRows' /\ delivery' \in [Endpoint -> [Update -> PushRow]]
             /\ accepted' \in [Endpoint -> [Update -> Takings]]
             /\ \A d, n : (Unsent(d, n)' <=> Unsent(d, n)) /\ (Untold(d, n)' <=> Untold(d, n))
  BY <1>s, <1>t DEF DeliveryRows, PushTypes, Unsent, Untold
<1>1. ASSUME NEW n \in Update, Notified(n) \/ NotWanted(n) PROVE PushInv'
  <2>1. update' \in [Update -> {"none", "pending", "gone"}]
    BY <1>1, <1>t DEF Notified, NotWanted, PushTypes
  <2>2. UNCHANGED <<pushService, alive, known, delivery, round, ctl, accepted>>
    BY <1>1 DEF Notified, NotWanted
  <2>3. FlushRound'
    BY <1>s, <1>t, <2>2 DEF FlushRound
  <2> QED
    BY <1>s, <1>t, <2>1, <2>2, <2>3, AgentKeeps DEF PushTypes
<1>2. CASE FlushStarts \/ NextDevice \/ AgentRestarts
  <2>1. UNCHANGED <<update, pushService, alive, known, delivery, ctl, accepted>>
    BY <1>2 DEF FlushStarts, NextDevice, AgentRestarts
  <2>2. Pending \in SUBSET Update /\ known \in SUBSET Endpoint
    BY <1>t DEF Pending, PushTypes
  <2>3. NoRound \in FlushRow /\ NoRound.sending = NoUpdate /\ NoRound.list = {} /\ ~NoRound.taken
    BY DEF NoRound, FlushRow
  <2>4. round' \in FlushRow /\ round'.sending = NoUpdate /\ (round'.list # {} => round'.dev \in Endpoint) /\ ~round'.taken
    <3>1. CASE FlushStarts
      <4>1. round' = [NoRound EXCEPT !.on = TRUE, !.todo = known]
        BY <3>1 DEF FlushStarts
      <4> QED
        BY <2>2, <2>3, <4>1 DEF FlushRow
    <3>2. CASE AgentRestarts
      BY <2>3, <3>2 DEF AgentRestarts
    <3>3. CASE NextDevice
      <4>1. CASE round' = NoRound
        BY <2>3, <4>1
      <4>2. ASSUME NEW d \in round.todo, round' = [round EXCEPT !.todo = @ \ {d}, !.dev = d, !.list = Pending]
            PROVE  round' \in FlushRow /\ round'.sending = round.sending /\ round'.dev \in Endpoint /\ round'.taken = round.taken
        BY <2>2, <4>2, <1>t DEF FlushRow
      <4> QED
        BY <1>t, <3>3, <4>1, <4>2, <2>3 DEF NextDevice, FlushRound
    <3> QED
      BY <1>2, <3>1, <3>2, <3>3
  <2>5. FlushRound'
    BY <2>4 DEF FlushRound
  <2> QED
    BY <1>s, <1>t, <2>1, <2>4, <2>5, AgentKeeps DEF PushTypes
<1>3. ASSUME NEW d \in Endpoint, NEW n \in Update, WaitIsOver(d, n) PROVE PushInv'
  <2> DEFINE new == [delivery[d][n] EXCEPT !.waits = FALSE]
  <2>1. delivery[d][n] \in PushRow /\ RowStands(delivery[d][n], accepted[d][n]) /\ accepted[d][n] \in Takings
    BY <1>t DEF PushTypes, DeliveryRows
  <2>2. delivery[d][n].state = "pending" /\ UNCHANGED <<update, pushService, alive, known, round, ctl, accepted>>
    BY <1>3 DEF WaitIsOver
  <2>3. new \in PushRow /\ RowStands(new, accepted[d][n]) /\ new.state = "pending"
    BY <2>1, <2>2 DEF PushRow, RowStands
  <2>4. delivery' = [delivery EXCEPT ![d][n] = new]
    BY <1>3 DEF WaitIsOver
  <2>5. accepted' = [accepted EXCEPT ![d][n] = accepted[d][n]]
    BY <1>t, <2>2 DEF PushTypes
  <2> HIDE DEF new
  <2>6. /\ delivery' \in [Endpoint -> [Update -> PushRow]] /\ accepted' \in [Endpoint -> [Update -> Takings]]
        /\ DeliveryRows' /\ delivery'[d][n] = new
        /\ \A e \in Endpoint, m \in Update : e # d \/ m # n => delivery'[e][m] = delivery[e][m]
    <3>1. \A e \in Endpoint, m \in Update :
             delivery'[e][m] = IF e = d /\ m = n THEN new ELSE delivery[e][m]
      BY <1>t, <2>4 DEF PushTypes
    <3> QED
      BY <1>t, <2>1, <2>3, <2>4, <2>5, <3>1, RowWritten
  <2>7. FlushRound'
    <3>1. round.sending # NoUpdate => round.dev \in Endpoint /\ round.sending \in Update
      BY <1>t DEF FlushRound, FlushRow
    <3> QED
      BY <1>t, <2>2, <2>3, <2>6, <3>1 DEF FlushRound, Unsent, Untold
  <2> QED
    BY <1>t, <2>2, <2>6, <2>7, AgentKeeps DEF PushTypes
<1>4. CASE EndpointDies
  <2>1. UNCHANGED <<update, pushService, known, delivery, round, ctl, accepted>> /\ alive' \subseteq alive
    BY <1>4 DEF EndpointDies
  <2>2. FlushRound'
    BY <1>s, <1>t, <2>1 DEF FlushRound
  <2> QED
    BY <1>s, <1>t, <2>1, <2>2, AgentKeeps DEF PushTypes
<1>5. CASE UNCHANGED pushVars
  <2>1. UNCHANGED <<update, pushService, alive, known, delivery, round, ctl, accepted>>
    BY <1>5 DEF pushVars
  <2>2. FlushRound'
    BY <1>s, <1>t, <2>1 DEF FlushRound
  <2> QED
    BY <1>s, <1>t, <2>1, <2>2, AgentKeeps DEF PushTypes
<1> QED
  BY <1>1, <1>2, <1>3, <1>4, <1>5

LEMMA PushStep == PushInv /\ [PushNext]_pushVars => PushInv'
<1> QED
  BY PageSteps, ForgetKeeps, TryKeeps, TakenKeeps, HeardKeeps, FailedKeeps, GoneKeeps, AgentSteps DEF PushNext

LEMMA PushStarts == PushInit => PushInv
<1> SUFFICES ASSUME PushInit PROVE PushInv
  OBVIOUS
<1>1. NoRound \in FlushRow /\ NoRound.sending = NoUpdate /\ NoRound.list = {} /\ ~NoRound.taken
  BY DEF NoRound, FlushRow
<1>2. ctl \in ControllerRow /\ ctl.kind = "none" /\ ctl.says = "off"
  BY DEF PushInit, ControllerRow
<1>3. PushTypes
  BY <1>1, <1>2, NoDeliveryStands DEF PushInit, PushTypes
<1>4. DeliveryRows
  BY NoDeliveryStands DEF PushInit, DeliveryRows
<1>5. Controller /\ FlushRound
  BY <1>1, <1>2 DEF PushInit, Controller, FlushRound
<1> QED
  BY <1>3, <1>4, <1>5 DEF PushInv

LEMMA PushInvariant == PushSpec => []PushInv
  BY PushStarts, PushStep, PTL DEF PushSpec

LEMMA PushMeans == PushInv => PushTypeOK /\ PushIsHonest
<1> SUFFICES ASSUME PushInv PROVE PushTypeOK /\ PushIsHonest
  OBVIOUS
<1>1. PushTypeOK
  BY DEF PushInv, PushTypes, PushTypeOK, PushRow, FlushRow
<1>2. ASSUME NEW d \in Endpoint, NEW n \in Update
      PROVE  /\ delivery[d][n].state = "sent" <=> accepted[d][n].times > accepted[d][n].unheard
             /\ accepted[d][n].times <= 1 + accepted[d][n].unheard
  <2>1. accepted[d][n] \in Takings /\ RowStands(delivery[d][n], accepted[d][n])
    BY DEF PushInv, PushTypes, DeliveryRows
  <2> QED
    BY <2>1 DEF RowStands, Takings
<1> QED
  BY <1>1, <1>2 DEF PushInv, Controller, PushIsHonest, Step

\* While the page says that push is on, the agent has the browser's endpoint or the push
\* service has dropped it; what it says of a subscription that was given up is what the browser
\* and the agent did.  A row is "sent" exactly when the agent heard that the push service took
\* the update, which is then sent to that subscription no more; only answers that were lost, late
\* or cut off by a restart make the agent repeat a push that was taken.  For any number of
\* devices, updates, attempts and failures (push.ts of the agent and of the page).
THEOREM PushesAreHonest == PushSpec => []PushIsHonest
<1> QED
  BY PushInvariant, PushMeans, PTL

-----------------------------------------------------------------------------
(* The gallery *)

EventSets == SUBSET GalleryEvent
PersonRow == [refs: EventSets, deps: EventSets]
FrameRow == [state: {"none", "raw", "empty", "face"}, track: Int, person: GalleryPerson \cup {0}]
TrackRow == [id: Int, votes: Int, person: GalleryPerson \cup {0}]

GalleryRows ==
    /\ living \in EventSets /\ basis \in [GalleryEvent -> EventSets] /\ learnt \in [GalleryEvent -> EventSets]
    /\ frames \in [FrameId -> FrameRow] /\ votedTrack \in TrackRow
    /\ people \in [GalleryPerson -> PersonRow] /\ entity \in [GalleryPerson -> EventSets]
    /\ lastFrame \in 0..MaxFrames /\ detecting \in 0..lastFrame /\ queued \in 0..lastFrame
    /\ enrolls \in 0..MaxEnrolls

\* What is still to come has left no trace: frames to detect, frames and enrollments to be.
StillToCome ==
    /\ \A f \in FrameId : <<"faces", f>> \in living \/ <<"presence", f>> \in living =>
          f <= lastFrame /\ f # detecting /\ f # queued
    /\ \A n \in GalleryPerson : <<"person", n>> \in living => n <= enrolls
    /\ detecting # 0 => detecting # queued

\* The gallery, the graph and the relations refer to what lives; a deletion looks at the
\* dependencies of a row, which are more than its references.
Sources ==
    /\ \A p \in GalleryPerson : people[p].refs \subseteq people[p].deps
    /\ \A p \in GalleryPerson : (people[p].refs \cup entity[p]) \subseteq living
    /\ \A c \in claims : c.refs \subseteq living /\ c.subject \subseteq c.refs

\* An event whose writing was not cut off rests on all that it was written from.
RestsOn(e, x) == x \in living /\ x \in basis[e] /\ basis[x] \subseteq basis[e]
Labels == \A e \in living \ severed : \A x \in learnt[e] : RestsOn(e, x)

GalleryInv == GalleryRows /\ StillToCome /\ Sources /\ Labels

LEMMA EventNames ==
  /\ \A u \in Spoken : <<"said", u>> \in GalleryEvent
  /\ \A f \in FrameId : <<"faces", f>> \in GalleryEvent /\ <<"presence", f>> \in GalleryEvent
  /\ \A n \in GalleryPerson : <<"person", n>> \in GalleryEvent
BY DEF GalleryEvent

LEMMA Distinct ==
  /\ \A f, g : <<"faces", f>> # <<"presence", g>> /\ <<"faces", f>> # <<"person", g>>
  /\ \A f, g : <<"presence", f>> # <<"person", g>>
  /\ \A f, g : <<"said", f>> # <<"faces", g>> /\ <<"said", f>> # <<"presence", g>> /\ <<"said", f>> # <<"person", g>>
  /\ \A f, g : <<"faces", f>> = <<"faces", g>> => f = g
  /\ \A f, g : <<"presence", f>> = <<"presence", g>> => f = g
  /\ \A f, g : <<"person", f>> = <<"person", g>> => f = g
OBVIOUS

LEMMA GalleryStarts == AgentGalleryInit => GalleryInv
<1> SUFFICES ASSUME AgentGalleryInit PROVE GalleryInv
  OBVIOUS
<1>0. {MaxFrames, MaxEnrolls} \subseteq Nat
  BY AgentGalleryAssumption
<1>1. NoFrame \in FrameRow
  BY DEF NoFrame, FrameRow, EventSets
<1>2. NoPerson \in PersonRow /\ NoPerson.refs = {}
  BY DEF NoPerson, PersonRow, EventSets
<1>3. NoTrackYet \in TrackRow
  BY DEF NoTrackYet, TrackRow
<1>4. GalleryRows
  <2>1. frames \in [FrameId -> FrameRow] /\ people \in [GalleryPerson -> PersonRow] /\ votedTrack \in TrackRow
    BY <1>1, <1>2, <1>3 DEF AgentGalleryInit
  <2>2. basis \in [GalleryEvent -> EventSets] /\ learnt \in [GalleryEvent -> EventSets] /\ entity \in [GalleryPerson -> EventSets] /\ living \in EventSets
    BY DEF AgentGalleryInit, EventSets
  <2> QED
    BY <1>0, <2>1, <2>2 DEF AgentGalleryInit, GalleryRows
<1>5. StillToCome
  BY <1>1 DEF AgentGalleryInit, StillToCome
<1>6. Sources /\ Labels
  BY <1>2 DEF AgentGalleryInit, Sources, Labels
<1> QED
  BY <1>4, <1>5, <1>6 DEF GalleryInv

-----------------------------------------------------------------------------
(* Frames. *)

LEMMA AcceptKeeps ==
  ASSUME GalleryInv, AcceptFrame
  PROVE  GalleryInv'
<1>i. GalleryRows /\ StillToCome /\ Sources /\ Labels
  BY DEF GalleryInv
<1> DEFINE n == lastFrame + 1
           row == [frames[n] EXCEPT !.state = "raw"]
<1>1. n \in FrameId /\ n \in 0..MaxFrames /\ n > lastFrame /\ n # 0 /\ lastFrame \in Nat /\ lastFrame' = n
  BY <1>i, AgentGalleryAssumption DEF AcceptFrame, GalleryRows, FrameId
<1>2. row \in FrameRow
  BY <1>1, <1>i DEF GalleryRows, FrameRow
<1>3. /\ frames' = [frames EXCEPT ![n] = row]
      /\ UNCHANGED <<living, basis, votedTrack, people, entity, claims, enrolls, learnt, severed>>
      /\ \/ detecting = 0 /\ detecting' = n /\ queued' = 0
         \/ detecting # 0 /\ queued' = n /\ detecting' = detecting
  BY DEF AcceptFrame
<1> HIDE DEF n, row
<1>5. detecting' \in 0..lastFrame' /\ queued' \in 0..lastFrame' /\ (detecting' # 0 => detecting' # queued')
  BY <1>1, <1>3, <1>i DEF GalleryRows
<1>6. GalleryRows'
  <2>1. frames' \in [FrameId -> FrameRow]
    BY <1>2, <1>3, <1>i DEF GalleryRows
  <2> QED
    BY <1>1, <1>3, <1>5, <1>i, <2>1 DEF GalleryRows
<1>7. StillToCome'
  <2>1. ASSUME NEW f \in FrameId, <<"faces", f>> \in living \/ <<"presence", f>> \in living
        PROVE  f <= lastFrame' /\ f # detecting' /\ f # queued'
    <3>1. f <= lastFrame /\ f # detecting /\ f \in Nat /\ f # 0
      BY <1>i, <2>1 DEF StillToCome, FrameId
    <3> QED
      BY <1>1, <1>3, <3>1
  <2> QED
    BY <1>3, <1>5, <1>i, <2>1 DEF StillToCome
<1>8. Labels'
  BY <1>3, <1>i DEF Labels, RestsOn
<1>9. Sources'
  BY <1>3, <1>i DEF Sources
<1> QED
  BY <1>6, <1>7, <1>8, <1>9 DEF GalleryInv

\* The frame at the service is answered: what is in the ledger of it is new, the rest stays.
\* Whatever is new rests on what it was written from, unless its writing was cut off.
FrameAnswered(new) ==
    /\ frames' \in [FrameId -> FrameRow]
    /\ new \subseteq {<<"faces", detecting>>, <<"presence", detecting>>} /\ living' = living \cup new
    /\ detecting' \in {0, queued} /\ queued' = 0
    /\ \A e \in GalleryEvent \ {<<"faces", detecting>>, <<"presence", detecting>>} :
          basis'[e] = basis[e] /\ learnt'[e] = learnt[e]
    /\ basis' \in [GalleryEvent -> EventSets] /\ learnt' \in [GalleryEvent -> EventSets] /\ votedTrack' \in TrackRow
    /\ severed \subseteq severed'
    /\ \A e \in new \ severed' : \A x \in learnt'[e] : RestsOn(e, x)'
    /\ UNCHANGED <<lastFrame, people, entity, claims, enrolls>>

LEMMA AnswerKeeps ==
  ASSUME GalleryInv, detecting # 0, NEW new, FrameAnswered(new)
  PROVE  GalleryInv'
<1>i. GalleryRows /\ StillToCome /\ Sources /\ Labels
  BY DEF GalleryInv
<1>1. detecting \in FrameId /\ detecting \in Nat /\ lastFrame \in Nat /\ detecting <= lastFrame
  BY <1>i, AgentGalleryAssumption DEF GalleryRows, FrameId
<1>3. \A f \in FrameId : f # detecting =>
         /\ <<"faces", f>> \in living' => <<"faces", f>> \in living
         /\ <<"presence", f>> \in living' => <<"presence", f>> \in living
  BY Distinct DEF FrameAnswered
<1>4. \A n \in GalleryPerson : <<"person", n>> \in living' => <<"person", n>> \in living
  BY Distinct DEF FrameAnswered
<1>5. living \subseteq living' /\ living' \in EventSets
  BY <1>1, <1>i, EventNames DEF FrameAnswered, GalleryRows, EventSets
<1>6. \A x \in living : basis'[x] = basis[x] /\ learnt'[x] = learnt[x]
  <2>1. <<"faces", detecting>> \notin living /\ <<"presence", detecting>> \notin living
    BY <1>1, <1>i DEF StillToCome
  <2> QED
    BY <1>i, <2>1 DEF FrameAnswered, GalleryRows, EventSets
<1>7. GalleryRows'
  <2>2. detecting' \in 0..lastFrame' /\ queued' \in 0..lastFrame'
    BY <1>1, <1>i DEF GalleryRows, FrameAnswered
  <2> QED
    BY <1>5, <1>i, <2>2 DEF GalleryRows, FrameAnswered
<1>8. StillToCome'
  <2>1. ASSUME NEW f \in FrameId, <<"faces", f>> \in living' \/ <<"presence", f>> \in living'
        PROVE  f <= lastFrame' /\ f # detecting' /\ f # queued'
    <3>1. f # 0
      BY DEF FrameId
    <3>2. CASE f = detecting
      BY <1>1, <1>i, <3>1, <3>2 DEF FrameAnswered, StillToCome
    <3>3. CASE f # detecting
      BY <1>3, <1>i, <2>1, <3>1, <3>3 DEF FrameAnswered, StillToCome
    <3> QED
      BY <3>2, <3>3
  <2>4. detecting' # 0 => detecting' # queued'
    BY DEF FrameAnswered
  <2>5. \A n \in GalleryPerson : <<"person", n>> \in living' => n <= enrolls'
    BY <1>4, <1>i DEF FrameAnswered, StillToCome
  <2> QED
    BY <2>1, <2>4, <2>5 DEF StillToCome
<1>9. Labels'
  <2> SUFFICES ASSUME NEW e \in living' \ severed', NEW x \in learnt'[e] PROVE RestsOn(e, x)'
    BY DEF Labels
  <2>1. CASE e \in new
    BY <2>1 DEF FrameAnswered
  <2>2. CASE e \notin new
    <3>1. e \in living \ severed /\ x \in learnt[e]
      BY <1>6, <2>2 DEF FrameAnswered
    <3>2. x \in living /\ x \in basis[e] /\ basis[x] \subseteq basis[e]
      BY <1>i, <3>1 DEF Labels, RestsOn
    <3> QED
      BY <1>5, <1>6, <3>1, <3>2 DEF RestsOn
  <2> QED
    BY <2>1, <2>2
<1>10. Sources'
  BY <1>5, <1>i DEF Sources, FrameAnswered
<1> QED
  BY <1>7, <1>8, <1>9, <1>10 DEF GalleryInv

LEMMA StartsAgain ==
  ASSUME GalleryInv, NEW track \in Int, MemoryIsLost(track)
  PROVE  votedTrack' \in TrackRow /\ detecting' = 0 /\ queued' = 0
BY DEF MemoryIsLost, TrackRow, NoTrackYet

LEMMA NobodyKeeps ==
  ASSUME GalleryInv, NobodyThere
  PROVE  GalleryInv'
<1>i. GalleryRows
  BY DEF GalleryInv
<1> DEFINE row == [frames[detecting] EXCEPT !.state = IF @ = "raw" THEN "empty" ELSE @]
           faces == <<"faces", detecting>>
           new == living' \ living
<1>1. detecting \in FrameId /\ detecting # 0 /\ faces \in GalleryEvent
  <2>1. detecting \in FrameId /\ detecting # 0
    BY <1>i, AgentGalleryAssumption DEF GalleryRows, FrameId, NobodyThere
  <2> QED
    BY <2>1, EventNames
<1>2. row \in FrameRow
  BY <1>1, <1>i DEF GalleryRows, FrameRow
<1>3. frames' = [frames EXCEPT ![detecting] = row]
  BY DEF NobodyThere
<1> HIDE DEF row
<1>4. /\ learnt' = [learnt EXCEPT ![faces] = {}]
      /\ UNCHANGED <<basis, lastFrame, people, entity, claims, enrolls, severed>>
      /\ living' = living \cup {faces} \/ living' = living
  BY DEF NobodyThere
<1>5. votedTrack' \in TrackRow /\ detecting' \in {0, queued} /\ queued' = 0
  <2>1. CASE MemoryIsLost(votedTrack.id)
    BY <1>i, <2>1, StartsAgain DEF GalleryRows, TrackRow
  <2>2. CASE TakesNext /\ UNCHANGED votedTrack
    BY <1>i, <2>2 DEF TakesNext, GalleryRows
  <2> QED
    BY <2>1, <2>2 DEF NobodyThere
<1>6. frames' \in [FrameId -> FrameRow]
  BY <1>2, <1>3, <1>i DEF GalleryRows
<1>7. /\ learnt' \in [GalleryEvent -> EventSets] /\ learnt'[faces] = {}
      /\ \A e \in GalleryEvent \ {faces} : learnt'[e] = learnt[e]
  BY <1>1, <1>4, <1>i DEF GalleryRows, EventSets
<1>8. new \subseteq {faces} /\ living' = living \cup new
  BY <1>4
<1> HIDE DEF new
<1>9. FrameAnswered(new)
  BY <1>4, <1>5, <1>6, <1>7, <1>8, <1>i DEF FrameAnswered, GalleryRows
<1> QED
  BY <1>1, <1>9, AnswerKeeps

\* What the label of a person rests on.
LEMMA LabelRests ==
  ASSUME GalleryInv, NEW p \in GalleryPerson \cup {0}, p # 0 => people[p].refs \subseteq living
  PROVE  /\ LabelRefs(p) \subseteq living /\ LabelRefs(p) \in EventSets /\ LabelBasis(p) \in EventSets
         /\ \A x \in LabelRefs(p) : x \in LabelBasis(p) /\ basis[x] \subseteq LabelBasis(p)
<1>i. living \subseteq GalleryEvent /\ \A e \in GalleryEvent : basis[e] \subseteq GalleryEvent
  BY DEF GalleryInv, GalleryRows, EventSets
<1>1. LabelRefs(p) \subseteq living
  BY DEF LabelRefs
<1>2. LabelBasis(p) = LabelRefs(p) \cup UNION {basis[e] : e \in LabelRefs(p)}
  BY DEF LabelBasis, Closure
<1> QED
  BY <1>i, <1>1, <1>2 DEF EventSets

LEMMA WrittenKeeps ==
  ASSUME GalleryInv, NEW seen \in Seen, NEW entering \in BOOLEAN, NEW upto \in 1..AllWrites,
         AnswerWritten(seen, entering, upto),
         detecting' \in {0, queued}, queued' = 0, votedTrack' \in TrackRow, severed \subseteq severed',
         upto # AllWrites => <<"faces", detecting>> \in severed' /\ <<"presence", detecting>> \in severed'
  PROVE  GalleryInv'
<1>i. GalleryRows /\ StillToCome
  BY DEF GalleryInv
<1> DEFINE f == detecting
           p == Labelled(seen)
           faces == <<"faces", f>>
           appeared == <<"presence", f>>
           row == IF frames[f].state # "raw" THEN frames[f]
                  ELSE [state |-> "face", track |-> NextTrack(seen), person |-> p]
           new == (IF upto >= 2 THEN {faces} ELSE {}) \cup (IF entering /\ upto >= 3 THEN {appeared} ELSE {})
           first == IF upto = AllWrites THEN LabelBasis(p) ELSE {}
           second == (IF entering /\ upto >= 4 THEN {faces} ELSE {})
                     \cup (IF entering /\ upto = AllWrites THEN LabelBasis(p) ELSE {})
           told == IF entering THEN {faces} \cup LabelRefs(p) ELSE {}
<1>1. f \in FrameId /\ f # 0 /\ faces \in GalleryEvent /\ appeared \in GalleryEvent /\ faces # appeared
  <2>1. f \in FrameId /\ f # 0
    BY <1>i, AgentGalleryAssumption DEF GalleryRows, FrameId, AnswerWritten
  <2> QED
    BY <2>1, EventNames, Distinct
<1>2. p \in GalleryPerson \cup {0} /\ (p # 0 => people[p].refs \subseteq living)
  BY DEF AnswerWritten, KnownPerson, Labelled, Seen
<1>3. /\ LabelRefs(p) \subseteq living /\ LabelRefs(p) \in EventSets /\ LabelBasis(p) \in EventSets
      /\ \A x \in LabelRefs(p) : x \in LabelBasis(p) /\ basis[x] \subseteq LabelBasis(p)
  BY <1>2, LabelRests
<1>4. /\ frames' = [frames EXCEPT ![f] = row] /\ living' = living \cup new
      /\ basis' = [basis EXCEPT ![faces] = first, ![appeared] = second]
      /\ learnt' = [learnt EXCEPT ![faces] = LabelRefs(p), ![appeared] = told]
      /\ UNCHANGED <<lastFrame, people, entity, claims, enrolls>>
  <2>1. frames' = [frames EXCEPT ![f] = row]
    BY DEF AnswerWritten
  <2> QED
    BY <2>1 DEF AnswerWritten
<1>5. frames' \in [FrameId -> FrameRow]
  <2>1. NextTrack(seen) \in Int
    BY <1>i DEF NextTrack, GalleryRows, TrackRow
  <2>2. row \in FrameRow
    BY <1>1, <1>2, <1>i, <2>1 DEF FrameRow, GalleryRows
  <2> QED
    BY <1>4, <1>i, <2>2 DEF GalleryRows
<1>6. new \subseteq {faces, appeared} /\ (appeared \in new => entering)
  BY <1>1
<1>7. first \in EventSets /\ second \in EventSets /\ told \in EventSets
  BY <1>1, <1>3 DEF EventSets
<1>8. upto = AllWrites => /\ first = LabelBasis(p)
                          /\ entering => second = {faces} \cup LabelBasis(p) /\ told = {faces} \cup LabelRefs(p)
                          /\ faces \in new
  BY DEF AllWrites
<1> HIDE DEF row, new, first, second, told, p, faces, appeared
<1>9. /\ basis' \in [GalleryEvent -> EventSets] /\ basis'[faces] = first /\ basis'[appeared] = second
      /\ learnt' \in [GalleryEvent -> EventSets] /\ learnt'[faces] = LabelRefs(p) /\ learnt'[appeared] = told
      /\ \A e \in GalleryEvent \ {faces, appeared} : basis'[e] = basis[e] /\ learnt'[e] = learnt[e]
  BY <1>1, <1>3, <1>4, <1>7, <1>i DEF GalleryRows
<1>10. \A x \in LabelRefs(p) : x \in living' /\ basis'[x] = basis[x]
  <2>1. faces \notin living /\ appeared \notin living
    BY <1>1, <1>i DEF StillToCome, faces, appeared
  <2> QED
    BY <1>3, <1>4, <1>9, <2>1 DEF EventSets
<1>11. ASSUME NEW e \in new \ severed', NEW x \in learnt'[e] PROVE RestsOn(e, x)'
  <2>1. upto = AllWrites /\ (e = faces \/ (e = appeared /\ entering))
    BY <1>6, <1>11 DEF faces, appeared
  <2>2. CASE x = faces /\ e = appeared
    <3>1. entering
      BY <1>1, <2>1, <2>2
    <3>2. faces \in living'
      BY <1>4, <1>8, <2>1
    <3>3. basis'[faces] = LabelBasis(p) /\ basis'[appeared] = {faces} \cup LabelBasis(p)
      BY <1>8, <1>9, <2>1, <3>1
    <3> QED
      BY <2>2, <3>2, <3>3 DEF RestsOn
  <2>3. CASE x \in LabelRefs(p)
    <3>1. x \in living' /\ basis'[x] = basis[x] /\ x \in LabelBasis(p) /\ basis[x] \subseteq LabelBasis(p)
      BY <1>3, <1>10, <2>3
    <3>2. LabelBasis(p) \subseteq basis'[e]
      BY <1>8, <1>9, <2>1
    <3> QED
      BY <3>1, <3>2 DEF RestsOn
  <2> QED
    BY <1>8, <1>9, <2>1, <2>2, <2>3
<1>12. FrameAnswered(new)
  BY <1>4, <1>5, <1>6, <1>9, <1>11 DEF FrameAnswered, faces, appeared
<1> QED
  BY <1>1, <1>12, AnswerKeeps

LEMMA DetectedKeeps ==
  ASSUME GalleryInv, NEW seen \in Seen, NEW entering \in BOOLEAN, Detected(seen, entering)
  PROVE  GalleryInv'
<1>i. GalleryRows
  BY DEF GalleryInv
<1>1. votedTrack' \in TrackRow
  <2>1. Votes(seen) \in Int /\ NextTrack(seen) \in Int /\ seen.person \in GalleryPerson \cup {0}
    BY <1>i DEF Votes, NextTrack, GalleryRows, TrackRow, Seen
  <2>2. votedTrack' = [id |-> NextTrack(seen), votes |-> IF Votes(seen) > 2 THEN 2 ELSE Votes(seen), person |-> seen.person]
    BY DEF Detected
  <2> QED
    BY <2>1, <2>2 DEF TrackRow
<1>2. AnswerWritten(seen, entering, AllWrites) /\ detecting' = queued /\ queued' = 0 /\ severed' = severed
  BY DEF Detected, TakesNext
<1>3. AllWrites \in 1..AllWrites
  BY DEF AllWrites
<1> QED
  BY <1>1, <1>2, <1>3, WrittenKeeps

LEMMA DyingKeeps ==
  ASSUME GalleryInv, NEW seen \in Seen, NEW entering \in BOOLEAN, NEW upto \in 1..(AllWrites - 1),
         DiesWriting(seen, entering, upto)
  PROVE  GalleryInv'
<1>1. NextTrack(seen) \in Int
  BY DEF NextTrack, GalleryInv, GalleryRows, TrackRow
<1>2. votedTrack' \in TrackRow /\ detecting' = 0 /\ queued' = 0
  BY <1>1, StartsAgain DEF DiesWriting
<1>3. AnswerWritten(seen, entering, upto) /\ severed' = severed \cup {<<"faces", detecting>>, <<"presence", detecting>>}
  BY DEF DiesWriting
<1>4. upto \in 1..AllWrites
  BY DEF AllWrites
<1> QED
  BY <1>2, <1>3, <1>4, WrittenKeeps

LEMMA QuietKeeps ==
  ASSUME GalleryInv, DetectionFails \/ Prune \/ Restart \/ (\E u \in Spoken : Identify(u)) \/ UNCHANGED galleryVars
  PROVE  GalleryInv'
<1>i. GalleryRows /\ StillToCome /\ Sources /\ Labels
  BY DEF GalleryInv
<1>1. /\ UNCHANGED <<living, basis, lastFrame, people, entity, claims, enrolls, learnt, severed>>
      /\ detecting' \in {0, detecting} /\ queued' \in {0, queued}
      /\ frames' = frames \/ \E f \in FrameId : frames' = [frames EXCEPT ![f] = NoFrame]
  BY DEF DetectionFails, Prune, Restart, MemoryIsLost, Identify, galleryVars
<1>2. NoFrame \in FrameRow
  BY DEF NoFrame, FrameRow, EventSets
<1>3. frames' \in [FrameId -> FrameRow]
  BY <1>1, <1>2, <1>i DEF GalleryRows
<1>4. votedTrack' \in TrackRow
  <2>1. votedTrack' = votedTrack \/ votedTrack' = [NoTrackYet EXCEPT !.id = votedTrack.id]
    BY DEF DetectionFails, Prune, Restart, MemoryIsLost, Identify, galleryVars
  <2> QED
    BY <1>i, <2>1 DEF GalleryRows, TrackRow, NoTrackYet
<1>5. GalleryRows'
  <2>1. detecting' \in 0..lastFrame' /\ queued' \in 0..lastFrame'
    BY <1>1, <1>i DEF GalleryRows
  <2> QED
    BY <1>1, <1>3, <1>4, <1>i, <2>1 DEF GalleryRows
<1>6. StillToCome'
  <2>0. \A f \in FrameId : f # 0
    BY DEF FrameId
  <2>1. \A f \in FrameId : f = detecting' \/ f = queued' => f = detecting \/ f = queued
    BY <1>1, <2>0
  <2>4. detecting' # 0 => detecting' # queued'
    BY <1>1, <1>i DEF StillToCome
  <2>5. \A f \in FrameId : <<"faces", f>> \in living \/ <<"presence", f>> \in living =>
           f <= lastFrame /\ f # detecting' /\ f # queued'
    BY <1>i, <2>1 DEF StillToCome
  <2> QED
    BY <1>1, <1>i, <2>1, <2>4, <2>5 DEF StillToCome
<1>7. Labels'
  BY <1>1, <1>i DEF Labels, RestsOn
<1>8. Sources'
  BY <1>1, <1>i DEF Sources
<1> QED
  BY <1>5, <1>6, <1>7, <1>8 DEF GalleryInv

-----------------------------------------------------------------------------
(* The gallery, the graph and the ledger. *)

LEMMA SayKeeps ==
  ASSUME GalleryInv, NEW u \in Spoken, Say(u)
  PROVE  GalleryInv'
<1>i. GalleryRows /\ StillToCome /\ Sources /\ Labels
  BY DEF GalleryInv
<1>1. /\ living' = living \cup {<<"said", u>>}
      /\ learnt' = [learnt EXCEPT ![<<"said", u>>] = {}]
      /\ UNCHANGED <<basis, frames, lastFrame, detecting, queued, votedTrack, people, entity, claims, enrolls, severed>>
  BY DEF Say
<1>2. /\ \A f : <<"faces", f>> \in living' <=> <<"faces", f>> \in living
      /\ \A f : <<"presence", f>> \in living' <=> <<"presence", f>> \in living
      /\ \A n : <<"person", n>> \in living' <=> <<"person", n>> \in living
  BY <1>1, Distinct
<1>3. GalleryRows'
  BY <1>1, <1>i, EventNames DEF GalleryRows, EventSets
<1>4. StillToCome'
  BY <1>1, <1>2, <1>i DEF StillToCome
<1>5. Labels'
  <2>1. \A e \in GalleryEvent : learnt'[e] = IF e = <<"said", u>> THEN {} ELSE learnt[e]
    BY <1>1, <1>i DEF GalleryRows
  <2>2. \A e \in living' : e \in GalleryEvent /\ (e = <<"said", u>> \/ e \in living)
    BY <1>1, <1>3 DEF GalleryRows, EventSets
  <2> QED
    BY <1>1, <1>i, <2>1, <2>2 DEF Labels, RestsOn
<1>6. Sources'
  BY <1>1, <1>i DEF Sources
<1> QED
  BY <1>3, <1>4, <1>5, <1>6 DEF GalleryInv

LEMMA EnrollKeeps ==
  ASSUME GalleryInv, NEW u \in Spoken, Enroll(u)
  PROVE  GalleryInv'
<1>i. GalleryRows /\ StillToCome /\ Sources /\ Labels
  BY DEF GalleryInv
<1> DEFINE n == enrolls + 1
           e == <<"person", n>>
           p == IF Gallery(u) = {} THEN n ELSE CHOOSE q \in Gallery(u) : TRUE
           refs == SourceRefs(u) \cup {e}
           row == [refs |-> refs, deps |-> people[p].deps \cup refs]
<1>1. n \in GalleryPerson /\ n \in 0..MaxEnrolls /\ e \in GalleryEvent /\ enrolls \in Nat /\ e \notin living
  <2>1. n \in GalleryPerson /\ enrolls \in Nat /\ MaxEnrolls \in Nat
    BY <1>i, AgentGalleryAssumption DEF Enroll, GalleryRows
  <2>2. n \in 0..MaxEnrolls /\ ~(n <= enrolls)
    BY <2>1 DEF GalleryPerson
  <2> QED
    BY <1>i, <2>1, <2>2, EventNames DEF StillToCome
<1>2. p \in GalleryPerson
  <2>1. Gallery(u) \subseteq GalleryPerson
    <3>1. \A f \in Around(u) : frames[f].person \in GalleryPerson \cup {0}
      BY <1>i DEF Around, GalleryRows, FrameRow
    <3> QED
      BY <3>1 DEF Gallery, NamesIn
  <2> QED
    BY <1>1, <2>1
<1>3. SourceRefs(u) \subseteq living
  BY DEF Enroll, StillValid
<1>4. /\ enrolls' = n /\ living' = living \cup {e}
      /\ basis' = [basis EXCEPT ![e] = Closure(SourceRefs(u))]
      /\ people' = [people EXCEPT ![p] = row]
      /\ entity' = [entity EXCEPT ![p] = refs]
      /\ learnt' = [learnt EXCEPT ![e] = SourceRefs(u)]
      /\ UNCHANGED <<frames, lastFrame, detecting, queued, votedTrack, claims, severed>>
  BY DEF Enroll
<1>5. refs \in EventSets /\ refs \subseteq living' /\ living \subseteq living' /\ living' \in EventSets
  BY <1>1, <1>3, <1>4, <1>i DEF GalleryRows, EventSets
<1>6. row \in PersonRow /\ row.refs = refs /\ refs \subseteq row.deps
  <2>1. people[p].deps \in EventSets
    BY <1>2, <1>i DEF GalleryRows, PersonRow
  <2> HIDE DEF refs, p
  <2> QED
    BY <1>5, <2>1 DEF PersonRow, EventSets
<1>7. /\ Closure(SourceRefs(u)) \in EventSets /\ SourceRefs(u) \in EventSets
      /\ \A x \in SourceRefs(u) : x \in Closure(SourceRefs(u)) /\ basis[x] \subseteq Closure(SourceRefs(u))
  BY <1>3, <1>i DEF Closure, GalleryRows, EventSets
<1>8. /\ \A f : <<"faces", f>> \in living' <=> <<"faces", f>> \in living
      /\ \A f : <<"presence", f>> \in living' <=> <<"presence", f>> \in living
      /\ \A m \in GalleryPerson : <<"person", m>> \in living' => m = n \/ <<"person", m>> \in living
  BY <1>4, Distinct
<1> HIDE DEF n, e, p, refs, row
<1>9. /\ \A x \in living : basis'[x] = basis[x] /\ learnt'[x] = learnt[x]
      /\ basis'[e] = Closure(SourceRefs(u)) /\ learnt'[e] = SourceRefs(u)
  BY <1>1, <1>4, <1>i DEF GalleryRows, EventSets
<1>10. GalleryRows'
  <2>1. people' \in [GalleryPerson -> PersonRow] /\ entity' \in [GalleryPerson -> EventSets]
    BY <1>4, <1>5, <1>6, <1>i DEF GalleryRows
  <2>2. basis' \in [GalleryEvent -> EventSets] /\ learnt' \in [GalleryEvent -> EventSets]
    BY <1>4, <1>7, <1>i DEF GalleryRows
  <2> QED
    BY <1>1, <1>4, <1>5, <1>i, <2>1, <2>2 DEF GalleryRows
<1>11. StillToCome'
  <2>1. \A m \in GalleryPerson : <<"person", m>> \in living' => m <= enrolls'
    <3> SUFFICES ASSUME NEW m \in GalleryPerson, <<"person", m>> \in living' PROVE m <= enrolls'
      OBVIOUS
    <3>1. m = n \/ m <= enrolls
      BY <1>8, <1>i DEF StillToCome
    <3>2. m \in Nat /\ n = enrolls + 1
      BY DEF GalleryPerson, n
    <3> QED
      BY <1>1, <1>4, <3>1, <3>2
  <2> QED
    BY <1>4, <1>8, <1>i, <2>1 DEF StillToCome
<1>12. Labels'
  <2> SUFFICES ASSUME NEW y \in living' \ severed, NEW x \in learnt'[y]
               PROVE  x \in living' /\ x \in basis'[y] /\ basis'[x] \subseteq basis'[y]
    BY <1>4 DEF Labels, RestsOn
  <2>1. CASE y = e
    BY <1>3, <1>5, <1>7, <1>9, <2>1
  <2>2. CASE y # e
    <3>1. y \in living \ severed /\ x \in learnt[y]
      BY <1>4, <1>9, <2>2
    <3>2. x \in living /\ x \in basis[y] /\ basis[x] \subseteq basis[y]
      BY <1>i, <3>1 DEF Labels, RestsOn
    <3> QED
      BY <1>5, <1>9, <3>1, <3>2
  <2> QED
    BY <2>1, <2>2
<1>13. Sources'
  <2>1. \A q \in GalleryPerson : /\ people'[q] = IF q = p THEN row ELSE people[q]
                                 /\ entity'[q] = IF q = p THEN refs ELSE entity[q]
    BY <1>2, <1>4, <1>i DEF GalleryRows
  <2> QED
    BY <1>4, <1>5, <1>6, <1>i, <2>1 DEF Sources
<1> QED
  BY <1>10, <1>11, <1>12, <1>13 DEF GalleryInv

LEMMA RelateKeeps ==
  ASSUME GalleryInv, NEW p \in GalleryPerson, NEW u \in Spoken, Relate(p, u)
  PROVE  GalleryInv'
<1>i. GalleryRows /\ StillToCome /\ Sources /\ Labels
  BY DEF GalleryInv
<1>1. /\ UNCHANGED <<living, basis, frames, lastFrame, detecting, queued, votedTrack, people, entity, enrolls, learnt, severed>>
      /\ claims' = claims \cup {[refs |-> ClaimRefs(p, u), subject |-> entity[p], about |-> p]}
      /\ <<"said", u>> \in living
  BY DEF Relate
<1>2. ClaimRefs(p, u) \subseteq living /\ entity[p] \subseteq ClaimRefs(p, u)
  BY <1>1, <1>i DEF ClaimRefs, Sources
<1>3. Sources'
  BY <1>1, <1>2, <1>i DEF Sources
<1>4. GalleryRows' /\ StillToCome' /\ Labels'
  BY <1>1, <1>i DEF GalleryRows, StillToCome, Labels, RestsOn
<1> QED
  BY <1>3, <1>4 DEF GalleryInv

LEMMA DeleteKeeps ==
  ASSUME GalleryInv, NEW e \in GalleryEvent, DeleteSource(e)
  PROVE  GalleryInv'
<1>i. GalleryRows /\ StillToCome /\ Sources /\ Labels
  BY DEF GalleryInv
<1> DEFINE dead == {x \in living : x = e \/ e \in basis[x]}
<1>1. /\ living' = living \ dead
      /\ people' = [p \in GalleryPerson |-> IF people[p].deps \cap dead = {} THEN people[p] ELSE NoPerson]
      /\ entity' = [p \in GalleryPerson |-> IF entity[p] \cap dead = {} THEN entity[p] ELSE {}]
      /\ claims' = {c \in claims : c.refs \cap dead = {}}
      /\ UNCHANGED <<basis, frames, lastFrame, detecting, queued, votedTrack, enrolls, learnt, severed>>
  BY DEF DeleteSource
<1>2. living' \subseteq living
  BY <1>1
<1>3. NoPerson \in PersonRow /\ NoPerson.refs = {} /\ {} \in EventSets
  BY DEF NoPerson, PersonRow, EventSets
<1>4. Labels'
  <2> SUFFICES ASSUME NEW y \in living' \ severed, NEW x \in learnt[y]
               PROVE  x \in living' /\ x \in basis[y] /\ basis[x] \subseteq basis[y]
    BY <1>1 DEF Labels, RestsOn
  <2>1. x \in living /\ x \in basis[y] /\ basis[x] \subseteq basis[y]
    BY <1>2, <1>i DEF Labels, RestsOn
  <2>2. e \notin basis[y]
    BY <1>1
  <2> QED
    BY <1>1, <2>1, <2>2
<1> HIDE DEF dead
<1>5. GalleryRows'
  <2>1. people' \in [GalleryPerson -> PersonRow] /\ entity' \in [GalleryPerson -> EventSets]
    BY <1>1, <1>3, <1>i DEF GalleryRows
  <2> QED
    BY <1>1, <1>2, <1>i, <2>1 DEF GalleryRows, EventSets
<1>6. StillToCome'
  BY <1>1, <1>2, <1>i DEF StillToCome
<1>7. Sources'
  BY <1>1, <1>3, <1>i DEF Sources
<1> QED
  BY <1>4, <1>5, <1>6, <1>7 DEF GalleryInv

LEMMA GalleryStep == GalleryInv /\ [AgentGalleryNext]_galleryVars => GalleryInv'
  BY AcceptKeeps, NobodyKeeps, DetectedKeeps, DyingKeeps, QuietKeeps, SayKeeps, EnrollKeeps, RelateKeeps, DeleteKeeps
     DEF AgentGalleryNext

LEMMA GalleryInvariant == AgentGallerySpec => []GalleryInv
  BY GalleryStarts, GalleryStep, PTL DEF AgentGallerySpec

LEMMA GalleryMeans == GalleryInv => AgentGalleryTypeOK /\ NothingOutlivesItsSource
<1> SUFFICES ASSUME GalleryInv PROVE AgentGalleryTypeOK /\ NothingOutlivesItsSource
  OBVIOUS
<1>i. GalleryRows /\ Sources /\ Labels
  BY DEF GalleryInv
<1>1. {detecting, queued} \subseteq 0..MaxFrames
  BY <1>i, AgentGalleryAssumption DEF GalleryRows
<1>2. \A p \in GalleryPerson : (people[p].refs \cup entity[p]) \subseteq GalleryEvent
  BY <1>i DEF GalleryRows, PersonRow, EventSets
<1>3. \A f \in FrameId : frames[f].state \in {"none", "raw", "empty", "face"}
  BY <1>i DEF GalleryRows, FrameRow
<1>4. AgentGalleryTypeOK
  BY <1>1, <1>2, <1>3, <1>i DEF AgentGalleryTypeOK, GalleryRows, EventSets
<1>5. NothingOutlivesItsSource
  BY <1>i DEF NothingOutlivesItsSource, Sources, Labels, RestsOn
<1> QED
  BY <1>4, <1>5

\* When the user deletes something said or seen, nothing stands that was learnt from it, for
\* any number of frames, enrollments, claims and deletions: no row of the gallery, no node of
\* the graph, no claim, and no event written of a frame that was at the face service meanwhile.
\* Excepted are the events about a frame that the agent was writing when its process died
\* (severed): they may lack the dependencies by which a deletion finds them.
THEOREM NothingStandsWithoutItsSource == AgentGallerySpec => []NothingOutlivesItsSource
<1> QED
  BY GalleryInvariant, GalleryMeans, PTL

-----------------------------------------------------------------------------
(* The page *)

PageRows ==
    /\ pageState \in {"connecting", "connected", "unavailable"} /\ bootstrapping \in BOOLEAN /\ retryTimer \in BOOLEAN
    /\ agentRun \in Nat /\ cookie \in 0..agentRun
    /\ message \in [PageMessage -> {"none", "pending", "over"}]
    /\ listed \subseteq PageMessage /\ streamed \subseteq PageMessage /\ eventSource \in {"none", "open", "lost"}
    /\ poll \in [at: {"none", "sent", "answered", "refused"}, old: BOOLEAN, list: SUBSET PageMessage]
    /\ marking \in [of: PageMessage \cup {NoMessage}, at: {"none", "sent", "refused", "acked", "not acked"}, old: BOOLEAN]
    /\ marking.at # "none" => marking.of \in PageMessage

\* A page that asks for a session has no timer that would ask as well.
FeedInv == PageRows /\ OneFeed /\ (bootstrapping => ~retryTimer)

LEMMA MarkingIs ==
  ASSUME NEW of \in PageMessage \cup {NoMessage}, NEW at \in {"none", "sent", "refused", "acked", "not acked"}
  PROVE  [of |-> of, at |-> at, old |-> FALSE] \in
            [of: PageMessage \cup {NoMessage}, at: {"none", "sent", "refused", "acked", "not acked"}, old: BOOLEAN]
OBVIOUS

LEMMA FeedStarts == AgentPageInit => FeedInv
<1> SUFFICES ASSUME AgentPageInit PROVE FeedInv
  OBVIOUS
<1>1. NoAck \in [of: PageMessage \cup {NoMessage}, at: {"none", "sent", "refused", "acked", "not acked"}, old: BOOLEAN]
  BY MarkingIs DEF NoAck
<1>2. NoPoll \in [at: {"none", "sent", "answered", "refused"}, old: BOOLEAN, list: SUBSET PageMessage]
  BY DEF NoPoll
<1>3. agentRun \in Nat /\ cookie \in 0..agentRun
  BY DEF AgentPageInit
<1>4. marking.at = "none"
  BY DEF AgentPageInit, NoAck
<1> QED
  BY <1>1, <1>2, <1>3, <1>4 DEF AgentPageInit, FeedInv, PageRows, OneFeed

PageFeed == <<pageState, bootstrapping, retryTimer, pollers, eventSource>>

LEMMA FeedTypes ==
  ASSUME FeedInv, [AgentPageNext]_agentPageVars
  PROVE  PageRows'
<1>i. PageRows
  BY DEF FeedInv
<1>c. agentRun \in Nat /\ cookie \in Nat /\ cookie <= agentRun
  <2>1. agentRun \in Nat /\ cookie \in 0..agentRun
    BY <1>i DEF PageRows
  <2> QED
    BY <2>1
<1>1. ASSUME NEW n \in PageMessage, ShowNotice(n) \/ SettledElsewhere(n) PROVE PageRows'
  BY <1>1, <1>i DEF ShowNotice, SettledElsewhere, PageRows, linkVars
<1>2. ASSUME NEW n \in PageMessage, Streams(n) PROVE PageRows'
  BY <1>2, <1>i DEF Streams, PageRows, agentVars
<1>3. ASSUME NEW n \in PageMessage, PressRead(n) PROVE PageRows'
  <2>1. marking' = [NoAck EXCEPT !.of = n, !.at = "sent"]
    BY <1>3 DEF PressRead
  <2>2. marking' = [of |-> n, at |-> "sent", old |-> FALSE]
    BY <2>1 DEF NoAck
  <2> QED
    BY <1>3, <1>i, <2>2, MarkingIs DEF PressRead, PageRows, agentVars, linkVars
<1>4. CASE AgentIsRestarted
  <2>1. agentRun' \in Nat /\ cookie' \in 0..agentRun'
    <3>1. agentRun' = agentRun + 1 /\ cookie' = cookie
      BY <1>4 DEF AgentIsRestarted
    <3> QED
      BY <1>c, <3>1
  <2> QED
    BY <1>4, <1>i, <2>1 DEF AgentIsRestarted, PageRows
<1>5. CASE Outage
  BY <1>5, <1>i DEF Outage, PageRows
<1>6. CASE StreamAgain \/ TimePasses
  BY <1>6, <1>i DEF StreamAgain, TimePasses, PageRows, agentVars
<1>7. CASE PageConnected
  <2>1. cookie' \in 0..agentRun'
    <3>1. agentRun' = agentRun /\ cookie' = agentRun
      BY <1>7 DEF PageConnected, agentVars
    <3> QED
      BY <1>c, <3>1
  <2>2. poll' \in [at: {"none", "sent", "answered", "refused"}, old: BOOLEAN, list: SUBSET PageMessage]
    BY <1>7, <1>i DEF PageConnected, PageRows
  <2>3. /\ marking' \in [of: PageMessage \cup {NoMessage}, at: {"none", "sent", "refused", "acked", "not acked"}, old: BOOLEAN]
        /\ marking'.of = marking.of /\ marking'.at = marking.at
    BY <1>7, <1>i DEF PageConnected, PageRows
  <2> QED
    BY <1>7, <1>i, <2>1, <2>2, <2>3 DEF PageConnected, PageRows, agentVars
<1>8. CASE NotConnected
  BY <1>8, <1>i DEF NotConnected, Disconnected, StopsLive, PageRows, agentVars
<1>9. CASE ResumePage
  BY <1>9, <1>i DEF ResumePage, MarkUnavailable, Disconnected, StopsLive, PageRows, agentVars
<1>10. CASE PollPage \/ PollReachesAgent
  <2>1. poll' \in [at: {"none", "sent", "answered", "refused"}, old: BOOLEAN, list: SUBSET PageMessage]
    <3>1. CASE PollPage
      <4>1. poll' = [at |-> "sent", old |-> FALSE, list |-> {}]
        BY <3>1 DEF PollPage, NoPoll
      <4> QED
        BY <4>1
    <3>2. CASE PollReachesAgent
      <4>1. PendingMessages \in SUBSET PageMessage
        BY DEF PendingMessages
      <4> QED
        BY <1>i, <3>2, <4>1 DEF PollReachesAgent, PageRows
    <3> QED
      BY <1>10, <3>1, <3>2
  <2> QED
    BY <1>10, <1>i, <2>1 DEF PollPage, PollReachesAgent, PageRows, agentVars, linkVars
<1>11. CASE PollAnswered
  <2>1. poll' \in [at: {"none", "sent", "answered", "refused"}, old: BOOLEAN, list: SUBSET PageMessage]
    BY <1>11 DEF PollAnswered, NoPoll
  <2>2. listed' \subseteq PageMessage
    BY <1>11, <1>i DEF PollAnswered, RefreshedList, PageRows
  <2> QED
    BY <1>11, <1>i, <2>1, <2>2 DEF PollAnswered, Unauthorized, MarkUnavailable, Disconnected, StopsLive, PageRows, agentVars
<1>12. CASE AckReachesAgent
  <2>1. marking.of \in PageMessage
    BY <1>12, <1>i DEF AckReachesAgent, PageRows
  <2>2. message' \in [PageMessage -> {"none", "pending", "over"}]
    BY <1>12, <1>i, <2>1 DEF AckReachesAgent, PageRows
  <2>3. /\ marking' \in [of: PageMessage \cup {NoMessage}, at: {"none", "sent", "refused", "acked", "not acked"}, old: BOOLEAN]
        /\ marking'.of = marking.of
    BY <1>12, <1>i DEF AckReachesAgent, PageRows
  <2> QED
    BY <1>12, <1>i, <2>1, <2>2, <2>3 DEF AckReachesAgent, PageRows, linkVars
<1>13. CASE AckAnswered
  <2>1. /\ marking' \in [of: PageMessage \cup {NoMessage}, at: {"none", "sent", "refused", "acked", "not acked"}, old: BOOLEAN]
        /\ marking'.at = "none"
    BY <1>13 DEF AckAnswered, NoAck
  <2>2. listed' \subseteq PageMessage
    BY <1>13, <1>i DEF AckAnswered, PageRows
  <2> QED
    BY <1>13, <1>i, <2>1, <2>2 DEF AckAnswered, Unauthorized, MarkUnavailable, Disconnected, StopsLive, PageRows, agentVars
<1>14. CASE UNCHANGED agentPageVars
  BY <1>14, <1>i DEF agentPageVars, PageRows
<1> QED
  BY <1>1, <1>2, <1>3, <1>4, <1>5, <1>6, <1>7, <1>8, <1>9, <1>10, <1>11, <1>12, <1>13, <1>14 DEF AgentPageNext

LEMMA FeedSteps ==
  ASSUME FeedInv, [AgentPageNext]_agentPageVars
  PROVE  OneFeed' /\ (bootstrapping' => ~retryTimer')
<1>i. /\ OneFeed /\ (bootstrapping => ~retryTimer) /\ pageState \in {"connecting", "connected", "unavailable"}
      /\ eventSource \in {"none", "open", "lost"}
  BY DEF FeedInv, PageRows
<1>u. UNCHANGED PageFeed => OneFeed' /\ (bootstrapping' => ~retryTimer')
  BY <1>i DEF PageFeed, OneFeed
<1>1. CASE \/ (\E n \in PageMessage : ShowNotice(n) \/ SettledElsewhere(n) \/ Streams(n) \/ PressRead(n))
           \/ TimePasses \/ PollPage \/ PollReachesAgent \/ AckReachesAgent \/ UNCHANGED agentPageVars
  BY <1>1, <1>u DEF ShowNotice, SettledElsewhere, Streams, PressRead, TimePasses, PollPage, PollReachesAgent,
                    AckReachesAgent, linkVars, agentPageVars, PageFeed
<1>2. CASE AgentIsRestarted \/ Outage
  BY <1>2, <1>i DEF AgentIsRestarted, Outage, OneFeed
<1>3. CASE StreamAgain \/ PageConnected \/ NotConnected
  BY <1>3, <1>i DEF StreamAgain, PageConnected, NotConnected, Disconnected, StopsLive, OneFeed
<1>m. MarkUnavailable => OneFeed' /\ (bootstrapping' => ~retryTimer')
  BY <1>i, <1>u DEF MarkUnavailable, Disconnected, StopsLive, OneFeed, PageFeed
<1>a. \A old \in BOOLEAN : Unauthorized(old) => OneFeed' /\ (bootstrapping' => ~retryTimer')
  BY <1>i, <1>u DEF Unauthorized, Disconnected, StopsLive, OneFeed, PageFeed
<1>4. CASE ResumePage
  <2>1. CASE ValidCookie
    BY <1>4, <1>i, <2>1 DEF ResumePage, OneFeed
  <2>2. CASE ~ValidCookie
    BY <1>4, <1>m, <2>2 DEF ResumePage
  <2> QED
    BY <2>1, <2>2
<1>5. CASE PollAnswered
  <2>1. poll.old \in BOOLEAN
    BY DEF FeedInv, PageRows
  <2>2. UNCHANGED PageFeed \/ Unauthorized(poll.old) \/ MarkUnavailable
    BY <1>5 DEF PollAnswered, PageFeed
  <2> QED
    BY <1>a, <1>m, <1>u, <2>1, <2>2
<1>6. CASE AckAnswered
  <2>1. marking.old \in BOOLEAN
    BY DEF FeedInv, PageRows
  <2>2. UNCHANGED PageFeed \/ Unauthorized(marking.old) \/ MarkUnavailable
    BY <1>6 DEF AckAnswered, PageFeed
  <2> QED
    BY <1>a, <1>m, <1>u, <2>1, <2>2
<1> QED
  BY <1>1, <1>2, <1>3, <1>4, <1>5, <1>6 DEF AgentPageNext

LEMMA FeedStep == FeedInv /\ [AgentPageNext]_agentPageVars => FeedInv'
BY FeedTypes, FeedSteps DEF FeedInv

LEMMA FeedMeans == FeedInv => AgentPageTypeOK /\ OneFeed
BY DEF FeedInv, PageRows, AgentPageTypeOK

\* One poll timer and one stream while the page is connected, none otherwise, and a page that is
\* not connected is about to be: whatever is restarted, refused, late or unreachable (app.ts).
THEOREM ThePageHasOneFeed == AgentPageSpec => []OneFeed
<1> QED
  BY FeedStarts, FeedStep, FeedMeans, PTL DEF AgentPageSpec

-----------------------------------------------------------------------------
(* The archive *)

JournalRow == [of: Utterance, revision: Int, hour: Hours]
SearchRow == [cursor: Nat, ceiling: Nat, found: SUBSET Nat, began: SUBSET Nat, n: Nat]
Export == [hour: Hours, version: Nat, rows: SUBSET Nat, stored: BOOLEAN]

ArchiveRows ==
    /\ journal \in Seq(JournalRow) /\ erased \subseteq Utterance /\ hour \in Hours /\ up \in BOOLEAN
    /\ version \in [Hours -> Nat] /\ exported \in [Hours -> Nat] /\ file \in [Hours -> SUBSET Nat]
    /\ flushing \in {"no", "closed hours", "all hours"} /\ crashes \in 0..MaxCrashes
    /\ writing \in Export
    /\ search \in SearchRow
    /\ \A h \in Hours : file[h] \subseteq DOMAIN journal
    /\ writing # NoWriting => writing.rows \subseteq DOMAIN journal

\* What is being written is the hour as it was at its version, which no export has reached.
WritingHolds == writing # NoWriting =>
    /\ exported[writing.hour] < writing.version /\ writing.version <= version[writing.hour]
    /\ writing.version = version[writing.hour] => writing.rows = RowsOf(writing.hour)
    /\ writing.stored => file[writing.hour] = writing.rows

NeverAhead == \A h \in Hours : exported[h] <= version[h]

\* What is found is the latest up to the cursor of what was when the search began; a row that
\* is not the latest of its event any more never is again.
SearchHolds == Searching =>
    /\ search.ceiling <= Len(journal)
    /\ search.began \subseteq 1..search.ceiling /\ search.found \subseteq search.began
    /\ \A i \in 1..search.ceiling : Latest(i) => i \in search.began
    /\ \A i \in search.began : i <= search.cursor /\ Latest(i) => i \in search.found

ArchiveInv ==
    ArchiveRows /\ WritingHolds /\ NeverAhead /\ SearchHolds /\ ExportedIsTheJournal /\ SearchTellsTheTruth

LEMMA BoundsAre ==
  MaxRevision \in Nat /\ MaxHour \in Nat /\ MaxCrashes \in Nat /\ 0 \in Hours
<1>1. MaxRevision \in Nat /\ MaxHour \in Nat /\ MaxCrashes \in Nat
  BY ArchiveAssumption
<1> QED
  BY <1>1 DEF Hours

\* A record of a search, and what becomes of it.
LEMMA SearchIs ==
  ASSUME search \in SearchRow
  PROVE  /\ NoSearch \in SearchRow /\ [NoSearch EXCEPT !.n = search.n] \in SearchRow
         /\ [NoSearch EXCEPT !.n = search.n].ceiling = 0
         /\ search.cursor \in Nat /\ search.ceiling \in Nat /\ search.found \subseteq Nat
         /\ \A i \in Nat : /\ [search EXCEPT !.cursor = i, !.found = search.found \cup {i}] \in SearchRow
                         /\ [search EXCEPT !.cursor = i, !.found = search.found \cup {i}].cursor = i
                         /\ [search EXCEPT !.cursor = i, !.found = search.found \cup {i}].ceiling = search.ceiling
                         /\ [search EXCEPT !.cursor = i, !.found = search.found \cup {i}].began = search.began
                         /\ [search EXCEPT !.cursor = i, !.found = search.found \cup {i}].found = search.found \cup {i}
<1>1. /\ [NoSearch EXCEPT !.n = search.n] = [cursor |-> 0, ceiling |-> 0, found |-> {}, began |-> {}, n |-> search.n]
      /\ search.n \in Nat /\ search.found \subseteq Nat
  BY DEF NoSearch, SearchRow
<1>2. NoSearch \in SearchRow
  BY DEF NoSearch, SearchRow
<1>3. [cursor |-> 0, ceiling |-> 0, found |-> {}, began |-> {}, n |-> search.n] \in SearchRow
  BY <1>1 DEF SearchRow
<1>4. \A i \in Nat : search.found \cup {i} \in SUBSET Nat
  BY <1>1
<1> QED
  BY <1>1, <1>2, <1>3, <1>4 DEF SearchRow

LEMMA SearchNumbers ==
  ASSUME search \in SearchRow
  PROVE  search.cursor \in Nat /\ search.ceiling \in Nat
BY DEF SearchRow

\* What is not read yet lies between the cursor and the ceiling.
LEMMA UnreadIs ==
  ASSUME search \in SearchRow, NEW i
  PROVE  i \in Unread <=> i \in Nat /\ i > search.cursor /\ i <= search.ceiling /\ Latest(i)
<1>1. search.cursor \in Nat /\ search.ceiling \in Nat
  BY SearchNumbers
<1>2. i \in (search.cursor + 1)..search.ceiling <=> i \in Nat /\ i > search.cursor /\ i <= search.ceiling
  BY <1>1
<1> QED
  BY <1>2 DEF Unread

LEMMA NothingIsAnExport == NoWriting \in Export
<1>1. 0 \in Hours /\ {} \in SUBSET Nat
  BY BoundsAre
<1> QED
  BY <1>1 DEF NoWriting, Export

LEMMA ArchiveStarts == ArchiveInit => ArchiveInv
<1> SUFFICES ASSUME ArchiveInit PROVE ArchiveInv
  OBVIOUS
<1>1. 0 \in Hours /\ 0 \in 0..MaxCrashes
  BY BoundsAre
<1>2. NoWriting \in Export
  BY NothingIsAnExport
<1>3. journal \in Seq(JournalRow) /\ DOMAIN journal = {}
  BY EmptySeq DEF ArchiveInit
<1>4. ArchiveRows
  <2>1. search \in SearchRow
    BY <1>1 DEF ArchiveInit, NoSearch, SearchRow
  <2> QED
    BY <1>1, <1>2, <1>3, <2>1 DEF ArchiveInit, ArchiveRows
<1>5. WritingHolds /\ NeverAhead /\ SearchTellsTheTruth /\ SearchHolds
  BY DEF ArchiveInit, WritingHolds, NeverAhead, SearchTellsTheTruth, SearchHolds, Searching, NoSearch
<1>6. ExportedIsTheJournal
  BY <1>3 DEF ArchiveInit, ExportedIsTheJournal, RowsOf
<1> QED
  BY <1>4, <1>5, <1>6 DEF ArchiveInv

\* The journal only grows, and what is deleted stays deleted.
Grows ==
    /\ journal \in Seq(JournalRow) /\ journal' \in Seq(JournalRow) /\ DOMAIN journal \subseteq DOMAIN journal'
    /\ Len(journal) <= Len(journal')
    /\ \A i \in DOMAIN journal : journal'[i] = journal[i]
    /\ erased \subseteq erased'

LEMMA NeverLatestAgain ==
  ASSUME Grows, NEW i \in DOMAIN journal, Latest(i)'
  PROVE  Latest(i)
BY DEF Grows, Latest, Written

LEMMA SearchGoesOn ==
  ASSUME Grows, SearchHolds, search \in SearchRow, UNCHANGED <<search, answer>>
  PROVE  SearchHolds'
<1> SUFFICES ASSUME Searching PROVE SearchHolds'
  BY DEF SearchHolds, Searching
<1>1. \A i \in 1..search.ceiling : i \in DOMAIN journal
  <2>1. Len(journal) \in Nat /\ DOMAIN journal = 1..Len(journal) /\ search.ceiling \in Nat
    BY LenProperties, SearchNumbers DEF Grows
  <2>2. search.ceiling <= Len(journal)
    BY DEF SearchHolds
  <2> QED
    BY <2>1, <2>2
<1>2. \A i \in 1..search.ceiling : Latest(i)' => Latest(i)
  BY <1>1, NeverLatestAgain
<1>3. Len(journal) \in Nat /\ Len(journal') \in Nat
  BY LenProperties DEF Grows
<1> QED
  <2>1. search.ceiling <= Len(journal) /\ search.ceiling \in Nat /\ Len(journal) <= Len(journal')
    BY SearchNumbers DEF SearchHolds, Grows
  <2>2. search'.ceiling <= Len(journal')
    BY <1>3, <2>1
  <2>3. \A i \in search.began : i \in 1..search.ceiling
    BY DEF SearchHolds
  <2> QED
    BY <1>2, <2>2, <2>3 DEF SearchHolds, Searching

LEMMA ReceiveKeeps ==
  ASSUME ArchiveInv, NEW u \in Utterance, NEW r \in 1..MaxRevision, Receive(u, r)
  PROVE  ArchiveInv'
<1>i. ArchiveRows /\ WritingHolds /\ NeverAhead /\ SearchHolds /\ ExportedIsTheJournal /\ SearchTellsTheTruth
  BY DEF ArchiveInv
<1> DEFINE row == [of |-> u, revision |-> r, hour |-> hour]
<1>1. /\ journal' = Append(journal, row)
      /\ version' = [h \in Hours |-> IF h \in {hour} THEN version[h] + 1 ELSE version[h]]
      /\ UNCHANGED <<erased, hour, exported, file, flushing, writing, up, crashes, search, answer>>
  BY DEF Receive, Dirty
<1>2. row \in JournalRow /\ row.hour = hour
  <2>1. r \in Int
    BY BoundsAre
  <2>2. hour \in Hours
    BY <1>i DEF ArchiveRows
  <2> QED
    BY <2>1, <2>2 DEF JournalRow
<1> HIDE DEF row
<1>3. /\ journal' \in Seq(JournalRow) /\ Len(journal') = Len(journal) + 1 /\ Len(journal) \in Nat
      /\ DOMAIN journal = 1..Len(journal) /\ DOMAIN journal' = 1..(Len(journal) + 1)
      /\ \A i \in DOMAIN journal : journal'[i] = journal[i]
      /\ journal'[Len(journal) + 1] = row
  <2>1. journal \in Seq(JournalRow)
    BY <1>i DEF ArchiveRows
  <2>2. Len(journal) \in Nat /\ DOMAIN journal = 1..Len(journal)
    BY <2>1, LenProperties
  <2>3. /\ journal' \in Seq(JournalRow) /\ Len(journal') = Len(journal) + 1
        /\ \A i \in 1..Len(journal) : journal'[i] = journal[i]
        /\ journal'[Len(journal) + 1] = row
    BY <1>1, <1>2, <2>1, AppendProperties
  <2>4. DOMAIN journal' = 1..Len(journal')
    BY <2>3, LenProperties
  <2> QED
    BY <2>2, <2>3, <2>4
<1>4. Grows
  <2>1. journal \in Seq(JournalRow)
    BY <1>i DEF ArchiveRows
  <2>2. DOMAIN journal \subseteq DOMAIN journal' /\ Len(journal) <= Len(journal')
    BY <1>3
  <2>3. erased \subseteq erased'
    BY <1>1
  <2> QED
    BY <1>3, <2>1, <2>2, <2>3 DEF Grows
<1>5. \A h \in Hours : h # hour => RowsOf(h)' = RowsOf(h) /\ version'[h] = version[h]
  BY <1>1, <1>2, <1>3 DEF RowsOf, Written
<1>6. version' \in [Hours -> Nat] /\ version'[hour] = version[hour] + 1 /\ hour \in Hours
  <2>1. version \in [Hours -> Nat] /\ hour \in Hours
    BY <1>i DEF ArchiveRows
  <2>2. version' = [h \in Hours |-> IF h \in {hour} THEN version[h] + 1 ELSE version[h]]
    BY <1>1
  <2>3. \A h \in Hours : version[h] \in Nat /\ version[h] + 1 \in Nat
    BY <2>1
  <2> QED
    BY <2>1, <2>2, <2>3
<1>7. ArchiveRows'
  BY <1>1, <1>3, <1>4, <1>6, <1>i DEF ArchiveRows, Grows
<1>8. WritingHolds'
  <2> SUFFICES ASSUME writing # NoWriting PROVE WritingHolds'
    BY <1>1 DEF WritingHolds
  <2>1. writing.hour \in Hours /\ writing.version \in Nat
    BY <1>i DEF ArchiveRows, Export
  <2>2. CASE writing.hour = hour
    <3>1. version[hour] \in Nat
      BY <1>i DEF ArchiveRows
    <3> QED
      BY <1>1, <1>6, <1>i, <2>1, <2>2, <3>1 DEF WritingHolds
  <2>3. CASE writing.hour # hour
    BY <1>1, <1>5, <1>i, <2>1, <2>3 DEF WritingHolds
  <2> QED
    BY <2>2, <2>3
<1>9. NeverAhead' /\ ExportedIsTheJournal'
  <2> SUFFICES ASSUME NEW h \in Hours
               PROVE  exported[h] <= version'[h] /\ (exported[h] = version'[h] => file[h] = RowsOf(h)')
    BY <1>1 DEF NeverAhead, ExportedIsTheJournal
  <2>1. exported[h] \in Nat /\ version[h] \in Nat /\ exported[h] <= version[h]
    BY <1>i DEF ArchiveRows, NeverAhead
  <2> QED
    BY <1>5, <1>6, <1>i, <2>1 DEF ExportedIsTheJournal
<1>10. SearchHolds' /\ SearchTellsTheTruth'
  BY <1>1, <1>4, <1>i, SearchGoesOn DEF SearchTellsTheTruth, ArchiveRows
<1> QED
  BY <1>7, <1>8, <1>9, <1>10 DEF ArchiveInv

LEMMA EraseKeeps ==
  ASSUME ArchiveInv, NEW u \in Utterance, Erase(u)
  PROVE  ArchiveInv'
<1>i. ArchiveRows /\ WritingHolds /\ NeverAhead /\ SearchHolds /\ ExportedIsTheJournal /\ SearchTellsTheTruth
  BY DEF ArchiveInv
<1>1. /\ version' = [h \in Hours |-> IF h \in HoursOf(u) THEN version[h] + 1 ELSE version[h]]
      /\ erased' = erased \cup {u}
      /\ UNCHANGED <<journal, hour, exported, file, flushing, writing, up, crashes, search, answer>>
  BY DEF Erase, Dirty
<1>2. Grows
  <2>1. journal \in Seq(JournalRow)
    BY <1>i DEF ArchiveRows
  <2>2. Len(journal) \in Nat
    BY <2>1, LenProperties
  <2>3. journal' = journal /\ erased \subseteq erased'
    BY <1>1
  <2> QED
    BY <2>1, <2>2, <2>3 DEF Grows
<1>3. \A h \in Hours : h \notin HoursOf(u) => RowsOf(h)' = RowsOf(h) /\ version'[h] = version[h]
  BY <1>1 DEF RowsOf, Written, HoursOf
<1>4. version' \in [Hours -> Nat] /\ \A h \in HoursOf(u) \cap Hours : version'[h] = version[h] + 1
  <2>1. version \in [Hours -> Nat]
    BY <1>i DEF ArchiveRows
  <2>2. \A h \in Hours : version[h] \in Nat /\ version[h] + 1 \in Nat
    BY <2>1
  <2>3. version' = [h \in Hours |-> IF h \in HoursOf(u) THEN version[h] + 1 ELSE version[h]]
    BY <1>1
  <2> QED
    BY <2>2, <2>3
<1>5. ArchiveRows'
  BY <1>1, <1>4, <1>i DEF ArchiveRows
<1>6. WritingHolds'
  <2> SUFFICES ASSUME writing # NoWriting PROVE WritingHolds'
    BY <1>1 DEF WritingHolds
  <2>1. writing.hour \in Hours /\ writing.version \in Nat /\ version[writing.hour] \in Nat
    BY <1>i DEF ArchiveRows, Export
  <2>2. CASE writing.hour \in HoursOf(u)
    BY <1>1, <1>4, <1>i, <2>1, <2>2 DEF WritingHolds
  <2>3. CASE writing.hour \notin HoursOf(u)
    BY <1>1, <1>3, <1>i, <2>1, <2>3 DEF WritingHolds
  <2> QED
    BY <2>2, <2>3
<1>7. NeverAhead' /\ ExportedIsTheJournal'
  <2> SUFFICES ASSUME NEW h \in Hours
               PROVE  exported[h] <= version'[h] /\ (exported[h] = version'[h] => file[h] = RowsOf(h)')
    BY <1>1 DEF NeverAhead, ExportedIsTheJournal
  <2>1. exported[h] \in Nat /\ version[h] \in Nat /\ exported[h] <= version[h]
    BY <1>i DEF ArchiveRows, NeverAhead
  <2> QED
    BY <1>3, <1>4, <1>i, <2>1 DEF ExportedIsTheJournal
<1>8. SearchHolds' /\ SearchTellsTheTruth'
  BY <1>1, <1>2, <1>i, SearchGoesOn DEF SearchTellsTheTruth, ArchiveRows
<1> QED
  BY <1>5, <1>6, <1>7, <1>8 DEF ArchiveInv

\* The journal stands still.
LEMMA StillJournal ==
  ASSUME UNCHANGED <<journal, erased>>
  PROVE  /\ \A h : RowsOf(h)' = RowsOf(h)
         /\ \A i : Latest(i)' = Latest(i)
BY DEF RowsOf, Latest, Written

LEMMA WriteKeeps ==
  ASSUME ArchiveInv,
         HourPasses \/ (\E all \in BOOLEAN : Flush(all)) \/ Read \/ Store \/ Mark \/ Drained \/ WriteFails \/ ComesBack
  PROVE  ArchiveInv'
<1>i. ArchiveRows /\ WritingHolds /\ NeverAhead /\ SearchHolds /\ ExportedIsTheJournal /\ SearchTellsTheTruth
  BY DEF ArchiveInv
<1>j. UNCHANGED <<journal, erased, version, search, answer>>
  BY DEF HourPasses, Flush, Read, Store, Mark, Drained, WriteFails, ComesBack
<1>r. /\ \A h : RowsOf(h)' = RowsOf(h)
      /\ \A i : Latest(i)' = Latest(i)
  BY <1>j, StillJournal
<1>s. SearchHolds' /\ SearchTellsTheTruth'
  BY <1>i, <1>j, <1>r DEF SearchHolds, Searching, SearchTellsTheTruth
<1>w. NoWriting \in Export
  BY NothingIsAnExport
<1>q. ASSUME UNCHANGED <<exported, file>>, writing' = writing \/ writing' = NoWriting
      PROVE  WritingHolds' /\ NeverAhead' /\ ExportedIsTheJournal'
  BY <1>i, <1>j, <1>q, <1>r DEF WritingHolds, NeverAhead, ExportedIsTheJournal
<1>1. CASE HourPasses
  <2>1. hour' \in Hours
    <3>1. hour \in Hours /\ hour < MaxHour /\ hour' = hour + 1
      BY <1>1, <1>i DEF HourPasses, ArchiveRows
    <3> QED
      BY <3>1, BoundsAre DEF Hours
  <2>2. ArchiveRows'
    BY <1>1, <1>i, <2>1 DEF HourPasses, ArchiveRows
  <2> QED
    BY <1>1, <1>q, <1>s, <2>2 DEF HourPasses, ArchiveInv
<1>2. CASE (\E all \in BOOLEAN : Flush(all)) \/ Drained \/ ComesBack
  <2>1. ArchiveRows'
    BY <1>2, <1>i DEF Flush, Drained, ComesBack, ArchiveRows
  <2>2. UNCHANGED <<exported, file, writing>>
    BY <1>2 DEF Flush, Drained, ComesBack
  <2> QED
    BY <1>q, <1>s, <2>1, <2>2 DEF ArchiveInv
<1>3. CASE WriteFails
  <2>1. crashes' \in 0..MaxCrashes
    <3>1. crashes \in 0..MaxCrashes /\ crashes < MaxCrashes /\ crashes' = crashes + 1
      BY <1>3, <1>i DEF WriteFails, ArchiveRows
    <3> QED
      BY <3>1, BoundsAre
  <2>2. ArchiveRows'
    BY <1>3, <1>i, <1>w, <2>1 DEF WriteFails, ArchiveRows
  <2> QED
    BY <1>3, <1>q, <1>s, <2>2 DEF WriteFails, ArchiveInv
<1>4. CASE Read
  <2>1. PICK h \in Behind : writing' = [hour |-> h, version |-> version[h], rows |-> RowsOf(h), stored |-> FALSE]
    BY <1>4 DEF Read
  <2>2. h \in Hours /\ exported[h] < version[h] /\ version[h] \in Nat /\ exported[h] \in Nat
    BY <1>i DEF Behind, ArchiveRows
  <2>3. RowsOf(h) \subseteq DOMAIN journal /\ DOMAIN journal \subseteq Nat
    <3>1. journal \in Seq(JournalRow)
      BY <1>i DEF ArchiveRows
    <3>2. DOMAIN journal = 1..Len(journal) /\ Len(journal) \in Nat
      BY <3>1, LenProperties
    <3> QED
      BY <3>2 DEF RowsOf
  <2>4. writing' \in Export
    BY <2>1, <2>2, <2>3 DEF Export
  <2>5. ArchiveRows'
    BY <1>4, <1>i, <1>j, <2>1, <2>3, <2>4 DEF Read, ArchiveRows
  <2>6. WritingHolds' /\ NeverAhead' /\ ExportedIsTheJournal'
    BY <1>4, <1>i, <1>j, <1>r, <2>1, <2>2 DEF Read, WritingHolds, NeverAhead, ExportedIsTheJournal
  <2> QED
    BY <1>s, <2>5, <2>6 DEF ArchiveInv
<1>5. CASE Store
  <2>1. writing # NoWriting /\ writing.hour \in Hours /\ writing.rows \subseteq Nat
    <3>1. writing \in Export /\ ~writing.stored
      BY <1>5, <1>i DEF Store, ArchiveRows
    <3> QED
      BY <3>1 DEF NoWriting, Export
  <2>2. /\ file' = [file EXCEPT ![writing.hour] = writing.rows] /\ writing' = [writing EXCEPT !.stored = TRUE]
        /\ UNCHANGED <<exported, hour, flushing, up, crashes>>
    BY <1>5 DEF Store
  <2>3. writing' \in Export /\ writing'.hour = writing.hour /\ writing'.version = writing.version /\ writing'.rows = writing.rows
    BY <1>i, <2>2 DEF ArchiveRows, Export
  <2>4. file' \in [Hours -> SUBSET Nat] /\ \A h \in Hours : file'[h] = IF h = writing.hour THEN writing.rows ELSE file[h]
    BY <1>i, <2>1, <2>2 DEF ArchiveRows
  <2>5. ArchiveRows'
    BY <1>i, <1>j, <2>1, <2>2, <2>3, <2>4 DEF ArchiveRows
  <2>6. WritingHolds' /\ NeverAhead'
    BY <1>i, <1>j, <1>r, <2>1, <2>2, <2>3, <2>4 DEF WritingHolds, NeverAhead
  <2>7. ExportedIsTheJournal'
    <3> SUFFICES ASSUME NEW h \in Hours, exported[h] = version[h] PROVE file'[h] = RowsOf(h)
      BY <1>j, <1>r, <2>2 DEF ExportedIsTheJournal
    <3>1. h # writing.hour
      <4>1. exported[h] \in Nat /\ version[h] \in Nat /\ writing.version \in Nat
        BY <1>i DEF ArchiveRows, Export
      <4> QED
        BY <1>i, <2>1, <4>1 DEF WritingHolds
    <3> QED
      BY <1>i, <2>4, <3>1 DEF ExportedIsTheJournal
  <2> QED
    BY <1>s, <2>5, <2>6, <2>7 DEF ArchiveInv
<1>6. CASE Mark
  <2>1. /\ writing # NoWriting /\ writing.stored /\ writing' = NoWriting
        /\ exported' = [exported EXCEPT ![writing.hour] = writing.version]
        /\ UNCHANGED <<file, hour, flushing, up, crashes>>
    BY <1>6 DEF Mark, Marked
  <2>2. writing.hour \in Hours /\ writing.version \in Nat
    BY <1>i DEF ArchiveRows, Export
  <2>3. exported' \in [Hours -> Nat] /\ \A h \in Hours : exported'[h] = IF h = writing.hour THEN writing.version ELSE exported[h]
    BY <1>i, <2>1, <2>2 DEF ArchiveRows
  <2>4. ArchiveRows'
    BY <1>i, <1>j, <1>w, <2>1, <2>3 DEF ArchiveRows
  <2>5. WritingHolds' /\ NeverAhead' /\ ExportedIsTheJournal'
    BY <1>i, <1>j, <1>r, <2>1, <2>2, <2>3 DEF WritingHolds, NeverAhead, ExportedIsTheJournal
  <2> QED
    BY <1>s, <2>4, <2>5 DEF ArchiveInv
<1> QED
  BY <1>1, <1>2, <1>3, <1>4, <1>5, <1>6

LEMMA SearchKeeps ==
  ASSUME ArchiveInv, ProcessDies \/ SearchStarts \/ SearchReads \/ SearchEnds \/ UNCHANGED archiveVars
  PROVE  ArchiveInv'
<1>i. ArchiveRows /\ WritingHolds /\ NeverAhead /\ SearchHolds /\ ExportedIsTheJournal /\ SearchTellsTheTruth
  BY DEF ArchiveInv
<1>j. UNCHANGED <<journal, erased, version, exported, file, hour>> /\ (writing' = writing \/ writing' = NoWriting)
  BY DEF ProcessDies, SearchStarts, SearchReads, SearchEnds, archiveVars
<1>r. /\ \A h : RowsOf(h)' = RowsOf(h)
      /\ \A i : Latest(i)' = Latest(i)
  BY <1>j, StillJournal
<1>q. WritingHolds' /\ NeverAhead' /\ ExportedIsTheJournal'
  BY <1>i, <1>j, <1>r DEF WritingHolds, NeverAhead, ExportedIsTheJournal
<1>d. DOMAIN journal = 1..Len(journal) /\ Len(journal) \in Nat
  BY <1>i, LenProperties DEF ArchiveRows
<1>t. ArchiveRows'
  <2>1. NoWriting \in Export
    BY NothingIsAnExport
  <2>2. /\ up' \in BOOLEAN /\ flushing' \in {"no", "closed hours", "all hours"} /\ crashes' \in 0..MaxCrashes
    <3>1. crashes \in 0..MaxCrashes /\ up \in BOOLEAN /\ flushing \in {"no", "closed hours", "all hours"}
      BY <1>i DEF ArchiveRows
    <3>2. CASE ProcessDies
      <4>1. crashes < MaxCrashes /\ crashes' = crashes + 1 /\ up' = FALSE /\ flushing' = "no"
        BY <3>2 DEF ProcessDies
      <4>2. crashes' \in 0..MaxCrashes
        <5>1. crashes \in 0..MaxCrashes /\ MaxCrashes \in Nat
          BY <3>1, BoundsAre
        <5> QED
          BY <4>1, <5>1
      <4> QED
        BY <4>1, <4>2
    <3>3. CASE SearchStarts \/ SearchReads \/ SearchEnds \/ UNCHANGED archiveVars
      BY <3>1, <3>3 DEF SearchStarts, SearchReads, SearchEnds, archiveVars
    <3> QED
      BY <3>2, <3>3
  <2>3. search' \in SearchRow
    <3>1. search \in SearchRow
      BY <1>i DEF ArchiveRows
    <3>2. CASE ProcessDies \/ SearchEnds \/ UNCHANGED archiveVars
      BY <3>1, <3>2, SearchIs DEF ProcessDies, SearchEnds, archiveVars
    <3>3. CASE SearchStarts
      <4>1. Len(journal) \in Nat /\ {i \in DOMAIN journal : Latest(i)} \in SUBSET Nat /\ search.n + 1 \in Nat
        BY <1>d, <3>1 DEF SearchRow
      <4>2. search' = [cursor |-> 0, ceiling |-> Len(journal), found |-> {}, n |-> search.n + 1,
                       began |-> {i \in DOMAIN journal : Latest(i)}]
        BY <3>3 DEF SearchStarts
      <4> QED
        BY <4>1, <4>2 DEF SearchRow
    <3>4. CASE SearchReads
      <4>1. PICK i \in Unread : search' = [search EXCEPT !.cursor = i, !.found = search.found \cup {i}]
        BY <3>4 DEF SearchReads
      <4>2. i \in Nat
        BY <3>1, UnreadIs
      <4> QED
        BY <3>1, <4>1, <4>2, SearchIs
    <3> QED
      BY <3>2, <3>3, <3>4
  <2> QED
    BY <1>i, <1>j, <2>1, <2>2, <2>3 DEF ArchiveRows
<1>x. search \in SearchRow
  BY <1>i DEF ArchiveRows
<1>n. search' = [NoSearch EXCEPT !.n = search.n] => SearchHolds'
  BY <1>x, SearchIs DEF SearchHolds, Searching
<1>1. CASE ProcessDies
  BY <1>1, <1>i, <1>n, <1>q, <1>t DEF ProcessDies, SearchTellsTheTruth, ArchiveInv
<1>2. CASE SearchStarts
  <2>1. search' = [cursor |-> 0, ceiling |-> Len(journal), found |-> {}, n |-> search.n + 1,
                   began |-> {i \in DOMAIN journal : Latest(i)}]
    BY <1>2 DEF SearchStarts
  <2>2. /\ search'.cursor = 0 /\ search'.ceiling = Len(journal) /\ search'.found = {}
        /\ search'.began = {i \in DOMAIN journal : Latest(i)}
    BY <2>1
  <2>3. SearchHolds'
    BY <1>d, <1>j, <1>r, <2>2 DEF SearchHolds
  <2> QED
    BY <1>2, <1>i, <1>q, <1>t, <2>3 DEF SearchStarts, SearchTellsTheTruth, ArchiveInv
<1>3. CASE SearchReads
  <2>1. PICK i \in Unread : (\A j \in Unread : i <= j) /\ search' = [search EXCEPT !.cursor = i, !.found = search.found \cup {i}]
    BY <1>3 DEF SearchReads
  <2>2. Searching
    BY <1>3 DEF SearchReads
  <2>0. i \in Nat /\ Latest(i) /\ i > search.cursor /\ i <= search.ceiling
    BY <1>x, UnreadIs
  <2>3. i \in 1..search.ceiling /\ i > search.cursor /\ i \in Nat
    BY <1>x, <2>0, SearchNumbers
  <2>s. UNCHANGED answer
    BY <1>3 DEF SearchReads
  <2>4. SearchHolds'
    <3>1. search'.cursor = i /\ search'.ceiling = search.ceiling /\ search'.began = search.began
          /\ search'.found = search.found \cup {i}
      BY <1>x, <2>1, <2>3, SearchIs
    <3>2. i \in search.began
      BY <1>i, <2>2, <2>0, <2>3 DEF SearchHolds
    <3>3. \A k \in search.began : k <= i /\ Latest(k) => k \in search.found \cup {i}
      <4> SUFFICES ASSUME NEW k \in search.began, k <= i, Latest(k), k # i PROVE k \in search.found
        OBVIOUS
      <4>1. k \in 1..search.ceiling /\ search.ceiling \in Nat /\ search.cursor \in Nat
        BY <1>i, <1>x, <2>2, SearchIs DEF SearchHolds
      <4>2. k <= search.cursor
        <5> SUFFICES ASSUME ~(k <= search.cursor) PROVE FALSE
          OBVIOUS
        <5>1. k \in Unread
          BY <1>x, <4>1, UnreadIs
        <5> QED
          BY <2>1, <2>3, <4>1, <5>1
      <4> QED
        BY <1>i, <2>2, <4>2 DEF SearchHolds
    <3> QED
      BY <1>i, <1>j, <1>r, <2>2, <3>1, <3>2, <3>3 DEF SearchHolds, Searching
  <2> QED
    BY <1>i, <1>q, <1>t, <2>4, <2>s DEF SearchTellsTheTruth, ArchiveInv
<1>4. CASE SearchEnds
  <2>1. Searching /\ Unread = {} /\ search' = [NoSearch EXCEPT !.n = search.n]
    BY <1>4 DEF SearchEnds
  <2>2. SearchTellsTheTruth'
    <3>1. CASE Valid
      <4>1. answer' = [rows |-> search.found, expected |-> {i \in search.began : Latest(i)}]
        BY <1>4, <3>1 DEF SearchEnds
      <4>2. \A i \in search.began : Latest(i) => i \in search.found
        <5> SUFFICES ASSUME NEW i \in search.began, Latest(i), i \notin search.found PROVE FALSE
          OBVIOUS
        <5>1. i \in 1..search.ceiling /\ ~(i <= search.cursor)
          BY <1>i, <2>1 DEF SearchHolds
        <5>3. i \in Nat /\ i > search.cursor /\ i <= search.ceiling
          BY <1>x, <5>1, SearchNumbers
        <5>2. i \in Unread
          BY <1>x, <5>3, UnreadIs
        <5> QED
          BY <2>1, <5>2
      <4>3. search.found = {i \in search.began : Latest(i)}
        BY <1>i, <2>1, <3>1, <4>2 DEF SearchHolds, Valid
      <4> QED
        BY <4>1, <4>3 DEF SearchTellsTheTruth
    <3>2. CASE ~Valid
      BY <1>4, <1>i, <3>2 DEF SearchEnds, SearchTellsTheTruth
    <3> QED
      BY <3>1, <3>2
  <2> QED
    BY <1>n, <1>q, <1>t, <2>1, <2>2 DEF ArchiveInv
<1>5. CASE UNCHANGED archiveVars
  <2>1. UNCHANGED <<search, answer>>
    BY <1>5 DEF archiveVars
  <2> QED
    BY <1>i, <1>j, <1>q, <1>r, <1>t, <2>1 DEF SearchHolds, Searching, SearchTellsTheTruth, ArchiveInv
<1> QED
  BY <1>1, <1>2, <1>3, <1>4, <1>5

LEMMA ArchiveStep == ArchiveInv /\ [ArchiveNext]_archiveVars => ArchiveInv'
BY ReceiveKeeps, EraseKeeps, WriteKeeps, SearchKeeps DEF ArchiveNext

LEMMA ArchiveMeans == ArchiveInv => ArchiveTypeOK /\ ExportedIsTheJournal /\ SearchTellsTheTruth
<1> SUFFICES ASSUME ArchiveInv PROVE ArchiveTypeOK
  BY DEF ArchiveInv
<1>1. \A i \in DOMAIN journal : journal[i] \in JournalRow
  BY ElementOfSeq, LenProperties DEF ArchiveInv, ArchiveRows
<1>2. \A i \in DOMAIN journal : journal[i].of \in Utterance /\ journal[i].hour \in Hours
  BY <1>1 DEF JournalRow
<1> QED
  BY <1>2 DEF ArchiveInv, ArchiveRows, NeverAhead, ArchiveTypeOK

\* An hour that counts as exported has in its file the rows the journal has for it and nothing
\* that was deleted, whatever arrived, was deleted or failed while the file was being written.
THEOREM TheArchiveIsTheJournal == ArchiveSpec => []ExportedIsTheJournal
<1> QED
  BY ArchiveStarts, ArchiveStep, ArchiveMeans, PTL DEF ArchiveSpec

\* A search that reports no conflict found what was current when it began and still is, and
\* nothing that was corrected or deleted meanwhile, in journals of any length.
THEOREM SearchesTellTheTruth == ArchiveSpec => []SearchTellsTheTruth
<1> QED
  BY ArchiveStarts, ArchiveStep, ArchiveMeans, PTL DEF ArchiveSpec
=============================================================================
