--------------------------- MODULE TaskScheduler ---------------------------
(***************************************************************************)
(* The durable task scheduler of the agent: Harness.pump, Harness.run and  *)
(* Harness.spawn in agent/src/harness.ts, ToolRegistry.execute and the     *)
(* subagent tools in agent/src/tools.ts, and the task tables of            *)
(* agent/src/store.ts.                                                     *)
(*                                                                         *)
(* Tasks, messages, pending tool calls and receipts are in SQLite and      *)
(* survive a crash; the run loops are in memory.  The process has one      *)
(* thread: `thread' says which code is executing, and every await gives it *)
(* away.  A tool that awaits nothing of its own resumes in a microtask     *)
(* (pc "ended", "save"), before any client, timer or answer gets a turn.   *)
(*                                                                         *)
(* One owner.  A model turn asks for at most one tool call.  A deadline    *)
(* that pump() sees, and evidence that changed, arrive as CancelTree.      *)
(***************************************************************************)
EXTENDS Naturals, FiniteSets

CONSTANTS
    Root,          \* root tasks
    Child,         \* subagent tasks
    ParentOf,      \* the root that may spawn each child: its id is child-<callId>
    Older(_, _),   \* order of created_at, a parent before its children
    MaxRunning,    \* concurrency (4 in the code)
    MaxRoots,      \* executing roots per owner (2 in the code)
    MaxSteps,      \* model turns per tree (32 in the code)
    MaxRestarts,   \* bound on crashes and stops
    MaxCancels,    \* bound on cancellations from outside
    None           \* no pending call

VARIABLES
    status,     \* tasks.status
    call,       \* the last assistant message's tool call that has no result yet
    receipt,    \* the receipt of that call
    performed,  \* how often the runner was asked to perform that call
    inbox,      \* undelivered messages
    inserted,   \* ids of all messages ever inserted (INSERT OR IGNORE)
    steps,      \* model turns of the tree
    pc,         \* the run loop of a task, "none" if it has none
    aborted,    \* run loops whose abort signal fired
    batch,      \* pump(): queued tasks it has still to look at
    thread,     \* "free", "pump" or the task whose loop executes
    process,    \* "up", "stopping" or "down"
    restarts, cancels

vars == << status, call, receipt, performed, inbox, inserted, steps, pc, aborted,
           batch, thread, process, restarts, cancels >>

durable == << status, call, receipt, performed, inbox, inserted, steps >>
-----------------------------------------------------------------------------
Task == Root \cup Child
Active == {"queued", "running", "waiting"}
Terminal == {"done", "failed", "cancelled"}   \* done: completed or abstained
TaskState == {"absent"} \cup Active \cup Terminal

\* new context, at most one per task, and one completion message per child
Steer == "steer"
Key == {Steer} \cup Child

Call == [kind : {"read", "act", "wait", "finish"}, child : {None}]
        \cup [kind : {"spawn", "cancel", "message"}, child : Child]

Kids(t) == {c \in Child : ParentOf[c] = t}
RootOf(t) == IF t \in Child THEN ParentOf[t] ELSE t
IsActive(t) == status[t] \in Active
ActiveKids(t) == {c \in Kids(t) : IsActive(c)}

\* the loops in Harness.running
Running == {t \in Task : pc[t] # "none"}

ASSUME SchedulerAssumption ==
    /\ Root \cap Child = {} /\ IsFiniteSet(Root) /\ IsFiniteSet(Child)
    /\ ParentOf \in [Child -> Root]
    /\ \A x, y \in Task : Older(x, y) \in BOOLEAN
    /\ {"free", "pump"} \cap Task = {} /\ None \notin Child /\ Steer \notin Child
    /\ MaxRunning \in Nat \ {0} /\ MaxRoots \in Nat \ {0}
    /\ MaxSteps \in Nat /\ MaxRestarts \in Nat /\ MaxCancels \in Nat

TypeOK ==
    /\ status \in [Task -> TaskState]
    /\ call \in [Task -> Call \cup {None}]
    /\ receipt \in [Task -> {"none", "started", "done"}]
    /\ performed \in [Task -> Nat]
    /\ inbox \in [Task -> SUBSET Key]
    /\ inserted \in [Task -> SUBSET Key]
    /\ steps \in [Root -> 0..MaxSteps]   \* the whole tree shares one budget
    /\ pc \in [Task -> {"none", "top", "tool", "review", "ended", "save", "model", "leaving", "closing"}]
    /\ aborted \in SUBSET Task
    /\ batch \in SUBSET Task
    /\ thread \in {"free", "pump"} \cup Task
    /\ process \in {"up", "stopping", "down"}
    /\ restarts \in Nat /\ cancels \in Nat

Init ==
    /\ status = [t \in Task |-> "absent"]
    /\ call = [t \in Task |-> None]
    /\ receipt = [t \in Task |-> "none"]
    /\ performed = [t \in Task |-> 0]
    /\ inbox = [t \in Task |-> {}]
    /\ inserted = [t \in Task |-> {}]
    /\ steps = [r \in Root |-> 0]
    /\ pc = [t \in Task |-> "none"]
    /\ aborted = {}
    /\ batch = {}
    /\ thread = "free"
    /\ process = "up"
    /\ restarts = 0
    /\ cancels = 0

-----------------------------------------------------------------------------
(* Shared pieces *)

\* microtasks run before the next client request, timer or answer
MacroTurn == thread = "free" /\ \A t \in Task : pc[t] \notin {"ended", "save"}

\* the code that was executing awaits or returns: pump() goes on with its batch
Yield == thread' = IF batch = {} THEN "free" ELSE "pump"

\* store.cancel() and cancelInvalidRuns(): the tasks of C end, and every loop
\* whose task is not active any more is aborted
Cancelled(C, st) == [t \in Task |-> IF t \in C /\ st[t] \in Active THEN "cancelled" ELSE st[t]]
AbortInvalid == aborted' = aborted \cup {t \in Running : status'[t] \notin Active}

\* mutant: a message does not wake its task.
Woken_Never(st, t, new) == st[t]

\* store.message(): a new message wakes a waiting task
Woken(st, t, new) == IF new # {} /\ st[t] = "waiting" THEN "queued" ELSE st[t]

\* run() returns with the statuses `st': a task that has ended has its children to
\* cancel first, one that waits or is queued again only leaves its loop
Leave(t, st) ==
    /\ status' = st
    /\ IF st[t] \in Active
       THEN pc' = [pc EXCEPT ![t] = "none"] /\ Yield
       ELSE pc' = [pc EXCEPT ![t] = "leaving"] /\ thread' = t
    /\ UNCHANGED << call, receipt, performed, inbox, inserted, steps, aborted, batch >>

\* run()'s catch
Fail(t) ==
    Leave(t, IF IsActive(t)
             THEN [status EXCEPT ![t] = IF process = "stopping" THEN "queued" ELSE "failed"]
             ELSE status)

\* checkTask() finds nothing wrong
Checked(t) == t \notin aborted /\ IsActive(t)

SetPc(t, where) == pc' = [pc EXCEPT ![t] = where]

outside == << process, restarts, cancels >>
-----------------------------------------------------------------------------
(* Clients and the classifier *)

\* classify(): route `start'
Start(r) ==
    /\ MacroTurn /\ process = "up"
    /\ status[r] = "absent"
    /\ status' = [status EXCEPT ![r] = "queued"]
    /\ UNCHANGED << call, receipt, performed, inbox, inserted, steps, pc, aborted, batch,
                    thread, process, restarts, cancels >>

\* classify(): route `update', or POST /v1/tasks/:id/message
Update(t) ==
    /\ MacroTurn /\ process = "up"
    /\ IsActive(t) /\ Steer \notin inserted[t]
    /\ inbox' = [inbox EXCEPT ![t] = @ \cup {Steer}]
    /\ inserted' = [inserted EXCEPT ![t] = @ \cup {Steer}]
    /\ status' = [status EXCEPT ![t] = Woken(status, t, {Steer})]
    /\ UNCHANGED << call, receipt, performed, steps, pc, aborted, batch, thread,
                    process, restarts, cancels >>

\* POST /v1/tasks/:id/cancel, a deadline that pump() sees, or evidence that changed
CancelTree(t) ==
    /\ MacroTurn /\ process = "up"
    /\ cancels < MaxCancels
    /\ IsActive(t)
    /\ cancels' = cancels + 1
    /\ status' = Cancelled({t} \cup Kids(t), status)
    /\ AbortInvalid
    /\ UNCHANGED << call, receipt, performed, inbox, inserted, steps, pc, batch, thread,
                    process, restarts >>

\* the timer of a loop's own signal, before pump() has seen the deadline
Expire(t) ==
    /\ MacroTurn /\ process = "up"
    /\ cancels < MaxCancels
    /\ t \in Running /\ IsActive(t)
    /\ cancels' = cancels + 1
    /\ aborted' = aborted \cup {t}
    /\ UNCHANGED durable /\ UNCHANGED << pc, batch, thread, process, restarts >>

-----------------------------------------------------------------------------
(* pump() *)

\* mutant: only children that completed report to their parent.
Completions_Done(r) ==
    IF IsActive(r) THEN {c \in Kids(r) : status[c] = "done"} \ inserted[r] ELSE {}

\* deliverChildResults(): completions of ended children their parent has not been sent
Completions(r) ==
    IF IsActive(r) THEN {c \in Kids(r) : status[c] \in Terminal} \ inserted[r] ELSE {}

\* the part of pump() before it dispatches: completions wake their parents, and the
\* tasks that are queued then are listed
Pump ==
    /\ MacroTurn /\ process = "up"
    /\ LET new == [t \in Task |-> IF t \in Root THEN Completions(t) ELSE {}]
       IN  /\ inbox' = [t \in Task |-> inbox[t] \cup new[t]]
           /\ inserted' = [t \in Task |-> inserted[t] \cup new[t]]
           /\ status' = [t \in Task |-> Woken(status, t, new[t])]
    /\ AbortInvalid
    /\ batch' = {t \in Task : status'[t] = "queued"}
    /\ thread' = IF batch' = {} THEN "free" ELSE "pump"
    /\ UNCHANGED << call, receipt, performed, steps, pc, process, restarts, cancels >>

\* the next queued task of the list gets a loop, unless it has one or the limits are
\* reached.  Its status is not read again.
Dispatch(t) ==
    /\ thread = "pump"
    /\ t \in batch /\ \A x \in batch \ {t} : Older(t, x)
    /\ IF Cardinality(Running) >= MaxRunning
       THEN batch' = {} /\ thread' = "free" /\ UNCHANGED << status, pc, aborted >>
       ELSE /\ batch' = batch \ {t}
            /\ IF t \in Running \/ (t \in Root /\ Cardinality(Running \cap Root) >= MaxRoots)
               THEN /\ thread' = IF batch' = {} THEN "free" ELSE "pump"
                    /\ UNCHANGED << status, pc, aborted >>
               ELSE /\ status' = [status EXCEPT ![t] = "running"]
                    /\ aborted' = aborted \ {t}
                    /\ SetPc(t, "top")
                    /\ thread' = t
    /\ UNCHANGED << call, receipt, performed, inbox, inserted, steps, process, restarts, cancels >>
-----------------------------------------------------------------------------
(* run(): the loop of one task *)

AtTop(t) == thread = t /\ pc[t] = "top"

\* while (!this.stopped)
StopLoop(t) ==
    /\ AtTop(t) /\ process = "stopping"
    /\ Leave(t, status) /\ UNCHANGED outside

\* checkTask() throws, or an unsafe call has a receipt but no result
FailAtTop(t) ==
    /\ AtTop(t) /\ process = "up"
    /\ \/ ~Checked(t)
       \/ call[t] = None /\ steps[RootOf(t)] >= MaxSteps
       \/ call[t] # None /\ call[t].kind = "act" /\ receipt[t] = "started"
    /\ Fail(t) /\ UNCHANGED outside

\* mutant: the turn is not charged against the tree's budget first.
Ask_Unbudgeted(t) ==
    /\ AtTop(t) /\ process = "up" /\ Checked(t)
    /\ call[t] = None
    /\ inbox' = [inbox EXCEPT ![t] = {}]
    /\ steps' = [steps EXCEPT ![RootOf(t)] = @ + 1]
    /\ SetPc(t, "model")
    /\ Yield
    /\ UNCHANGED << status, call, receipt, performed, inserted, aborted, batch >> /\ UNCHANGED outside

\* drain the inbox and ask the model
Ask(t) ==
    /\ AtTop(t) /\ process = "up" /\ Checked(t)
    /\ call[t] = None
    /\ steps[RootOf(t)] < MaxSteps
    /\ inbox' = [inbox EXCEPT ![t] = {}]
    /\ steps' = [steps EXCEPT ![RootOf(t)] = @ + 1]
    /\ SetPc(t, "model")
    /\ Yield
    /\ UNCHANGED << status, call, receipt, performed, inserted, aborted, batch >> /\ UNCHANGED outside

\* a call that has not begun is dropped when there is news
Skip(t) ==
    /\ AtTop(t) /\ process = "up" /\ Checked(t)
    /\ call[t] # None /\ receipt[t] = "none" /\ inbox[t] # {}
    /\ call' = [call EXCEPT ![t] = None]
    /\ UNCHANGED << status, receipt, performed, inbox, inserted, steps, pc, aborted, batch, thread >>
    /\ UNCHANGED outside

\* a call whose result is on its receipt
Reuse(t) ==
    /\ AtTop(t) /\ process = "up" /\ Checked(t)
    /\ call[t] # None /\ receipt[t] = "done"
    /\ SetPc(t, "save")
    /\ Yield
    /\ UNCHANGED << status, call, receipt, performed, inbox, inserted, steps, aborted, batch >>
    /\ UNCHANGED outside

\* mutant: no receipt until the result is there.
Executes_Unrecorded(t, kind) ==
    /\ AtTop(t) /\ process = "up" /\ Checked(t)
    /\ call[t] # None /\ call[t].kind = kind
    /\ receipt[t] = "none" /\ inbox[t] = {}
    /\ UNCHANGED receipt

\* execute(): the call begins, or a replay-safe one begins again
Executes(t, kind) ==
    /\ AtTop(t) /\ process = "up" /\ Checked(t)
    /\ call[t] # None /\ call[t].kind = kind
    /\ \/ receipt[t] = "none" /\ inbox[t] = {}
       \/ receipt[t] = "started" /\ kind # "act"
    /\ receipt' = [receipt EXCEPT ![t] = "started"]

\* a call that awaits the runner
CallRunner(t) ==
    /\ Executes(t, "read") \/ Executes(t, "act")
    /\ performed' = [performed EXCEPT ![t] = @ + 1]
    /\ SetPc(t, "tool")
    /\ Yield
    /\ UNCHANGED << status, call, inbox, inserted, steps, aborted, batch >> /\ UNCHANGED outside

\* mutant: waits even if no child is active.
Wait_Always(t) ==
    /\ Executes(t, "wait")
    /\ status' = [status EXCEPT ![t] = "waiting"]
    /\ SetPc(t, "ended")
    /\ Yield
    /\ UNCHANGED << call, performed, inbox, inserted, steps, aborted, batch >> /\ UNCHANGED outside

\* wait_for_subagents
Wait(t) ==
    /\ Executes(t, "wait")
    /\ status' = [status EXCEPT ![t] = IF ActiveKids(t) # {} THEN "waiting" ELSE @]
    /\ SetPc(t, "ended")
    /\ Yield
    /\ UNCHANGED << call, performed, inbox, inserted, steps, aborted, batch >> /\ UNCHANGED outside

\* spawn_subagent: the child's id is made of the call's, so a replay finds it
Spawn(t) ==
    /\ Executes(t, "spawn")
    /\ LET c == call[t].child
       IN  status' = [status EXCEPT ![c] = IF @ = "absent" THEN "queued" ELSE @]
    /\ SetPc(t, "ended")
    /\ Yield
    /\ UNCHANGED << call, performed, inbox, inserted, steps, aborted, batch >> /\ UNCHANGED outside

\* message_subagent: refused (with an error for its result) when the child has ended
MessageSubagent(t) ==
    /\ Executes(t, "message")
    /\ LET c == call[t].child
       IN  IF IsActive(c) /\ Steer \notin inserted[c]
           THEN /\ inbox' = [inbox EXCEPT ![c] = @ \cup {Steer}]
                /\ inserted' = [inserted EXCEPT ![c] = @ \cup {Steer}]
           ELSE UNCHANGED << inbox, inserted >>
    /\ SetPc(t, "ended")
    /\ Yield
    /\ UNCHANGED << status, call, performed, steps, aborted, batch >> /\ UNCHANGED outside

\* cancel_subagent
CancelSubagent(t) ==
    /\ Executes(t, "cancel")
    /\ status' = Cancelled({call[t].child}, status)
    /\ AbortInvalid
    /\ SetPc(t, "ended")
    /\ Yield
    /\ UNCHANGED << call, performed, inbox, inserted, steps, batch >> /\ UNCHANGED outside

\* finish: refused while children are active; a result with a notification awaits the
\* delivery review, another one ends the task
BeginFinish(t) ==
    /\ Executes(t, "finish")
    /\ \/ /\ ActiveKids(t) # {}
          /\ SetPc(t, "ended") /\ UNCHANGED status
       \/ /\ ActiveKids(t) = {}
          /\ SetPc(t, "review") /\ UNCHANGED status
       \/ /\ ActiveKids(t) = {}
          /\ SetPc(t, "ended") /\ status' = [status EXCEPT ![t] = "done"]
    /\ Yield
    /\ UNCHANGED << call, performed, inbox, inserted, steps, aborted, batch >>
    /\ UNCHANGED outside

-----------------------------------------------------------------------------
(* What the loop awaited *)

Resumes(t, where) == MacroTurn /\ process # "down" /\ pc[t] = where

\* the runner answered; a read that failed has an error for its result
ToolReturns(t) ==
    /\ Resumes(t, "tool")
    /\ SetPc(t, "ended")
    /\ UNCHANGED durable /\ UNCHANGED << aborted, batch, thread >> /\ UNCHANGED outside

\* the runner failed: the effect of an unsafe call is unknown
ToolFails(t) ==
    /\ Resumes(t, "tool")
    /\ call[t].kind = "act" \/ t \in aborted
    /\ Fail(t) /\ UNCHANGED outside

\* mutant: the task is not read again after the review.
ReviewReturns_Unchecked(t) ==
    /\ Resumes(t, "review")
    /\ \E approved \in BOOLEAN :
          status' = [status EXCEPT ![t] = IF approved THEN "done" ELSE @]
    /\ SetPc(t, "ended")
    /\ UNCHANGED << call, receipt, performed, inbox, inserted, steps, aborted, batch, thread >>
    /\ UNCHANGED outside

\* the review is over; finish looks at the signal and at the status again
ReviewReturns(t) ==
    /\ Resumes(t, "review")
    /\ t \notin aborted /\ status[t] = "running"
    /\ \E approved \in BOOLEAN :
          status' = [status EXCEPT ![t] = IF approved THEN "done" ELSE @]
    /\ SetPc(t, "ended")
    /\ UNCHANGED << call, receipt, performed, inbox, inserted, steps, aborted, batch, thread >>
    /\ UNCHANGED outside

ReviewFails(t) ==
    /\ Resumes(t, "review")
    /\ t \in aborted
    /\ Fail(t) /\ UNCHANGED outside

\* endTool()
EndTool(t) ==
    /\ thread = "free" /\ pc[t] = "ended"
    /\ receipt' = [receipt EXCEPT ![t] = "done"]
    /\ SetPc(t, "save")
    /\ UNCHANGED << status, call, performed, inbox, inserted, steps, aborted, batch, thread >>
    /\ UNCHANGED outside

\* the result joins the messages, unless the task was cancelled meanwhile
SaveResult(t) ==
    /\ thread = "free" /\ pc[t] = "save"
    /\ LET saved == status[t] # "cancelled"
       IN  /\ call' = IF saved THEN [call EXCEPT ![t] = None] ELSE call
           /\ receipt' = IF saved THEN [receipt EXCEPT ![t] = "none"] ELSE receipt
           /\ performed' = IF saved THEN [performed EXCEPT ![t] = 0] ELSE performed
    /\ IF status[t] = "running"
       THEN SetPc(t, "top") /\ thread' = t
       ELSE IF IsActive(t)
       THEN SetPc(t, "none") /\ UNCHANGED thread
       ELSE SetPc(t, "leaving") /\ thread' = t
    /\ UNCHANGED << status, inbox, inserted, steps, aborted, batch >> /\ UNCHANGED outside

\* mutant: a task that ended leaves its children alone.
CancelKids_Forgotten(t) ==
    /\ thread = t /\ pc[t] = "leaving"
    /\ SetPc(t, "closing")
    /\ Yield
    /\ UNCHANGED durable /\ UNCHANGED << aborted, batch >> /\ UNCHANGED outside

\* run()'s finally
CancelKids(t) ==
    /\ thread = t /\ pc[t] = "leaving"
    /\ status' = Cancelled(Kids(t), status)
    /\ AbortInvalid
    /\ SetPc(t, "closing")
    /\ Yield
    /\ UNCHANGED << call, receipt, performed, inbox, inserted, steps, batch >> /\ UNCHANGED outside

\* calls a model can ask for
Requests(t) ==
    [kind : {"read", "act", "finish"}, child : {None}]
    \cup IF t \in Root
         THEN [kind : {"wait"}, child : {None}]
              \cup [kind : {"spawn"}, child : {c \in Kids(t) : status[c] = "absent"}]
              \cup [kind : {"cancel", "message"}, child : {c \in Kids(t) : status[c] # "absent"}]
         ELSE {}

\* the model answered, and nothing new arrived
ModelReturns(t) ==
    /\ Resumes(t, "model")
    /\ Checked(t)
    /\ inbox[t] = {}
    /\ \E c \in Requests(t) : call' = [call EXCEPT ![t] = c]
    /\ SetPc(t, "top") /\ thread' = t
    /\ UNCHANGED << status, receipt, performed, inbox, inserted, steps, aborted, batch >>
    /\ UNCHANGED outside

\* a plan made before an update is discarded
DiscardPlan(t) ==
    /\ Resumes(t, "model")
    /\ Checked(t)
    /\ inbox[t] # {}
    /\ SetPc(t, "top") /\ thread' = t
    /\ UNCHANGED durable /\ UNCHANGED << aborted, batch >> /\ UNCHANGED outside

\* an answer without a tool call abstains
Abstain(t) ==
    /\ Resumes(t, "model")
    /\ Checked(t)
    /\ inbox[t] = {}
    /\ Leave(t, [status EXCEPT ![t] = "done"]) /\ UNCHANGED outside

\* the model failed, or checkTask() throws after it
ModelFails(t) ==
    /\ Resumes(t, "model")
    /\ Fail(t) /\ UNCHANGED outside

\* runner.close() is over
Closed(t) ==
    /\ Resumes(t, "closing")
    /\ SetPc(t, "none")
    /\ aborted' = aborted \ {t}
    /\ UNCHANGED durable /\ UNCHANGED << batch, thread >> /\ UNCHANGED outside
-----------------------------------------------------------------------------
(* Stop, crash and recovery *)

Stop ==
    /\ MacroTurn /\ process = "up"
    /\ restarts < MaxRestarts
    /\ restarts' = restarts + 1
    /\ process' = "stopping"
    /\ aborted' = Running
    /\ UNCHANGED durable /\ UNCHANGED << pc, batch, thread, cancels >>

\* every loop has returned
Stopped ==
    /\ process = "stopping" /\ thread = "free" /\ Running = {}
    /\ process' = "down"
    /\ UNCHANGED durable /\ UNCHANGED << pc, aborted, batch, thread, restarts, cancels >>

\* a crash can fall between any two steps
Crash ==
    /\ process # "down"
    /\ restarts < MaxRestarts
    /\ restarts' = restarts + 1
    /\ process' = "down"
    /\ pc' = [t \in Task |-> "none"]
    /\ aborted' = {} /\ batch' = {} /\ thread' = "free"
    /\ UNCHANGED durable /\ UNCHANGED cancels

\* mutant: tasks that ran when the process ended are left as they are.
Recover_NotRequeued ==
    /\ process = "down"
    /\ process' = "up"
    /\ status' = [t \in Task |->
            IF IsActive(t) /\ receipt[t] = "started" /\ call[t].kind = "act" THEN "failed"
            ELSE status[t]]
    /\ aborted' = {}
    /\ UNCHANGED << call, receipt, performed, inbox, inserted, steps, pc, batch, thread,
                    restarts, cancels >>

\* recover(): unfinished unsafe calls fail their task, other running tasks are queued
Recover ==
    /\ process = "down"
    /\ process' = "up"
    /\ status' = [t \in Task |->
            IF IsActive(t) /\ receipt[t] = "started" /\ call[t].kind = "act" THEN "failed"
            ELSE IF status[t] = "running" THEN "queued"
            ELSE status[t]]
    /\ aborted' = {}
    /\ UNCHANGED << call, receipt, performed, inbox, inserted, steps, pc, batch, thread,
                    restarts, cancels >>

-----------------------------------------------------------------------------
(* Specification *)

Client ==
    \/ \E r \in Root : Start(r)
    \/ \E t \in Task : Update(t) \/ CancelTree(t) \/ Expire(t)

Loop(t) ==
    \/ StopLoop(t) \/ FailAtTop(t) \/ Ask(t) \/ Skip(t) \/ Reuse(t)
    \/ CallRunner(t) \/ Wait(t) \/ Spawn(t) \/ MessageSubagent(t) \/ CancelSubagent(t)
    \/ BeginFinish(t) \/ EndTool(t) \/ SaveResult(t) \/ CancelKids(t)

Settles(t) ==
    \/ ToolReturns(t) \/ ToolFails(t) \/ ReviewReturns(t) \/ ReviewFails(t)
    \/ ModelReturns(t) \/ DiscardPlan(t) \/ Abstain(t) \/ ModelFails(t) \/ Closed(t)

Next ==
    \/ Client
    \/ Pump
    \/ \E t \in Task : Dispatch(t) \/ Loop(t) \/ Settles(t)
    \/ Stop \/ Stopped \/ Crash \/ Recover

\* The interval timer runs pump(); the thread finishes what it executes; the model, the
\* runner and the review answer or are timed out, and a settled promise is resumed even
\* if other loops take the thread in between; a stopped service is started again.
Fairness ==
    /\ WF_vars(Pump) /\ WF_vars(Stopped) /\ WF_vars(Recover)
    /\ \A t \in Task : WF_vars(Dispatch(t)) /\ WF_vars(Loop(t)) /\ SF_vars(Settles(t))

Spec == Init /\ [][Next]_vars
FairSpec == Spec /\ Fairness

-----------------------------------------------------------------------------
(* Properties *)

\* A side effect is asked for at most once per call, whatever crashes and replays.
AtMostOnce == \A t \in Task : call[t] # None /\ call[t].kind = "act" => performed[t] <= 1

\* No task is left `running' without a loop that drives it.
RunningHasLoop ==
    process = "up" /\ thread = "free" =>
        \A t \in Task : status[t] = "running" => pc[t] \notin {"none", "closing"}

\* A parent waits only for children that can still wake it: one is active, or has ended
\* and its completion has not been sent yet.
WaitingCanBeWoken ==
    \A r \in Root : status[r] = "waiting" =>
        \E c \in Kids(r) : IsActive(c) \/ (status[c] \in Terminal /\ c \notin inserted[r])

\* Children do not outlive their parent as long as the process does not restart.
NoOrphans ==
    process = "up" /\ MacroTurn =>
        \A r \in Root : status[r] \in Terminal => ActiveKids(r) = {}

\* A waiting task has read all its messages.
NothingUnreadWhileWaiting == \A t \in Task : status[t] = "waiting" => inbox[t] = {}

\* The way a task ended is not overwritten: not by an answer that was under way when it
\* was cancelled, a late message, or a restart.  The only way out is that pump() starts a
\* task that it listed before it was cancelled.
VerdictStands ==
    [][\A t \in Task :
         status[t] \in Terminal /\ status'[t] # status[t]
         => status[t] = "cancelled" /\ t \in batch /\ thread = "pump"]_vars

\* "Cancellation invalidates the tree" (docs/AI_AGENT_HARNESS.md:123): a cancelled task
\* stays cancelled.
CancelledStays ==
    [][\A t \in Task : status[t] = "cancelled" => status'[t] = "cancelled"]_vars

\* Every task that is accepted ends, without the help of its deadline.
EveryTaskEnds == \A t \in Task : IsActive(t) ~> status[t] \in Terminal
=============================================================================
