------------------------ MODULE TaskScheduler_proofs ------------------------
(***************************************************************************)
(* Theorems about the task scheduler, for any sets of tasks and any        *)
(* limits.                                                                 *)
(*                                                                         *)
(* Inv is inductive.  Receipts relates a pending call to its receipt and   *)
(* to what was asked of the runner; Batches says what can happen to a task *)
(* between the moment pump() lists it and the moment it looks at it; Loops *)
(* relates the status of a task to its loop; Reports says that a           *)
(* completion is only sent for a child that has ended and that is not on   *)
(* pump()'s list.  FamilyInv, at the end, is a second invariant: what ties *)
(* a child to its parent as long as the process was never stopped.         *)
(***************************************************************************)
EXTENDS TaskScheduler, TLAPS

Receipts ==
    \A t \in Task :
        /\ call[t] = None => receipt[t] = "none"
        /\ receipt[t] = "none" => performed[t] = 0
        /\ call[t] # None /\ call[t].kind = "act" => performed[t] <= 1
        /\ pc[t] = "model" => call[t] = None
        /\ pc[t] \in {"tool", "review", "ended", "save"} => call[t] # None

Batches ==
    /\ thread = "free" \/ process = "down" => batch = {}
    /\ thread \notin batch
    /\ \A t \in batch : status[t] \in {"queued", "cancelled"}

Loops ==
    \A t \in Task :
        /\ status[t] = "absent" => pc[t] = "none"
        /\ pc[t] \in {"leaving", "closing"} => status[t] \in Terminal
        /\ process = "up" /\ status[t] = "running" => pc[t] # "none"

Reports ==
    \A c \in Child :
        c \in inserted[ParentOf[c]] => status[c] \in Terminal /\ c \notin batch

Inv == TypeOK /\ Receipts /\ Batches /\ Loops /\ Reports /\ WaitingCanBeWoken

\* What one step may do to the status of a task.
Moves(t) ==
    \/ status'[t] = status[t]
    \/ status[t] = "absent" /\ status'[t] = "queued"
    \/ status[t] \in Active /\ status'[t] \in {"queued"} \cup Terminal
    \/ /\ thread = "pump" /\ t \in batch /\ pc[t] = "none"
       /\ status[t] \in {"queued", "cancelled"} /\ status'[t] = "running"
    \/ status[t] \in Active /\ status'[t] = "waiting" /\ ActiveKids(t) # {}

-----------------------------------------------------------------------------
(* Initially *)

\* The initial state satisfies the inductive invariant.
LEMMA InitInv == Init => Inv
<1> SUFFICES ASSUME Init PROVE Inv
  OBVIOUS
<1>1. TypeOK
  BY SchedulerAssumption DEF Init, TypeOK, TaskState
<1>2. Receipts /\ Batches /\ Loops
  BY DEF Init, Receipts, Batches, Loops
<1>3. Reports
  BY SchedulerAssumption DEF Init, Reports, Task
<1>4. WaitingCanBeWoken
  BY DEF Init, WaitingCanBeWoken, Task
<1> QED
  BY <1>1, <1>2, <1>3, <1>4 DEF Inv

-----------------------------------------------------------------------------
(* Lemmas about the helpers *)

\* The tree of a task has a root, and children are tasks.
LEMMA Trees ==
    ASSUME NEW t \in Task
    PROVE  RootOf(t) \in Root /\ Kids(t) \in SUBSET Child /\ Child \in SUBSET Task
BY SchedulerAssumption DEF RootOf, Kids, Task

\* Cancelling yields statuses.
LEMMA CancelledType ==
    ASSUME NEW C, NEW st \in [Task -> TaskState]
    PROVE  Cancelled(C, st) \in [Task -> TaskState]
BY DEF Cancelled, TaskState, Terminal

\* A message yields a status.
LEMMA WokenType ==
    ASSUME NEW st \in [Task -> TaskState], NEW t \in Task, NEW new
    PROVE  Woken(st, t, new) \in TaskState
BY DEF Woken, TaskState, Active

\* Leaving a loop keeps the types.
LEMMA LeaveType ==
    ASSUME TypeOK, NEW t \in Task, NEW st \in [Task -> TaskState], Leave(t, st),
           UNCHANGED outside
    PROVE  TypeOK'
BY DEF TypeOK, Leave, Yield, outside

\* So does an error.
LEMMA FailType ==
    ASSUME TypeOK, NEW t \in Task, Fail(t), UNCHANGED outside
    PROVE  TypeOK'
<1> DEFINE st == IF IsActive(t)
                 THEN [status EXCEPT ![t] = IF process = "stopping" THEN "queued" ELSE "failed"]
                 ELSE status
<1>1. st \in [Task -> TaskState]
  BY DEF TypeOK, TaskState, Active, Terminal
<1>2. Leave(t, st)
  BY DEF Fail
<1> QED
  BY <1>1, <1>2, LeaveType

\* The calls a model can ask for are calls.
LEMMA RequestsType ==
    ASSUME NEW t \in Task
    PROVE  Requests(t) \in SUBSET Call
BY DEF Requests, Call, Kids

-----------------------------------------------------------------------------
(* Type correctness *)

\* Every step keeps the types.
LEMMA TypeStep == TypeOK /\ [Next]_vars => TypeOK'
<1> SUFFICES ASSUME TypeOK, [Next]_vars PROVE TypeOK'
  OBVIOUS
<1> USE DEF outside, durable
<1>1. ASSUME NEW r \in Root, Start(r) PROVE TypeOK'
  BY <1>1 DEF Start, TypeOK, TaskState, Active, Task
<1>2. ASSUME NEW t \in Task, Update(t) PROVE TypeOK'
  BY <1>2, WokenType DEF Update, TypeOK, Key
<1>3. ASSUME NEW t \in Task, CancelTree(t) PROVE TypeOK'
  BY <1>3, CancelledType DEF CancelTree, TypeOK, AbortInvalid, Running
<1>4. ASSUME NEW t \in Task, Expire(t) PROVE TypeOK'
  BY <1>4 DEF Expire, TypeOK
<1>5. ASSUME Pump PROVE TypeOK'
  <2> DEFINE new == [t \in Task |-> IF t \in Root THEN Completions(t) ELSE {}]
  <2>1. new \in [Task -> SUBSET Key]
    BY DEF Completions, Kids, Key
  <2>2. /\ inbox' = [t \in Task |-> inbox[t] \cup new[t]]
        /\ inserted' = [t \in Task |-> inserted[t] \cup new[t]]
        /\ status' = [t \in Task |-> Woken(status, t, new[t])]
    BY <1>5 DEF Pump
  <2>3. inbox' \in [Task -> SUBSET Key] /\ inserted' \in [Task -> SUBSET Key]
    <3> HIDE DEF new
    <3> QED
      BY <2>1, <2>2 DEF TypeOK
  <2>4. status' \in [Task -> TaskState]
    <3> HIDE DEF new
    <3> QED
      BY <2>2, WokenType DEF TypeOK
  <2>5. aborted' \in SUBSET Task /\ batch' \in SUBSET Task /\ thread' \in {"free", "pump"}
    BY <1>5 DEF Pump, AbortInvalid, Running, TypeOK
  <2>6. UNCHANGED << call, receipt, performed, steps, pc, process, restarts, cancels >>
    BY <1>5 DEF Pump
  <2> HIDE DEF new
  <2> QED
    BY <2>3, <2>4, <2>5, <2>6 DEF TypeOK
<1>6. ASSUME NEW t \in Task, Dispatch(t) PROVE TypeOK'
  BY <1>6 DEF Dispatch, SetPc, TypeOK, TaskState, Active
<1>7. ASSUME NEW t \in Task, StopLoop(t) PROVE TypeOK'
  BY <1>7, LeaveType DEF StopLoop, TypeOK
<1>8. ASSUME NEW t \in Task, FailAtTop(t) \/ ToolFails(t) \/ ReviewFails(t) \/ ModelFails(t)
      PROVE  TypeOK'
  BY <1>8, FailType DEF FailAtTop, ToolFails, ReviewFails, ModelFails
<1>9. ASSUME NEW t \in Task, Ask(t) PROVE TypeOK'
  <2>1. steps[RootOf(t)] + 1 \in 0..MaxSteps
    BY <1>9, Trees, SchedulerAssumption DEF Ask, TypeOK
  <2> QED
    BY <1>9, <2>1, Trees DEF Ask, SetPc, Yield, TypeOK
<1>10. ASSUME NEW t \in Task, Skip(t) \/ Reuse(t) PROVE TypeOK'
  BY <1>10 DEF Skip, Reuse, SetPc, Yield, TypeOK
<1>11. ASSUME NEW t \in Task, NEW kind, Executes(t, kind)
       PROVE  receipt' \in [Task -> {"none", "started", "done"}] /\ call[t] \in Call
  BY <1>11 DEF Executes, TypeOK
<1>12. ASSUME NEW t \in Task, CallRunner(t) PROVE TypeOK'
  BY <1>11, <1>12 DEF CallRunner, SetPc, Yield, TypeOK
<1>13. ASSUME NEW t \in Task, Wait(t) PROVE TypeOK'
  BY <1>11, <1>13 DEF Wait, SetPc, Yield, TypeOK, TaskState, Active
<1>14. ASSUME NEW t \in Task, NEW kind \in {"spawn", "message"}, Executes(t, kind)
       PROVE  call[t].child \in Task
  BY <1>11, <1>14 DEF Executes, Call, Task
<1>15. ASSUME NEW t \in Task, Spawn(t) PROVE TypeOK'
  BY <1>11, <1>14, <1>15 DEF Spawn, SetPc, Yield, TypeOK, TaskState, Active
<1>16. ASSUME NEW t \in Task, MessageSubagent(t) PROVE TypeOK'
  BY <1>11, <1>14, <1>16 DEF MessageSubagent, SetPc, Yield, TypeOK, Key
<1>17. ASSUME NEW t \in Task, CancelSubagent(t) PROVE TypeOK'
  BY <1>11, <1>17, CancelledType DEF CancelSubagent, AbortInvalid, Running, SetPc, Yield, TypeOK
<1>18. ASSUME NEW t \in Task, BeginFinish(t) PROVE TypeOK'
  BY <1>11, <1>18 DEF BeginFinish, SetPc, Yield, TypeOK, TaskState, Terminal
<1>19. ASSUME NEW t \in Task, EndTool(t) PROVE TypeOK'
  BY <1>19 DEF EndTool, SetPc, TypeOK
<1>20. ASSUME NEW t \in Task, SaveResult(t) PROVE TypeOK'
  BY <1>20 DEF SaveResult, SetPc, TypeOK
<1>21. ASSUME NEW t \in Task, CancelKids(t) PROVE TypeOK'
  BY <1>21, CancelledType DEF CancelKids, AbortInvalid, Running, SetPc, Yield, TypeOK
<1>22. ASSUME NEW t \in Task, ToolReturns(t) PROVE TypeOK'
  BY <1>22 DEF ToolReturns, SetPc, TypeOK
<1>23. ASSUME NEW t \in Task, ReviewReturns(t) PROVE TypeOK'
  BY <1>23 DEF ReviewReturns, SetPc, TypeOK, TaskState, Terminal
<1>24. ASSUME NEW t \in Task, ModelReturns(t) PROVE TypeOK'
  BY <1>24, RequestsType DEF ModelReturns, SetPc, TypeOK
<1>25. ASSUME NEW t \in Task, DiscardPlan(t) PROVE TypeOK'
  BY <1>25 DEF DiscardPlan, SetPc, TypeOK
<1>26. ASSUME NEW t \in Task, Abstain(t) PROVE TypeOK'
  <2>1. [status EXCEPT ![t] = "done"] \in [Task -> TaskState]
    BY DEF TypeOK, TaskState, Terminal
  <2> QED
    BY <1>26, <2>1, LeaveType DEF Abstain
<1>27. ASSUME NEW t \in Task, Closed(t) PROVE TypeOK'
  BY <1>27 DEF Closed, SetPc, TypeOK
<1>28. CASE Stop \/ Stopped \/ Crash
  BY <1>28 DEF Stop, Stopped, Crash, Running, TypeOK
<1>29. CASE Recover
  BY <1>29 DEF Recover, TypeOK, TaskState, Active, Terminal
<1>30. CASE UNCHANGED vars
  BY <1>30 DEF vars, TypeOK
<1> QED
  BY <1>1, <1>2, <1>3, <1>4, <1>5, <1>6, <1>7, <1>8, <1>9, <1>10, <1>12, <1>13, <1>15, <1>16,
     <1>17, <1>18, <1>19, <1>20, <1>21, <1>22, <1>23, <1>24, <1>25, <1>26, <1>27, <1>28, <1>29,
     <1>30
  DEF Next, Client, Loop, Settles
-----------------------------------------------------------------------------
(* What a step may do to a status *)

\* Cancelling ends active tasks and leaves the others alone.
LEMMA CancelledMoves ==
    ASSUME NEW C, NEW t \in Task, status' = Cancelled(C, status)
    PROVE  \/ status'[t] = status[t]
           \/ status[t] \in Active /\ status'[t] \in Terminal
BY DEF Cancelled, Terminal

\* An error ends an active task or queues it again, and no other task.
LEMMA FailMoves ==
    ASSUME TypeOK, NEW u \in Task, Fail(u), NEW t \in Task
    PROVE  \/ status'[t] = status[t]
           \/ t = u /\ status[t] \in Active /\ status'[t] \in {"queued"} \cup Terminal
BY DEF Fail, Leave, IsActive, TypeOK, Terminal

\* No step does anything else to a status.
LEMMA MovesStep == Inv /\ [Next]_vars => \A t \in Task : Moves(t)
<1> SUFFICES ASSUME Inv, [Next]_vars, NEW t \in Task PROVE Moves(t)
  OBVIOUS
<1>t. TypeOK
  BY DEF Inv
<1> USE DEF Moves
<1>1. ASSUME NEW r \in Root, Start(r) PROVE Moves(t)
  BY <1>1, <1>t DEF Start, TypeOK
<1>2. ASSUME NEW u \in Task, Update(u) PROVE Moves(t)
  BY <1>2, <1>t DEF Update, Woken, TypeOK, Active
<1>3. ASSUME NEW u \in Task, CancelTree(u) \/ CancelSubagent(u) \/ CancelKids(u) PROVE Moves(t)
  BY <1>3, CancelledMoves DEF CancelTree, CancelSubagent, CancelKids
<1>4. CASE Pump
  BY <1>4 DEF Pump, Woken, Active
<1>5. ASSUME NEW u \in Task, Dispatch(u) PROVE Moves(t)
  <2>1. CASE status' = status
    BY <2>1
  <2>2. CASE /\ u \notin Running /\ thread = "pump" /\ u \in batch
             /\ status' = [status EXCEPT ![u] = "running"]
    BY <2>2, <1>t DEF Running, Inv, Batches, TypeOK
  <2> QED
    BY <1>5, <2>1, <2>2 DEF Dispatch
<1>6. ASSUME NEW u \in Task, FailAtTop(u) \/ ToolFails(u) \/ ReviewFails(u) \/ ModelFails(u)
      PROVE  Moves(t)
  BY <1>6, <1>t, FailMoves DEF FailAtTop, ToolFails, ReviewFails, ModelFails
<1>7. ASSUME NEW u \in Task, Wait(u) PROVE Moves(t)
  BY <1>7, <1>t DEF Wait, Executes, Checked, IsActive, TypeOK
<1>8. ASSUME NEW u \in Task, Spawn(u) PROVE Moves(t)
  BY <1>8, <1>t DEF Spawn, TypeOK
<1>9. ASSUME NEW u \in Task, BeginFinish(u) PROVE Moves(t)
  BY <1>9, <1>t DEF BeginFinish, Executes, Checked, IsActive, Terminal, TypeOK
<1>10. ASSUME NEW u \in Task, ReviewReturns(u) PROVE Moves(t)
  BY <1>10, <1>t DEF ReviewReturns, Active, Terminal, TypeOK
<1>11. ASSUME NEW u \in Task, Abstain(u) PROVE Moves(t)
  BY <1>11, <1>t DEF Abstain, Leave, Checked, IsActive, Terminal, TypeOK
<1>12. CASE Recover
  BY <1>12 DEF Recover, IsActive, Active, Terminal
<1>13. ASSUME NEW u \in Task,
              \/ Expire(u) \/ StopLoop(u) \/ Ask(u) \/ Skip(u) \/ Reuse(u) \/ CallRunner(u)
              \/ MessageSubagent(u) \/ EndTool(u) \/ SaveResult(u)
              \/ ToolReturns(u) \/ ModelReturns(u) \/ DiscardPlan(u) \/ Closed(u)
       PROVE  Moves(t)
  BY <1>13 DEF Expire, StopLoop, Leave, Ask, Skip, Reuse, CallRunner, MessageSubagent, EndTool,
     SaveResult, ToolReturns, ModelReturns, DiscardPlan, Closed, durable
<1>14. CASE Stop \/ Stopped \/ Crash \/ UNCHANGED vars
  BY <1>14 DEF Stop, Stopped, Crash, durable, vars
<1> QED
  BY <1>1, <1>2, <1>3, <1>4, <1>5, <1>6, <1>7, <1>8, <1>9, <1>10, <1>11, <1>12, <1>13, <1>14
  DEF Next, Client, Loop, Settles

-----------------------------------------------------------------------------
(* Receipts *)

\* Every step keeps the relation of a call with its receipt and its performances.
LEMMA ReceiptsStep == Inv /\ [Next]_vars => Receipts'
<1> SUFFICES ASSUME Inv, [Next]_vars, NEW t \in Task
             PROVE  /\ call'[t] = None => receipt'[t] = "none"
                    /\ receipt'[t] = "none" => performed'[t] = 0
                    /\ call'[t] # None /\ call'[t].kind = "act" => performed'[t] <= 1
                    /\ pc'[t] = "model" => call'[t] = None
                    /\ pc'[t] \in {"tool", "review", "ended", "save"} => call'[t] # None
  BY DEF Receipts
<1> DEFINE R == /\ call'[t] = None => receipt'[t] = "none"
                /\ receipt'[t] = "none" => performed'[t] = 0
                /\ call'[t] # None /\ call'[t].kind = "act" => performed'[t] <= 1
                /\ pc'[t] = "model" => call'[t] = None
                /\ pc'[t] \in {"tool", "review", "ended", "save"} => call'[t] # None
<1>r. TypeOK /\ Receipts
  BY DEF Inv
<1>1. ASSUME /\ UNCHANGED << call, receipt, performed >>
             /\ pc'[t] \in {pc[t], "none", "top", "leaving", "closing"}
      PROVE  R
  BY <1>1, <1>r DEF Receipts
<1>2. ASSUME NEW u \in Task,
             \/ Update(u) \/ CancelTree(u) \/ Expire(u) \/ Dispatch(u)
             \/ StopLoop(u) \/ FailAtTop(u) \/ CancelKids(u)
             \/ ToolFails(u) \/ ReviewFails(u) \/ DiscardPlan(u) \/ Abstain(u)
             \/ ModelFails(u) \/ Closed(u)
      PROVE  R
  BY <1>1, <1>2, <1>r DEF Update, CancelTree, Expire, Dispatch, StopLoop, FailAtTop, CancelKids,
     ToolFails, ReviewFails, DiscardPlan, Abstain, ModelFails, Closed, Fail, Leave, SetPc,
     durable, TypeOK
<1>3. CASE \/ Pump \/ Stop \/ Stopped \/ Crash \/ Recover \/ UNCHANGED vars
           \/ \E r \in Root : Start(r)
  BY <1>1, <1>3 DEF Pump, Stop, Stopped, Crash, Recover, Start, durable, vars
<1>4. ASSUME NEW u \in Task, Ask(u) \/ Skip(u) \/ Reuse(u) PROVE R
  BY <1>4, <1>r DEF Ask, Skip, Reuse, AtTop, SetPc, Receipts, TypeOK
<1>5. ASSUME NEW u \in Task, CallRunner(u) PROVE R
  <2>1. call[u] # None /\ (call[u].kind = "act" => performed[u] = 0)
    BY <1>5, <1>r DEF CallRunner, Executes, Receipts
  <2>2. /\ receipt' = [receipt EXCEPT ![u] = "started"]
        /\ performed' = [performed EXCEPT ![u] = @ + 1]
        /\ pc' = [pc EXCEPT ![u] = "tool"]
        /\ call' = call
    BY <1>5 DEF CallRunner, Executes, SetPc
  <2> QED
    BY <1>r, <2>1, <2>2 DEF Receipts, TypeOK
<1>6. ASSUME NEW u \in Task,
             Wait(u) \/ Spawn(u) \/ MessageSubagent(u) \/ CancelSubagent(u) \/ BeginFinish(u)
      PROVE  R
  <2>1. /\ call[u] # None
        /\ receipt' = [receipt EXCEPT ![u] = "started"]
        /\ performed' = performed /\ call' = call
        /\ pc' = [pc EXCEPT ![u] = "ended"] \/ pc' = [pc EXCEPT ![u] = "review"]
    BY <1>6 DEF Wait, Spawn, MessageSubagent, CancelSubagent, BeginFinish, Executes, SetPc
  <2> QED
    BY <1>r, <2>1 DEF Receipts, TypeOK
<1>7. ASSUME NEW u \in Task, ToolReturns(u) \/ ReviewReturns(u) \/ EndTool(u) PROVE R
  BY <1>7, <1>r DEF ToolReturns, ReviewReturns, EndTool, Resumes, SetPc, durable, Receipts, TypeOK
<1>8. ASSUME NEW u \in Task, SaveResult(u) PROVE R
  BY <1>8, <1>r DEF SaveResult, SetPc, Receipts, TypeOK
<1>9. ASSUME NEW u \in Task, ModelReturns(u) PROVE R
  BY <1>9, <1>r DEF ModelReturns, Resumes, SetPc, Receipts, TypeOK
<1> QED
  BY <1>2, <1>3, <1>4, <1>5, <1>6, <1>7, <1>8, <1>9 DEF Next, Client, Loop, Settles

-----------------------------------------------------------------------------
(* pump()'s list *)

\* A loop that leaves gives the thread away, or keeps it; the list stays.
LEMMA LeaveThread ==
    ASSUME NEW u \in Task, NEW st, Leave(u, st)
    PROVE  /\ batch' = batch
           /\ thread' \in {u} \/ thread' = IF batch = {} THEN "free" ELSE "pump"
BY DEF Leave, Yield

\* Every step keeps what is known of the tasks on pump()'s list: whatever happens while
\* it is worked off, they are still queued or have been cancelled.
LEMMA BatchesStep == Inv /\ [Next]_vars => Batches'
<1> SUFFICES ASSUME Inv, [Next]_vars PROVE Batches'
  OBVIOUS
<1>i. TypeOK /\ Batches
  BY DEF Inv
<1>n. "free" \notin Task /\ "pump" \notin Task
  BY SchedulerAssumption
<1>1. ASSUME batch' = {} PROVE Batches'
  BY <1>1 DEF Batches
<1>2. CASE \/ MacroTurn /\ batch' = batch
           \/ thread = "free" /\ batch' = batch
           \/ UNCHANGED vars
           \/ Crash
  BY <1>1, <1>2, <1>i DEF MacroTurn, Batches, Crash, vars
<1>3. CASE Pump
  <2>1. batch' \in SUBSET Task /\ \A t \in batch' : status'[t] = "queued"
    BY <1>3 DEF Pump
  <2>2. thread' = IF batch' = {} THEN "free" ELSE "pump"
    BY <1>3 DEF Pump
  <2>3. process' = "up"
    BY <1>3 DEF Pump
  <2> QED
    BY <1>n, <2>1, <2>2, <2>3 DEF Batches
<1>4. ASSUME NEW u \in Task, Dispatch(u) PROVE Batches'
  <2>0. process' = process
    BY <1>4 DEF Dispatch
  <2>1. CASE batch' = {}
    BY <1>1, <2>1
  <2>2. CASE /\ batch' = batch \ {u}
             /\ thread' = IF batch' = {} THEN "free" ELSE "pump"
             /\ status' = status
    BY <1>i, <1>n, <2>0, <2>2 DEF Batches, TypeOK
  <2>3. CASE /\ batch' = batch \ {u} /\ thread' = u
             /\ status' = [status EXCEPT ![u] = "running"]
    BY <1>i, <1>n, <2>0, <2>3 DEF Batches, TypeOK
  <2> QED
    BY <1>4, <2>1, <2>2, <2>3 DEF Dispatch
\* a loop has the thread and is not on the list: the tasks on it are queued, so all that
\* can happen to them is that they are cancelled
<1>5. ASSUME NEW u \in Task, thread = u, batch' = batch, process' = process,
             thread' = u \/ thread' = IF batch = {} THEN "free" ELSE "pump",
             \A t \in batch : status'[t] \in {status[t], "cancelled"}
      PROVE  Batches'
  BY <1>5, <1>i, <1>n DEF Batches, TypeOK
<1>6. ASSUME NEW u \in Task, StopLoop(u) \/ FailAtTop(u) PROVE Batches'
  <2>1. thread = u /\ u \notin batch
    BY <1>6, <1>i DEF StopLoop, FailAtTop, AtTop, Batches
  <2>2. PICK st : Leave(u, st)
    BY <1>6 DEF StopLoop, FailAtTop, Fail
  <2>3. \A t \in batch : status'[t] = status[t]
    <3>1. CASE StopLoop(u)
      BY <3>1 DEF StopLoop, Leave
    <3>2. CASE FailAtTop(u)
      BY <3>2, <2>1, <1>i DEF FailAtTop, Fail, Leave, TypeOK
    <3> QED
      BY <1>6, <3>1, <3>2
  <2> QED
    BY <1>5, <1>6, <2>1, <2>2, <2>3, LeaveThread DEF StopLoop, FailAtTop, outside
<1>7. ASSUME NEW u \in Task,
             \/ Ask(u) \/ Skip(u) \/ Reuse(u) \/ CallRunner(u) \/ Wait(u) \/ MessageSubagent(u)
             \/ BeginFinish(u)
      PROVE  Batches'
  <2>1. thread = u /\ u \notin batch
    BY <1>7, <1>i DEF Ask, Skip, Reuse, CallRunner, Wait, MessageSubagent, BeginFinish, Executes,
       AtTop, Batches
  <2>2. batch' = batch /\ (thread' = u \/ thread' = IF batch = {} THEN "free" ELSE "pump")
    BY <1>7, <2>1 DEF Ask, Skip, Reuse, CallRunner, Wait, MessageSubagent, BeginFinish, Yield
  <2>3. \A t \in batch : status'[t] = status[t]
    BY <1>7, <1>i, <2>1 DEF Ask, Skip, Reuse, CallRunner, Wait, MessageSubagent, BeginFinish, TypeOK
  <2>4. process' = process
    BY <1>7 DEF Ask, Skip, Reuse, CallRunner, Wait, MessageSubagent, BeginFinish, outside
  <2> QED
    BY <1>5, <2>1, <2>2, <2>3, <2>4
<1>8. ASSUME NEW u \in Task, Spawn(u) PROVE Batches'
  <2>1. \A t \in batch : status'[t] = status[t]
    BY <1>8, <1>i DEF Spawn, Batches, TypeOK
  <2> QED
    BY <1>5, <1>8, <2>1 DEF Spawn, Executes, AtTop, Yield, outside
<1>9. ASSUME NEW u \in Task, CancelSubagent(u) \/ CancelKids(u) PROVE Batches'
  <2>1. \A t \in batch : status'[t] \in {status[t], "cancelled"}
    BY <1>9, <1>i DEF CancelSubagent, CancelKids, Cancelled, TypeOK
  <2> QED
    BY <1>5, <1>9, <2>1 DEF CancelSubagent, CancelKids, Executes, AtTop, Yield, outside
<1>10. ASSUME NEW u \in Task, ToolFails(u) \/ ReviewFails(u) \/ ModelFails(u) \/ Abstain(u)
       PROVE  Batches'
  <2>1. PICK st : Leave(u, st)
    BY <1>10 DEF ToolFails, ReviewFails, ModelFails, Abstain, Fail
  <2>2. MacroTurn
    BY <1>10 DEF ToolFails, ReviewFails, ModelFails, Abstain, Resumes
  <2> QED
    BY <1>2, <2>1, <2>2, LeaveThread
<1>11. ASSUME NEW u \in Task,
              \/ Update(u) \/ CancelTree(u) \/ Expire(u) \/ EndTool(u) \/ SaveResult(u)
              \/ ToolReturns(u) \/ ReviewReturns(u) \/ ModelReturns(u) \/ DiscardPlan(u) \/ Closed(u)
       PROVE  Batches'
  BY <1>2, <1>11 DEF Update, CancelTree, Expire, EndTool, SaveResult, ToolReturns, ReviewReturns,
     ModelReturns, DiscardPlan, Closed, Resumes
<1>12. ASSUME NEW r \in Root, Start(r) PROVE Batches'
  BY <1>2, <1>12 DEF Start
<1>13. CASE Stop \/ Stopped
  BY <1>2, <1>13 DEF Stop, Stopped
<1>14. CASE Recover
  BY <1>1, <1>14, <1>i DEF Recover, Batches
<1> QED
  BY <1>2, <1>3, <1>4, <1>6, <1>7, <1>8, <1>9, <1>10, <1>11, <1>12, <1>13, <1>14
  DEF Next, Client, Loop, Settles

-----------------------------------------------------------------------------
(* Loops *)

\* A task that has ended changes its status only if pump() starts it from its list.
LEMMA EndsStand ==
    ASSUME Inv, [Next]_vars, NEW t \in Task, status[t] \in Terminal, status'[t] # status[t]
    PROVE  /\ status[t] = "cancelled" /\ t \in batch /\ thread = "pump"
           /\ pc[t] = "none" /\ status'[t] = "running"
<1>1. Moves(t)
  BY MovesStep
<1> QED
  BY <1>1 DEF Moves, Active, Terminal

\* Every step keeps the relation of the tasks' statuses with their loops.
LEMMA LoopsStep == Inv /\ [Next]_vars => Loops'
<1> DEFINE L(t) == /\ status'[t] = "absent" => pc'[t] = "none"
                   /\ pc'[t] \in {"leaving", "closing"} => status'[t] \in Terminal
                   /\ process' = "up" /\ status'[t] = "running" => pc'[t] # "none"
<1> SUFFICES ASSUME Inv, [Next]_vars, NEW t \in Task PROVE L(t)
  BY DEF Loops
<1>i. TypeOK /\ Loops
  BY DEF Inv
<1>m. Moves(t)
  BY MovesStep
<1>a. status'[t] = "absent" => status[t] = "absent"
  BY <1>m DEF Moves, Terminal
\* the loop of t does not move
<1>1. ASSUME pc'[t] = pc[t], process' = "up" /\ status'[t] = "running"
                             => process = "up" /\ status[t] = "running"
      PROVE  L(t)
  <2>1. status'[t] = "absent" => pc'[t] = "none"
    BY <1>1, <1>a, <1>i DEF Loops
  <2>2. pc'[t] \in {"leaving", "closing"} => status'[t] \in Terminal
    BY <1>1, <1>i, EndsStand DEF Loops
  <2>3. process' = "up" /\ status'[t] = "running" => pc'[t] # "none"
    BY <1>1, <1>i DEF Loops
  <2> QED
    BY <2>1, <2>2, <2>3
\* the loop of t moves on and does not leave
<1>2. ASSUME pc[t] # "none", pc'[t] \notin {"none", "leaving", "closing"} PROVE L(t)
  BY <1>2, <1>a, <1>i DEF Loops
<1>3. ASSUME NEW r \in Root, Start(r) PROVE L(t)
  BY <1>1, <1>3, <1>i DEF Start, TypeOK
<1>4. ASSUME NEW u \in Task, Update(u) \/ CancelTree(u) \/ Expire(u) PROVE L(t)
  BY <1>1, <1>4, <1>i DEF Update, CancelTree, Expire, Woken, Cancelled, durable, TypeOK
<1>5. CASE Pump
  BY <1>1, <1>5 DEF Pump, Woken
<1>6. ASSUME NEW u \in Task, Dispatch(u) PROVE L(t)
  <2>1. CASE status' = status /\ pc' = pc
    BY <1>1, <1>6, <2>1 DEF Dispatch
  <2>2. CASE status' = [status EXCEPT ![u] = "running"] /\ pc' = [pc EXCEPT ![u] = "top"]
    BY <1>1, <1>6, <1>i, <2>2 DEF Dispatch, TypeOK
  <2> QED
    BY <1>6, <2>1, <2>2 DEF Dispatch, SetPc
\* a loop ends with an error or abstains
<1>7. ASSUME NEW u \in Task, NEW st \in [Task -> TaskState], Leave(u, st), pc[u] # "none",
             UNCHANGED process,
             \A x \in Task \ {u} : st[x] = status[x],
             st[u] \in Active => st[u] = "queued" \/ process = "stopping"
      PROVE  L(t)
  <2>1. CASE t # u
    BY <1>1, <1>7, <1>i, <2>1 DEF Leave, TypeOK
  <2>2. CASE t = u /\ st[u] \in Active
    BY <1>7, <1>i, <2>2 DEF Leave, TypeOK, Active
  <2>3. CASE t = u /\ st[u] \notin Active
    <3>1. status'[t] # "absent"
      BY <1>7, <1>a, <1>i, <2>3 DEF Loops
    <3>2. status'[t] \in Terminal
      BY <1>7, <2>3, <3>1 DEF Leave, TaskState
    <3> QED
      BY <1>7, <1>i, <2>3, <3>2 DEF Leave, TypeOK, Terminal
  <2> QED
    BY <2>1, <2>2, <2>3
<1>8. ASSUME NEW u \in Task, StopLoop(u) PROVE L(t)
  BY <1>7, <1>8, <1>i DEF StopLoop, AtTop, outside, TypeOK
<1>9. ASSUME NEW u \in Task, Fail(u), pc[u] # "none", UNCHANGED process PROVE L(t)
  <2> DEFINE st == IF IsActive(u)
                   THEN [status EXCEPT ![u] = IF process = "stopping" THEN "queued" ELSE "failed"]
                   ELSE status
  <2>1. st \in [Task -> TaskState]
    BY <1>i DEF TypeOK, TaskState, Active, Terminal
  <2>2. \A x \in Task \ {u} : st[x] = status[x]
    BY <1>i DEF TypeOK
  <2>3. st[u] \in Active => st[u] = "queued" \/ process = "stopping"
    BY <1>i DEF TypeOK, IsActive, Active
  <2>4. Leave(u, st)
    BY <1>9 DEF Fail
  <2> HIDE DEF st
  <2> QED
    BY <1>7, <1>9, <2>1, <2>2, <2>3, <2>4
<1>10. ASSUME NEW u \in Task, FailAtTop(u) \/ ToolFails(u) \/ ReviewFails(u) \/ ModelFails(u)
       PROVE  L(t)
  BY <1>9, <1>10 DEF FailAtTop, AtTop, ToolFails, ReviewFails, ModelFails, Resumes, outside
<1>11. ASSUME NEW u \in Task, Abstain(u) PROVE L(t)
  <2>1. [status EXCEPT ![u] = "done"] \in [Task -> TaskState]
    BY <1>i DEF TypeOK, TaskState, Terminal
  <2> QED
    BY <1>7, <1>11, <1>i, <2>1 DEF Abstain, Resumes, outside, TypeOK, Active
<1>12. ASSUME NEW u \in Task, Skip(u) PROVE L(t)
  BY <1>1, <1>12 DEF Skip, outside
\* a loop moves on; the status of no task becomes running
<1>13. ASSUME NEW u \in Task, NEW where \in {"tool", "review", "ended", "save", "model", "top"},
              pc' = [pc EXCEPT ![u] = where], pc[u] # "none", UNCHANGED process,
              status'[t] = "running" => status[t] = "running"
       PROVE  L(t)
  BY <1>1, <1>2, <1>13, <1>i DEF TypeOK
<1>14. ASSUME NEW u \in Task,
              Ask(u) \/ Reuse(u) \/ CallRunner(u) \/ MessageSubagent(u)
       PROVE  L(t)
  BY <1>13, <1>14 DEF Ask, Reuse, CallRunner, MessageSubagent, Executes, AtTop, SetPc, outside
<1>15. ASSUME NEW u \in Task, Wait(u) \/ Spawn(u) \/ CancelSubagent(u) \/ BeginFinish(u)
       PROVE  L(t)
  <2>1. status'[t] = "running" => status[t] = "running"
    BY <1>15, <1>i DEF Wait, Spawn, CancelSubagent, BeginFinish, Cancelled, TypeOK
  <2> QED
    BY <1>13, <1>15, <2>1 DEF Wait, Spawn, CancelSubagent, BeginFinish, Executes, AtTop, SetPc, outside
<1>16. ASSUME NEW u \in Task, EndTool(u) \/ ToolReturns(u) \/ ModelReturns(u) \/ DiscardPlan(u)
       PROVE  L(t)
  BY <1>13, <1>16 DEF EndTool, ToolReturns, ModelReturns, DiscardPlan, Resumes, SetPc, durable, outside
<1>17. ASSUME NEW u \in Task, ReviewReturns(u) PROVE L(t)
  <2>1. status'[t] = "running" => status[t] = "running"
    BY <1>17, <1>i DEF ReviewReturns, TypeOK
  <2> QED
    BY <1>13, <1>17, <2>1 DEF ReviewReturns, Resumes, SetPc, outside
<1>18. ASSUME NEW u \in Task, SaveResult(u) PROVE L(t)
  <2>1. CASE t # u
    BY <1>1, <1>18, <1>i, <2>1 DEF SaveResult, SetPc, outside, TypeOK
  <2>2. CASE t = u
    <3>1. status'[t] = status[t] /\ status[t] # "absent"
      BY <1>18, <1>i, <2>2 DEF SaveResult, Loops
    <3>2. CASE IsActive(t)
      BY <1>18, <1>i, <2>2, <3>1, <3>2 DEF SaveResult, SetPc, TypeOK, IsActive, Active, Terminal
    <3>3. CASE ~IsActive(t)
      <4>1. status[t] \in Terminal /\ status[t] # "running"
        BY <1>i, <3>1, <3>3 DEF TypeOK, TaskState, IsActive, Active
      <4>2. pc'[t] = "leaving"
        BY <1>18, <1>i, <2>2, <3>3, <4>1 DEF SaveResult, SetPc, TypeOK
      <4> QED
        BY <3>1, <4>1, <4>2
    <3> QED
      BY <3>2, <3>3
  <2> QED
    BY <2>1, <2>2
<1>19. ASSUME NEW u \in Task, CancelKids(u) PROVE L(t)
  <2>1. status'[t] = "running" => status[t] = "running"
    BY <1>19, <1>i DEF CancelKids, Cancelled, TypeOK
  <2>2. CASE t # u
    BY <1>1, <1>19, <1>i, <2>1, <2>2 DEF CancelKids, SetPc, outside, TypeOK
  <2>3. CASE t = u
    <3>1. status[t] \in Terminal /\ pc'[t] = "closing"
      BY <1>19, <1>i, <2>3 DEF CancelKids, SetPc, Loops, TypeOK
    <3>2. status'[t] = status[t]
      BY <1>19, <1>i, <2>3, <3>1, EndsStand DEF CancelKids
    <3> QED
      BY <3>1, <3>2, <1>i DEF Terminal
  <2> QED
    BY <2>2, <2>3
<1>20. ASSUME NEW u \in Task, Closed(u) PROVE L(t)
  <2>1. status' = status /\ status[u] \in Terminal
    BY <1>20, <1>i DEF Closed, Resumes, durable, Loops
  <2>2. pc' = [pc EXCEPT ![u] = "none"] /\ process' = process
    BY <1>20 DEF Closed, SetPc, outside
  <2> QED
    BY <1>1, <1>i, <2>1, <2>2 DEF TypeOK, Terminal
<1>21. CASE Stop \/ Stopped \/ UNCHANGED vars
  BY <1>1, <1>21 DEF Stop, Stopped, durable, vars
<1>22. CASE Crash
  BY <1>22, <1>i DEF Crash, durable, Loops
<1>23. CASE Recover
  <2>1. status'[t] # "running"
    BY <1>23 DEF Recover
  <2> QED
    BY <1>1, <1>23, <2>1 DEF Recover
<1> QED
  BY <1>3, <1>4, <1>5, <1>6, <1>8, <1>10, <1>11, <1>12, <1>14, <1>15, <1>16, <1>17, <1>18, <1>19,
     <1>20, <1>21, <1>22, <1>23
  DEF Next, Client, Loop, Settles

-----------------------------------------------------------------------------
(* Completions and waiting parents *)

\* Only pump() adds a completion, and only of a child that has ended.
LEMMA InsertedStep ==
    ASSUME TypeOK, [Next]_vars, NEW c \in Child, c \in inserted'[ParentOf[c]]
    PROVE  \/ c \in inserted[ParentOf[c]]
           \/ Pump /\ status[c] \in Terminal
<1>p. ParentOf[c] \in Root /\ ParentOf[c] \in Task /\ c # Steer
  BY SchedulerAssumption DEF Task
<1>1. ASSUME NEW u \in Task, inserted' = [inserted EXCEPT ![u] = @ \cup {Steer}]
      PROVE  c \in inserted[ParentOf[c]]
  BY <1>1, <1>p DEF TypeOK
<1>2. CASE inserted' = inserted
  BY <1>2
<1>3. CASE Pump
  BY <1>3, <1>p DEF Pump, Completions, TypeOK
<1>4. ASSUME NEW u \in Task, Update(u) PROVE c \in inserted[ParentOf[c]]
  BY <1>1, <1>4 DEF Update
<1>5. ASSUME NEW u \in Task, MessageSubagent(u) PROVE c \in inserted[ParentOf[c]]
  <2>1. call[u].child \in Task
    BY <1>5 DEF MessageSubagent, Executes, TypeOK, Call, Task
  <2> QED
    BY <1>1, <1>2, <1>5, <2>1 DEF MessageSubagent
<1>6. ASSUME NEW u \in Task,
             \/ CancelTree(u) \/ Expire(u) \/ Dispatch(u) \/ StopLoop(u) \/ FailAtTop(u)
             \/ Ask(u) \/ Skip(u) \/ Reuse(u) \/ CallRunner(u) \/ Wait(u) \/ Spawn(u)
             \/ CancelSubagent(u) \/ BeginFinish(u) \/ EndTool(u) \/ SaveResult(u)
             \/ CancelKids(u) \/ Settles(u)
      PROVE  inserted' = inserted
  BY <1>6 DEF CancelTree, Expire, Dispatch, StopLoop, FailAtTop, Ask, Skip, Reuse, CallRunner, Wait,
     Spawn, CancelSubagent, BeginFinish, EndTool, SaveResult, CancelKids, Settles, ToolReturns,
     ToolFails, ReviewReturns, ReviewFails, ModelReturns, DiscardPlan, Abstain, ModelFails, Closed,
     Fail, Leave, durable
<1>7. CASE \/ Stop \/ Stopped \/ Crash \/ Recover \/ UNCHANGED vars
           \/ \E r \in Root : Start(r)
  BY <1>2, <1>7 DEF Stop, Stopped, Crash, Recover, Start, durable, vars
<1> QED
  BY <1>2, <1>3, <1>4, <1>5, <1>6, <1>7 DEF Next, Client, Loop

\* What pump() lists, it lists from the queued tasks; the list only shrinks otherwise.
LEMMA BatchStep ==
    ASSUME [Next]_vars
    PROVE  \/ batch' \in SUBSET batch
           \/ Pump /\ \A t \in batch' : status'[t] = "queued"
<1>1. CASE Pump
  BY <1>1 DEF Pump
<1>2. ASSUME NEW u \in Task, Dispatch(u) PROVE batch' \in SUBSET batch
  BY <1>2 DEF Dispatch
<1>3. ASSUME NEW u \in Task,
             \/ Update(u) \/ CancelTree(u) \/ Expire(u) \/ Loop(u) \/ Settles(u)
      PROVE  batch' = batch
  BY <1>3 DEF Update, CancelTree, Expire, Loop, StopLoop, FailAtTop, Ask, Skip, Reuse, CallRunner,
     Wait, Spawn, MessageSubagent, CancelSubagent, BeginFinish, EndTool, SaveResult, CancelKids,
     Settles, ToolReturns, ToolFails, ReviewReturns, ReviewFails, ModelReturns, DiscardPlan,
     Abstain, ModelFails, Closed, Fail, Leave
<1>4. CASE \/ Stop \/ Stopped \/ Crash \/ Recover \/ UNCHANGED vars
           \/ \E r \in Root : Start(r)
  BY <1>4 DEF Stop, Stopped, Crash, Recover, Start, vars
<1> QED
  BY <1>1, <1>2, <1>3, <1>4 DEF Next, Client

\* Every step keeps it that completions are of children that have ended for good.
LEMMA ReportsStep == Inv /\ [Next]_vars => Reports'
<1> SUFFICES ASSUME Inv, [Next]_vars, NEW c \in Child, c \in inserted'[ParentOf[c]]
             PROVE  status'[c] \in Terminal /\ c \notin batch'
  BY DEF Reports
<1>1. c \in Task /\ TypeOK
  BY DEF Inv, Task
<1>2. status[c] \in Terminal /\ (Pump \/ c \notin batch)
  BY <1>1, InsertedStep DEF Inv, Reports
<1>3. CASE Pump
  <2>1. status'[c] = status[c]
    BY <1>1, <1>2, <1>3 DEF Pump, Woken, Terminal
  <2> QED
    BY <1>2, <1>3, <2>1 DEF Pump, Terminal
<1>4. CASE ~Pump
  BY <1>1, <1>2, <1>4, EndsStand, BatchStep
<1> QED
  BY <1>3, <1>4

\* Every step leaves a waiting parent a child that can wake it.
LEMMA WaitingStep == Inv /\ [Next]_vars => WaitingCanBeWoken'
<1> SUFFICES ASSUME Inv, [Next]_vars, NEW r \in Root, status'[r] = "waiting"
             PROVE  \E c \in Kids(r) : \/ status'[c] \in Active
                                       \/ status'[c] \in Terminal /\ c \notin inserted'[r]
  BY DEF WaitingCanBeWoken, IsActive
<1>i. TypeOK /\ r \in Task
  BY DEF Inv, Task
<1>1. PICK c \in Kids(r) : IsActive(c) \/ (status[c] \in Terminal /\ c \notin inserted[r])
  <2>1. Moves(r)
    BY <1>i, MovesStep
  <2>2. CASE status[r] = "waiting"
    BY <2>2 DEF Inv, WaitingCanBeWoken
  <2>3. CASE status[r] # "waiting"
    <3>1. ActiveKids(r) # {}
      BY <2>1, <2>3 DEF Moves, Terminal
    <3> QED
      BY <3>1 DEF ActiveKids
  <2> QED
    BY <2>2, <2>3
<1>2. c \in Child /\ c \in Task /\ ParentOf[c] = r
  BY DEF Kids, Task
<1>3. c \notin inserted[r]
  BY <1>1, <1>2 DEF Inv, Reports, IsActive, Active, Terminal
<1>4. status'[c] \in Active \cup Terminal
  <2>1. Moves(c)
    BY <1>2, MovesStep
  <2> QED
    BY <1>1, <2>1 DEF Moves, IsActive, Active
<1>5. c \notin inserted'[r]
  <2>1. SUFFICES ASSUME c \in inserted'[r] PROVE FALSE
    OBVIOUS
  <2>2. Pump /\ status[c] \in Terminal
    BY <1>2, <1>3, <1>i, <2>1, InsertedStep
  <2>3. status'[r] = Woken(status, r, Completions(r))
    BY <1>i, <2>2 DEF Pump
  <2>4. status[r] = "waiting"
    BY <2>3 DEF Woken
  <2>5. c \in Completions(r)
    BY <1>2, <1>3, <2>2, <2>4 DEF Completions, IsActive, Active, Kids
  <2> QED
    BY <2>3, <2>4, <2>5 DEF Woken
<1> QED
  BY <1>4, <1>5

-----------------------------------------------------------------------------
(* Theorems *)

\* The invariant is inductive.
LEMMA InvAlways == Spec => []Inv
<1>1. Inv /\ [Next]_vars => Inv'
  BY TypeStep, ReceiptsStep, BatchesStep, LoopsStep, ReportsStep, WaitingStep DEF Inv
<1> QED
  BY InitInv, <1>1, PTL DEF Spec

\* Type correctness; in particular a tree never takes more model turns than its budget.
THEOREM SchedulerTypes == Spec => []TypeOK
<1>1. Inv => TypeOK
  BY DEF Inv
<1> QED
  BY InvAlways, <1>1, PTL

\* The runner is asked at most once for the side effect of a call, whatever crashes, stops
\* and replays happen, because its receipt is written first.
THEOREM EffectsAtMostOnce == Spec => []AtMostOnce
<1>1. Inv => AtMostOnce
  BY DEF Inv, Receipts, AtMostOnce
<1> QED
  BY InvAlways, <1>1, PTL

\* While the process is up, a running task has a loop that drives it.
THEOREM RunningIsDriven == Spec => []RunningHasLoop
<1>1. Inv => RunningHasLoop
  BY DEF Inv, Loops, RunningHasLoop, Terminal
<1> QED
  BY InvAlways, <1>1, PTL

\* A parent that waits has a child that is active, or whose completion is still to come.
THEOREM WaitingEnds == Spec => []WaitingCanBeWoken
<1>1. Inv => WaitingCanBeWoken
  BY DEF Inv
<1> QED
  BY InvAlways, <1>1, PTL

\* The only way in which the end of a task is undone is that pump() starts a task which was
\* cancelled after it was listed.
THEOREM EndsAreFinal == Spec => VerdictStands
<1> DEFINE A == \A t \in Task : status[t] \in Terminal /\ status'[t] # status[t]
                => status[t] = "cancelled" /\ t \in batch /\ thread = "pump"
<1>1. Inv /\ [Next]_vars => [A]_vars
  BY EndsStand
<1>2. Spec => [][A]_vars
  BY InvAlways, <1>1, PTL DEF Spec
<1> QED
  BY <1>2 DEF VerdictStands

-----------------------------------------------------------------------------
(* Trees that have not been through a restart *)

\* A pending call for a subagent is its parent's, and for a child of it.
TreeCalls ==
    \A t \in Task : call[t] # None =>
        /\ call[t].kind \in {"wait", "spawn", "cancel", "message"} => t \in Root
        /\ call[t].child # None => call[t].child \in Kids(t)

\* A loop at its top has no call under way; a loop that has the thread is at its top or
\* leaves, and while pump() still has tasks to look at it has only just begun; a task that
\* waits is a root without news; a task that is queued or listed has neither loop nor call.
Turn(t) ==
    /\ pc[t] = "top" => receipt[t] = "none"
    /\ pc[t] = "leaving" => thread = t
    /\ thread = t => pc[t] \in {"top", "leaving"}
    /\ thread = t /\ pc[t] = "top" /\ batch # {} => call[t] = None /\ Checked(t)
    /\ status[t] = "waiting" => t \in Root /\ inbox[t] = {} /\ pc[t] \in {"ended", "save", "none"}
    /\ status[t] = "queued" \/ t \in batch => pc[t] = "none"
    /\ pc[t] = "none" /\ (status[t] \notin Terminal \/ t \in batch) => call[t] = None

Turns == \A t \in Task : Turn(t)

\* the tree of r has used up its model turns
Spent(r) == steps[r] >= MaxSteps

\* An active child of a parent that has ended is about to be cancelled, or was started from
\* pump()'s list with no turn left, so that its first check ends it.
Bond(c, r) ==
    /\ c \in batch /\ (status[c] = "cancelled" \/ status[r] \in Terminal) => Spent(r)
    /\ pc[r] = "review" => ~IsActive(c) /\ c \notin batch
    /\ status[r] \in Terminal /\ IsActive(c) =>
          \/ pc[r] = "leaving"
          \/ thread = c /\ pc[c] = "top" /\ call[c] = None /\ Spent(r)

Bonds == \A c \in Child : Bond(c, ParentOf[c])

FamilyInv == restarts = 0 => process = "up" /\ TreeCalls /\ Turns /\ Bonds

\* Without a stop or a crash the process is up, and nothing is recovered.
LEMMA CalmNext ==
    ASSUME TypeOK, restarts = 0 => process = "up", [Next]_vars, restarts' = 0
    PROVE  /\ restarts = 0 /\ process = "up" /\ process' = "up"
           /\ \/ UNCHANGED vars
              \/ Client \/ Pump
              \/ \E t \in Task : Dispatch(t) \/ (Loop(t) /\ ~StopLoop(t)) \/ Settles(t)
<1> USE DEF outside, durable
<1>1. CASE UNCHANGED vars
  BY <1>1 DEF vars
<1>2. CASE Stop \/ Crash
  BY <1>2 DEF Stop, Crash, TypeOK
<1>3. CASE Client
  BY <1>3 DEF Client, Start, Update, CancelTree, Expire
<1>4. CASE Pump
  BY <1>4 DEF Pump
<1>5. ASSUME NEW t \in Task, Dispatch(t) PROVE process' = process /\ restarts' = restarts
  BY <1>5 DEF Dispatch
<1>6. ASSUME NEW t \in Task, Loop(t) PROVE process' = process /\ restarts' = restarts
  BY <1>6 DEF Loop, StopLoop, FailAtTop, Ask, Skip, Reuse, CallRunner, Wait, Spawn, MessageSubagent,
     CancelSubagent, BeginFinish, EndTool, SaveResult, CancelKids
<1>7. ASSUME NEW t \in Task, Settles(t) PROVE process' = process /\ restarts' = restarts
  BY <1>7 DEF Settles, ToolReturns, ToolFails, ReviewReturns, ReviewFails, ModelReturns, DiscardPlan,
     Abstain, ModelFails, Closed
<1>8. CASE Stopped \/ Recover
  BY <1>8 DEF Stopped, Recover
<1>9. ASSUME NEW t \in Task, StopLoop(t) PROVE process = "stopping"
  BY <1>9 DEF StopLoop
<1>10. CASE \E t \in Task : Dispatch(t) \/ Loop(t) \/ Settles(t)
  BY <1>5, <1>6, <1>7, <1>9, <1>10
<1> QED
  BY <1>1, <1>2, <1>3, <1>4, <1>8, <1>10 DEF Next

\* What the model may ask for belongs to the tree.
LEMMA RequestsTree ==
    ASSUME NEW t \in Task, NEW c \in Requests(t)
    PROVE  /\ c.kind \in {"wait", "spawn", "cancel", "message"} => t \in Root
           /\ c.child # None => c.child \in Kids(t)
BY DEF Requests

\* Every step keeps the calls within the tree.
LEMMA TreeCallsStep ==
    ASSUME TypeOK, TreeCalls, [Next]_vars
    PROVE  TreeCalls'
<1> USE DEF durable
<1>1. ASSUME \A t \in Task : call'[t] \in {call[t], None} PROVE TreeCalls'
  BY <1>1 DEF TreeCalls
<1>2. CASE UNCHANGED call
  BY <1>1, <1>2
<1>3. ASSUME NEW u \in Task, Skip(u) \/ SaveResult(u) PROVE TreeCalls'
  <2>1. call' = [call EXCEPT ![u] = None] \/ call' = call
    BY <1>3 DEF Skip, SaveResult
  <2> QED
    BY <1>1, <2>1 DEF TypeOK
<1>4. ASSUME NEW u \in Task, ModelReturns(u) PROVE TreeCalls'
  <2>1. PICK c \in Requests(u) : call' = [call EXCEPT ![u] = c]
    BY <1>4 DEF ModelReturns
  <2> QED
    BY <2>1, RequestsTree DEF TreeCalls, TypeOK
<1>5. ASSUME NEW u \in Task, Loop(u), ~Skip(u), ~SaveResult(u) PROVE UNCHANGED call
  BY <1>5 DEF Loop, StopLoop, FailAtTop, Ask, Reuse, CallRunner, Wait, Spawn, MessageSubagent,
     CancelSubagent, BeginFinish, EndTool, CancelKids, Fail, Leave
<1>6. ASSUME NEW u \in Task, Settles(u), ~ModelReturns(u) PROVE UNCHANGED call
  BY <1>6 DEF Settles, ToolReturns, ToolFails, ReviewReturns, ReviewFails, DiscardPlan, Abstain,
     ModelFails, Closed, Fail, Leave
<1>7. CASE Client \/ Pump \/ Stop \/ Stopped \/ Crash \/ Recover \/ UNCHANGED vars
  BY <1>2, <1>7 DEF Client, Start, Update, CancelTree, Expire, Pump, Stop, Stopped, Crash, Recover, vars
<1>8. ASSUME NEW u \in Task, Dispatch(u) PROVE TreeCalls'
  BY <1>2, <1>8 DEF Dispatch
<1> QED
  BY <1>2, <1>3, <1>4, <1>5, <1>6, <1>7, <1>8 DEF Next

\* A step of another loop leaves a task's turn alone: it may cancel the task, spawn it, or
\* send a message to a child, which does not wait.
LEMMA TurnOther ==
    ASSUME Inv, NEW t \in Task, Turn(t), thread # t, thread' # t,
           pc'[t] = pc[t], receipt'[t] = receipt[t], call'[t] = call[t], batch' \in SUBSET batch,
           status'[t] \in {status[t], "cancelled"} \/ (status[t] = "absent" /\ status'[t] = "queued"),
           inbox'[t] = inbox[t] \/ t \in Child
    PROVE  Turn(t)'
<1>1. status[t] = "absent" => pc[t] = "none"
  BY DEF Inv, Loops
<1>2. t \in Child => t \notin Root
  BY SchedulerAssumption
<1> QED
  BY <1>1, <1>2 DEF Turn, Terminal

\* Every step outside a restart keeps the loops' turns.
LEMMA TurnsStep ==
    ASSUME Inv, TreeCalls, Turns, [Next]_vars, restarts = 0 /\ process = "up", restarts' = 0
    PROVE  Turns'
<1> SUFFICES ASSUME NEW t \in Task PROVE Turn(t)'
  BY DEF Turns
<1>i. TypeOK /\ Turn(t) /\ \A u \in Task : Turn(u)
  BY DEF Inv, Turns
<1>n. "free" \notin Task /\ "pump" \notin Task
  BY SchedulerAssumption
<1>f. thread = "free" => batch = {}
  BY DEF Inv, Batches
<1>l. /\ \A u \in Task : status[u] = "absent" => pc[u] = "none"
      /\ \A u \in Task : pc[u] \in {"leaving", "closing"} => status[u] \in Terminal
      /\ \A u \in Task : call[u] = None => receipt[u] = "none"
      /\ \A u \in Task : pc[u] = "model" => call[u] = None
  BY DEF Inv, Loops, Receipts
<1> USE DEF durable
<1>1. ASSUME NEW r \in Root, Start(r) PROVE Turn(t)'
  <2>1. CASE t # r
    BY <1>1, <1>i, <1>n, <2>1, TurnOther DEF Start, MacroTurn, TypeOK
  <2>2. CASE t = r
    <3>1. pc[t] = "none" /\ status[t] = "absent" /\ status'[t] = "queued" /\ thread = "free"
      BY <1>1, <1>i, <1>l, <2>2 DEF Start, MacroTurn, TypeOK
    <3>2. UNCHANGED << pc, thread, batch, call, receipt >>
      BY <1>1 DEF Start
    <3> QED
      BY <1>i, <1>n, <3>1, <3>2 DEF Turn, Terminal
  <2> QED
    BY <2>1, <2>2
\* clients: only a waiting task that is woken may have a message
<1>2. ASSUME NEW u \in Task, Update(u) PROVE Turn(t)'
  <2>1. /\ thread = "free" /\ batch = {} /\ pc[u] \notin {"ended", "save"}
        /\ UNCHANGED << pc, thread, batch, call, receipt >>
    BY <1>2, <1>f DEF Update, MacroTurn
  <2>2. CASE t # u
    BY <1>2, <1>i, <1>n, <2>1, <2>2, TurnOther DEF Update, TypeOK
  <2>3. CASE t = u
    <3>1. status'[t] = IF status[t] = "waiting" THEN "queued" ELSE status[t]
      BY <1>2, <1>i, <2>3 DEF Update, Woken, TypeOK
    <3> QED
      BY <1>i, <1>n, <2>1, <2>3, <3>1 DEF Turn, Terminal
  <2> QED
    BY <2>2, <2>3
<1>3. ASSUME NEW u \in Task, CancelTree(u) \/ Expire(u) PROVE Turn(t)'
  <2>1. /\ thread = "free" /\ UNCHANGED << pc, thread, batch, call, receipt, inbox >>
    BY <1>3 DEF CancelTree, Expire, MacroTurn
  <2>2. status'[t] \in {status[t], "cancelled"}
    BY <1>3 DEF CancelTree, Expire, Cancelled
  <2> QED
    BY <1>i, <1>n, <2>1, <2>2, TurnOther
<1>4. CASE Pump
  <2> DEFINE new == IF t \in Root THEN Completions(t) ELSE {}
  <2>1. /\ thread = "free" /\ pc[t] \notin {"ended", "save"}
        /\ UNCHANGED << pc, call, receipt >>
        /\ thread' \in {"free", "pump"}
        /\ batch' = {x \in Task : status'[x] = "queued"}
    BY <1>4 DEF Pump, MacroTurn
  <2>2. /\ inbox'[t] = inbox[t] \cup new
        /\ status'[t] = IF new # {} /\ status[t] = "waiting" THEN "queued" ELSE status[t]
    BY <1>4 DEF Pump, Woken
  <2> HIDE DEF new
  <2>3. t \in batch' => status'[t] = "queued"
    BY <2>1
  <2> QED
    BY <1>i, <1>n, <2>1, <2>2, <2>3 DEF Turn, Terminal
<1>5. ASSUME NEW u \in Task, Dispatch(u) PROVE Turn(t)'
  <2>1. /\ thread = "pump" /\ u \in batch /\ batch' \in SUBSET batch
        /\ UNCHANGED << call, receipt, inbox >>
    BY <1>5 DEF Dispatch
  <2>2. CASE UNCHANGED << status, pc >> /\ thread' \in {"free", "pump"}
    BY <1>i, <1>n, <2>1, <2>2, TurnOther
  <2>3. CASE /\ status' = [status EXCEPT ![u] = "running"] /\ aborted' = aborted \ {u}
             /\ pc' = [pc EXCEPT ![u] = "top"] /\ thread' = u /\ batch' = batch \ {u}
    <3>1. CASE t # u
      BY <1>i, <1>n, <2>1, <2>3, <3>1, TurnOther DEF TypeOK
    <3>2. CASE t = u
      <4>1. call[t] = None /\ receipt[t] = "none"
        BY <1>i, <1>l, <2>1, <3>2 DEF Turn
      <4>2. status'[t] = "running" /\ pc'[t] = "top" /\ thread' = t /\ t \notin batch' /\ t \notin aborted'
        BY <1>i, <2>3, <3>2 DEF TypeOK
      <4> QED
        BY <2>1, <4>1, <4>2 DEF Turn, Checked, IsActive, Active
    <3> QED
      BY <3>1, <3>2
  <2> QED
    BY <1>5, <2>2, <2>3 DEF Dispatch, SetPc
\* a loop leaves, with the status of no other task changed
<1>6. ASSUME NEW u \in Task, NEW st \in [Task -> TaskState], Leave(u, st),
             thread = u \/ thread = "free", pc[u] \notin {"none", "leaving"},
             \A x \in Task \ {u} : st[x] = status[x],
             st[u] \notin Active
      PROVE  Turn(t)'
  <2>1. /\ pc' = [pc EXCEPT ![u] = "leaving"] /\ thread' = u /\ status' = st
        /\ UNCHANGED << batch, call, receipt, inbox >>
    BY <1>6 DEF Leave
  <2>2. CASE t # u
    BY <1>6, <1>i, <1>n, <2>1, <2>2, TurnOther DEF TypeOK
  <2>3. CASE t = u
    <3>1. t \notin batch /\ pc'[t] = "leaving" /\ status'[t] \notin Active
      BY <1>6, <1>i, <1>n, <1>f, <2>1, <2>3 DEF TypeOK, Turn
    <3> QED
      BY <2>1, <2>3, <3>1 DEF Turn, Active
  <2> QED
    BY <2>2, <2>3
<1>7. ASSUME NEW u \in Task, FailAtTop(u) \/ ToolFails(u) \/ ReviewFails(u) \/ ModelFails(u)
      PROVE  Turn(t)'
  <2> DEFINE st == IF IsActive(u)
                   THEN [status EXCEPT ![u] = IF process = "stopping" THEN "queued" ELSE "failed"]
                   ELSE status
  <2>1. /\ thread = u \/ thread = "free"
        /\ pc[u] \notin {"none", "leaving"} /\ Fail(u) /\ process = "up"
    BY <1>7 DEF FailAtTop, ToolFails, ReviewFails, ModelFails, AtTop, Resumes, MacroTurn
  <2>2. /\ st \in [Task -> TaskState]
        /\ \A x \in Task \ {u} : st[x] = status[x]
        /\ st[u] \notin Active
    BY <1>i, <2>1 DEF TypeOK, TaskState, Active, Terminal, IsActive
  <2>3. Leave(u, st)
    BY <2>1 DEF Fail
  <2> HIDE DEF st
  <2> QED
    BY <1>6, <2>1, <2>2, <2>3
<1>8. ASSUME NEW u \in Task, Abstain(u) PROVE Turn(t)'
  <2> DEFINE st == [status EXCEPT ![u] = "done"]
  <2>1. thread = "free" /\ pc[u] = "model" /\ Leave(u, st)
    BY <1>8 DEF Abstain, Resumes, MacroTurn
  <2>2. /\ st \in [Task -> TaskState]
        /\ \A x \in Task \ {u} : st[x] = status[x]
        /\ st[u] \notin Active
    BY <1>i DEF TypeOK, TaskState, Active, Terminal
  <2> HIDE DEF st
  <2> QED
    BY <1>6, <2>1, <2>2
\* a loop at its top goes on and gives the thread away
<1>9. ASSUME NEW u \in Task, NEW where \in {"model", "save", "tool", "ended", "review"},
             thread = u, pc[u] = "top",
             pc' = [pc EXCEPT ![u] = where], thread' \in {"free", "pump"},
             call' = call, batch' = batch,
             \A x \in Task \ {u} : receipt'[x] = receipt[x],
             \A x \in Task \ {u} : \/ status'[x] \in {status[x], "cancelled"}
                                   \/ status[x] = "absent" /\ status'[x] = "queued",
             \A x \in Task \ {u} : inbox'[x] = inbox[x] \/ x \in Child,
             status'[u] # "queued",
             status'[u] = "waiting" => u \in Root /\ inbox'[u] = {} /\ where = "ended"
      PROVE  Turn(t)'
  <2>1. CASE t # u
    BY <1>9, <1>i, <1>n, <2>1, TurnOther DEF TypeOK
  <2>2. CASE t = u
    <3>1. t \notin batch
      BY <1>9, <1>i, <2>2 DEF Turn
    <3> QED
      BY <1>9, <1>i, <1>n, <2>2, <3>1 DEF Turn, TypeOK
  <2> QED
    BY <2>1, <2>2
<1>10. ASSUME NEW u \in Task, AtTop(u) PROVE status[u] \notin {"queued", "waiting"} /\ receipt[u] = "none"
  BY <1>10, <1>i DEF AtTop, Turn
<1>11. ASSUME NEW u \in Task, Ask(u) \/ Reuse(u) PROVE Turn(t)'
  <2>1. /\ thread = u /\ pc[u] = "top" /\ AtTop(u) /\ thread' \in {"free", "pump"}
        /\ pc' = [pc EXCEPT ![u] = "model"] \/ pc' = [pc EXCEPT ![u] = "save"]
        /\ UNCHANGED << call, batch, receipt, status >>
    BY <1>11 DEF Ask, Reuse, AtTop, SetPc, Yield
  <2>2. \A x \in Task \ {u} : inbox'[x] = inbox[x]
    BY <1>11, <1>i DEF Ask, Reuse, TypeOK
  <2> QED
    BY <1>9, <1>10, <2>1, <2>2
<1>12. ASSUME NEW u \in Task, Skip(u) PROVE Turn(t)'
  <2>1. /\ thread = u /\ pc[u] = "top" /\ thread' = u /\ call[u] # None
        /\ call' = [call EXCEPT ![u] = None]
        /\ UNCHANGED << pc, batch, receipt, status, inbox >>
    BY <1>12 DEF Skip, AtTop
  <2>2. batch = {}
    BY <1>i, <2>1 DEF Turn
  <2>3. CASE t # u
    BY <1>i, <2>1, <2>3, TurnOther DEF TypeOK
  <2>4. CASE t = u
    BY <1>i, <2>1, <2>2, <2>4 DEF Turn, TypeOK
  <2> QED
    BY <2>3, <2>4
<1>13. ASSUME NEW u \in Task, NEW kind, Executes(u, kind)
       PROVE  /\ thread = u /\ pc[u] = "top" /\ AtTop(u) /\ inbox[u] = {}
              /\ call[u] # None /\ call[u].kind = kind /\ batch = {}
              /\ \A x \in Task \ {u} : receipt'[x] = receipt[x]
  BY <1>13, <1>i, <1>10 DEF Executes, AtTop, Turn, TypeOK
<1>14. ASSUME NEW u \in Task, CallRunner(u) PROVE Turn(t)'
  <2>1. PICK kind : Executes(u, kind)
    BY <1>14 DEF CallRunner
  <2>2. /\ pc' = [pc EXCEPT ![u] = "tool"] /\ thread' \in {"free", "pump"}
        /\ UNCHANGED << call, batch, status, inbox >>
    BY <1>14 DEF CallRunner, SetPc, Yield
  <2> QED
    BY <1>9, <1>10, <1>13, <2>1, <2>2
<1>15. ASSUME NEW u \in Task, Wait(u) PROVE Turn(t)'
  <2>1. Executes(u, "wait") /\ u \in Root
    BY <1>13, <1>15 DEF Wait, TreeCalls
  <2>2. /\ pc' = [pc EXCEPT ![u] = "ended"] /\ thread' \in {"free", "pump"}
        /\ UNCHANGED << call, batch, inbox >>
        /\ \A x \in Task \ {u} : status'[x] = status[x]
        /\ status'[u] # "queued"
    BY <1>10, <1>13, <1>15, <1>i DEF Wait, SetPc, Yield, TypeOK
  <2> QED
    BY <1>9, <1>13, <2>1, <2>2
<1>16. ASSUME NEW u \in Task, Spawn(u) PROVE Turn(t)'
  <2>1. Executes(u, "spawn")
    BY <1>16 DEF Spawn
  <2>2. /\ pc' = [pc EXCEPT ![u] = "ended"] /\ thread' \in {"free", "pump"}
        /\ UNCHANGED << call, batch, inbox >>
    BY <1>16 DEF Spawn, SetPc, Yield
  <2>3. \A x \in Task : \/ status'[x] = status[x]
                        \/ status[x] = "absent" /\ status'[x] = "queued"
    BY <1>16, <1>i DEF Spawn, TypeOK
  <2>4. status[u] # "absent"
    BY <1>13, <1>l, <2>1
  <2> QED
    BY <1>9, <1>10, <1>13, <2>1, <2>2, <2>3, <2>4
<1>17. ASSUME NEW u \in Task, MessageSubagent(u) PROVE Turn(t)'
  <2>1. Executes(u, "message") /\ call[u].child \in Child
    BY <1>17, <1>i DEF MessageSubagent, Executes, TypeOK, Call
  <2>2. /\ pc' = [pc EXCEPT ![u] = "ended"] /\ thread' \in {"free", "pump"}
        /\ UNCHANGED << call, batch, status >>
        /\ \A x \in Task \ {u} : inbox'[x] = inbox[x] \/ x \in Child
    BY <1>17, <1>i, <2>1 DEF MessageSubagent, SetPc, Yield, TypeOK
  <2> QED
    BY <1>9, <1>10, <1>13, <2>1, <2>2
<1>18. ASSUME NEW u \in Task, CancelSubagent(u) PROVE Turn(t)'
  <2>1. Executes(u, "cancel")
    BY <1>18 DEF CancelSubagent
  <2>2. /\ pc' = [pc EXCEPT ![u] = "ended"] /\ thread' \in {"free", "pump"}
        /\ UNCHANGED << call, batch, inbox >>
        /\ \A x \in Task : status'[x] \in {status[x], "cancelled"}
    BY <1>18 DEF CancelSubagent, Cancelled, SetPc, Yield
  <2> QED
    BY <1>9, <1>10, <1>13, <2>1, <2>2
<1>19. ASSUME NEW u \in Task, BeginFinish(u) PROVE Turn(t)'
  <2>1. Executes(u, "finish")
    BY <1>19 DEF BeginFinish
  <2>2. /\ pc' = [pc EXCEPT ![u] = "ended"] \/ pc' = [pc EXCEPT ![u] = "review"]
        /\ thread' \in {"free", "pump"}
        /\ UNCHANGED << call, batch, inbox >>
        /\ status' = status \/ status' = [status EXCEPT ![u] = "done"]
    BY <1>19 DEF BeginFinish, SetPc, Yield
  <2>3. /\ \A x \in Task \ {u} : status'[x] = status[x]
        /\ status'[u] \notin {"queued", "waiting"}
    BY <1>10, <1>13, <1>i, <2>1, <2>2 DEF TypeOK
  <2> QED
    BY <1>9, <1>13, <2>1, <2>2, <2>3
\* a loop resumes while nothing else has the thread
<1>20. ASSUME NEW u \in Task, EndTool(u) PROVE Turn(t)'
  <2>1. /\ thread = "free" /\ pc[u] = "ended" /\ batch = {}
        /\ receipt' = [receipt EXCEPT ![u] = "done"] /\ pc' = [pc EXCEPT ![u] = "save"]
        /\ UNCHANGED << status, call, inbox, batch, thread >>
    BY <1>20, <1>f DEF EndTool, SetPc
  <2>2. CASE t # u
    BY <1>i, <1>n, <2>1, <2>2, TurnOther DEF TypeOK
  <2>3. CASE t = u
    BY <1>i, <1>n, <2>1, <2>3 DEF Turn, TypeOK
  <2> QED
    BY <2>2, <2>3
<1>21. ASSUME NEW u \in Task, SaveResult(u) PROVE Turn(t)'
  <2>1. /\ thread = "free" /\ pc[u] = "save" /\ batch = {} /\ UNCHANGED << status, inbox, batch >>
        /\ status[u] # "queued" /\ status[u] # "absent"
    BY <1>21, <1>f, <1>i, <1>l DEF SaveResult, Turn
  <2>2. CASE t # u
    <3>1. /\ pc'[t] = pc[t] /\ call'[t] = call[t] /\ receipt'[t] = receipt[t]
          /\ thread' \in {"free", u}
      BY <1>21, <1>i, <2>1, <2>2 DEF SaveResult, SetPc, TypeOK
    <3> QED
      BY <1>i, <1>n, <2>1, <2>2, <3>1, TurnOther
  <2>3. CASE t = u
    <3>1. CASE status[t] = "running"
      <4>1. pc'[t] = "top" /\ thread' = t /\ call'[t] = None /\ receipt'[t] = "none"
        BY <1>21, <1>i, <2>3, <3>1 DEF SaveResult, SetPc, TypeOK
      <4> QED
        BY <2>1, <3>1, <4>1 DEF Turn
    <3>2. CASE status[t] = "waiting"
      <4>1. pc'[t] = "none" /\ thread' = thread /\ call'[t] = None /\ receipt'[t] = "none"
        BY <1>21, <1>i, <2>3, <3>2 DEF SaveResult, SetPc, TypeOK, IsActive, Active
      <4> QED
        BY <1>i, <1>n, <2>1, <3>2, <4>1 DEF Turn
    <3>3. CASE status[t] \in Terminal
      <4>1. pc'[t] = "leaving" /\ thread' = t
        BY <1>21, <1>i, <2>3, <3>3 DEF SaveResult, SetPc, TypeOK, IsActive, Active, Terminal
      <4> QED
        BY <2>1, <3>3, <4>1 DEF Turn, Terminal
    <3> QED
      BY <1>i, <2>1, <2>3, <3>1, <3>2, <3>3 DEF TypeOK, TaskState, Active
  <2> QED
    BY <2>2, <2>3
<1>22. ASSUME NEW u \in Task, CancelKids(u) PROVE Turn(t)'
  <2>1. /\ thread = u /\ pc[u] = "leaving" /\ pc' = [pc EXCEPT ![u] = "closing"]
        /\ thread' \in {"free", "pump"} /\ UNCHANGED << call, receipt, inbox, batch >>
        /\ \A x \in Task : status'[x] \in {status[x], "cancelled"}
    BY <1>22 DEF CancelKids, Cancelled, SetPc, Yield
  <2>2. CASE t # u
    BY <1>i, <1>n, <2>1, <2>2, TurnOther DEF TypeOK
  <2>3. CASE t = u
    <3>1. status[t] \in Terminal /\ t \notin batch
      BY <1>i, <1>l, <2>1, <2>3 DEF Turn
    <3>2. status'[t] \in Terminal /\ pc'[t] = "closing"
      BY <1>i, <2>1, <2>3, <3>1 DEF TypeOK, Terminal
    <3> QED
      BY <1>n, <2>1, <3>1, <3>2 DEF Turn, Terminal
  <2> QED
    BY <2>2, <2>3
<1>23. ASSUME NEW u \in Task, ModelReturns(u) \/ DiscardPlan(u) PROVE Turn(t)'
  <2>1. /\ thread = "free" /\ batch = {} /\ pc[u] = "model" /\ receipt[u] = "none"
        /\ pc' = [pc EXCEPT ![u] = "top"] /\ thread' = u
        /\ UNCHANGED << status, receipt, inbox, batch >>
        /\ status[u] \notin {"queued", "waiting"}
    BY <1>23, <1>f, <1>i, <1>l DEF ModelReturns, DiscardPlan, Resumes, MacroTurn, SetPc, Turn
  <2>2. \A x \in Task \ {u} : call'[x] = call[x]
    BY <1>23, <1>i DEF ModelReturns, DiscardPlan, TypeOK
  <2>3. CASE t # u
    BY <1>i, <1>n, <2>1, <2>2, <2>3, TurnOther DEF TypeOK
  <2>4. CASE t = u
    BY <1>i, <2>1, <2>4 DEF Turn, TypeOK
  <2> QED
    BY <2>3, <2>4
<1>24. ASSUME NEW u \in Task, ToolReturns(u) \/ ReviewReturns(u) PROVE Turn(t)'
  <2>1. /\ thread = "free" /\ batch = {} /\ pc[u] \in {"tool", "review"}
        /\ pc' = [pc EXCEPT ![u] = "ended"]
        /\ UNCHANGED << call, receipt, inbox, batch, thread >>
        /\ status' = status \/ status' = [status EXCEPT ![u] = "done"]
    BY <1>24, <1>f, <1>i DEF ToolReturns, ReviewReturns, Resumes, MacroTurn, SetPc, TypeOK
  <2>2. CASE t # u
    BY <1>i, <1>n, <2>1, <2>2, TurnOther DEF TypeOK
  <2>3. CASE t = u
    <3>1. pc'[t] = "ended" /\ status'[t] \in {status[t], "done"}
      BY <1>i, <2>1, <2>3 DEF TypeOK
    <3> QED
      BY <1>i, <1>n, <2>1, <2>3, <3>1 DEF Turn
  <2> QED
    BY <2>2, <2>3
<1>25. ASSUME NEW u \in Task, Closed(u) PROVE Turn(t)'
  <2>1. /\ thread = "free" /\ batch = {} /\ pc[u] = "closing" /\ status[u] \in Terminal
        /\ pc' = [pc EXCEPT ![u] = "none"]
        /\ UNCHANGED << status, call, receipt, inbox, batch, thread >>
    BY <1>25, <1>f, <1>l DEF Closed, Resumes, MacroTurn, SetPc
  <2>2. CASE t # u
    BY <1>i, <1>n, <2>1, <2>2, TurnOther DEF TypeOK
  <2>3. CASE t = u
    <3>1. pc'[t] = "none"
      BY <1>i, <2>1, <2>3 DEF TypeOK
    <3> QED
      BY <1>i, <1>n, <2>1, <2>3, <3>1 DEF Turn, Terminal
  <2> QED
    BY <2>2, <2>3
<1>26. CASE UNCHANGED vars
  BY <1>26, <1>i DEF vars, Turn, Checked, IsActive
<1>27. CASE Client
  BY <1>1, <1>2, <1>3, <1>27 DEF Client
<1>28. ASSUME NEW u \in Task, Loop(u), ~StopLoop(u) PROVE Turn(t)'
  BY <1>7, <1>11, <1>12, <1>14, <1>15, <1>16, <1>17, <1>18, <1>19, <1>20, <1>21, <1>22, <1>28 DEF Loop
<1>29. ASSUME NEW u \in Task, Settles(u) PROVE Turn(t)'
  BY <1>7, <1>8, <1>23, <1>24, <1>25, <1>29 DEF Settles
<1>30. \/ UNCHANGED vars
       \/ Client \/ Pump
       \/ \E u \in Task : Dispatch(u) \/ (Loop(u) /\ ~StopLoop(u)) \/ Settles(u)
  BY <1>i, CalmNext
<1> QED
  BY <1>4, <1>5, <1>26, <1>27, <1>28, <1>29, <1>30

\* The model turns of a tree are only ever used up.
LEMMA SpentStep ==
    ASSUME TypeOK, [Next]_vars, NEW r \in Root, Spent(r)
    PROVE  Spent(r)'
<1> USE DEF Spent, durable
<1>1. CASE UNCHANGED steps
  BY <1>1
<1>2. ASSUME NEW u \in Task, Ask(u) PROVE Spent(r)'
  <2>1. steps' = [steps EXCEPT ![RootOf(u)] = @ + 1] /\ RootOf(u) \in Root
    BY <1>2, Trees DEF Ask
  <2> QED
    BY <2>1, SchedulerAssumption DEF TypeOK
<1>3. ASSUME NEW u \in Task, Loop(u), ~Ask(u) PROVE UNCHANGED steps
  BY <1>3 DEF Loop, StopLoop, FailAtTop, Skip, Reuse, CallRunner, Wait, Spawn, MessageSubagent,
     CancelSubagent, BeginFinish, EndTool, SaveResult, CancelKids, Fail, Leave
<1>4. ASSUME NEW u \in Task, Settles(u) PROVE UNCHANGED steps
  BY <1>4 DEF Settles, ToolReturns, ToolFails, ReviewReturns, ReviewFails, ModelReturns, DiscardPlan,
     Abstain, ModelFails, Closed, Fail, Leave
<1>5. CASE Client \/ Pump \/ Stop \/ Stopped \/ Crash \/ Recover \/ UNCHANGED vars
  BY <1>1, <1>5 DEF Client, Start, Update, CancelTree, Expire, Pump, Stop, Stopped, Crash, Recover, vars
<1>6. ASSUME NEW u \in Task, Dispatch(u) PROVE UNCHANGED steps
  BY <1>6 DEF Dispatch
<1> QED
  BY <1>1, <1>2, <1>3, <1>4, <1>5, <1>6 DEF Next

\* Every step outside a restart keeps the bond of a child and its parent.
LEMMA BondsStep ==
    ASSUME Inv, TreeCalls, Turns, Bonds, [Next]_vars, restarts = 0 /\ process = "up", restarts' = 0
    PROVE  Bonds'
<1> SUFFICES ASSUME NEW c \in Child, NEW r \in Root, r = ParentOf[c] PROVE Bond(c, r)'
  BY SchedulerAssumption DEF Bonds
<1>i. TypeOK /\ Turn(c) /\ Turn(r) /\ Bond(c, r)
  <2>1. c \in Task /\ r \in Task
    BY DEF Task
  <2> QED
    BY <2>1 DEF Inv, Turns, Bonds
<1>n. "free" \notin Task /\ "pump" \notin Task
  BY SchedulerAssumption
<1>k. /\ c \in Task /\ r \in Task /\ c # r /\ RootOf(c) = r /\ RootOf(r) = r
      /\ c \in Kids(r)
      /\ \A u \in Task : r \notin Kids(u) /\ (c \in Kids(u) => u = r)
  BY SchedulerAssumption DEF Task, Kids, RootOf
<1>f. thread = "free" => batch = {}
  BY DEF Inv, Batches
<1>s. Spent(r) => Spent(r)'
  BY <1>i, SpentStep
<1> USE DEF durable
\* when the thread is elsewhere, or past the child's check of its turns
<1>q. ASSUME \/ thread \notin {c, r}
             \/ (thread = c /\ call[c] # None)
             \/ (thread = c /\ pc[c] # "top")
             \/ IsActive(r)
      PROVE  status[r] \in Terminal => ~IsActive(c)
  BY <1>q, <1>i, <1>k DEF Bond, Turn, IsActive, Active, Terminal
<1>b. ASSUME c \notin batch', status'[r] \in Terminal \/ pc'[r] = "review" => status'[c] \notin Active
      PROVE  Bond(c, r)'
  BY <1>b DEF Bond, IsActive
\* clients
<1>1. CASE Client
  <2>1. thread = "free" /\ batch' = {} /\ pc' = pc
    BY <1>1, <1>f DEF Client, Start, Update, CancelTree, Expire, MacroTurn
  <2>2. /\ status[r] \in Terminal => status[c] \notin Active
        /\ pc[r] = "review" => status[c] \notin Active
    BY <1>i, <1>n, <1>k, <1>q, <2>1 DEF IsActive, Bond
  <2>3. ASSUME NEW x \in Root, Start(x) PROVE Bond(c, r)'
    <3>1. /\ status'[c] = status[c]
          /\ status'[r] = status[r] \/ status'[r] = "queued"
      BY <1>i, <1>k, <2>3, SchedulerAssumption DEF Start, TypeOK
    <3> QED
      BY <1>b, <2>1, <2>2, <3>1 DEF Terminal
  <2>4. ASSUME NEW u \in Task, Update(u) PROVE Bond(c, r)'
    <3>1. \A x \in Task : status'[x] = status[x] \/ (status[x] = "waiting" /\ status'[x] = "queued")
      BY <1>i, <2>4 DEF Update, Woken, TypeOK
    <3>2. /\ status'[c] \in Active => status[c] \in Active
          /\ status'[r] \in Terminal => status[r] \in Terminal
      BY <1>k, <3>1 DEF Active, Terminal
    <3> QED
      BY <1>b, <2>1, <2>2, <3>2
  <2>5. ASSUME NEW u \in Task, CancelTree(u) PROVE Bond(c, r)'
    <3>1. \A x \in Task : status'[x] = IF x \in {u} \cup Kids(u) /\ status[x] \in Active
                                       THEN "cancelled" ELSE status[x]
      BY <2>5 DEF CancelTree, Cancelled
    <3>2. u = r => status'[c] \notin Active
      BY <1>k, <3>1 DEF Active
    <3>3. u # r => status'[r] = status[r] /\ (status'[c] \in Active => status[c] \in Active)
      BY <1>k, <3>1 DEF Active
    <3> QED
      BY <1>b, <2>1, <2>2, <3>2, <3>3
  <2>6. ASSUME NEW u \in Task, Expire(u) PROVE Bond(c, r)'
    BY <1>b, <2>1, <2>2, <2>6 DEF Expire
  <2> QED
    BY <1>1, <2>3, <2>4, <2>5, <2>6 DEF Client
<1>2. CASE Pump
  <2>1. /\ thread = "free" /\ pc' = pc
        /\ c \in batch' => status'[c] = "queued"
        /\ thread' \in {"free", "pump"}
    BY <1>2 DEF Pump, MacroTurn
  <2>2. \A x \in Task : status'[x] = status[x] \/ (status[x] = "waiting" /\ status'[x] = "queued")
    BY <1>2 DEF Pump, Woken
  <2>3. /\ status'[c] \in Active <=> status[c] \in Active
        /\ status'[r] \in Terminal <=> status[r] \in Terminal
    BY <1>k, <2>2 DEF Active, Terminal
  <2>4. /\ status[r] \in Terminal => status[c] \notin Active
        /\ pc[r] = "review" => status[c] \notin Active
    BY <1>i, <1>n, <1>k, <1>q, <2>1 DEF IsActive, Bond
  <2> QED
    BY <2>1, <2>3, <2>4 DEF Bond, IsActive, Active
<1>3. ASSUME NEW u \in Task, Dispatch(u) PROVE Bond(c, r)'
  <2>1. /\ thread = "pump" /\ u \in batch /\ batch' \in SUBSET batch /\ call' = call
        /\ status[r] \in Terminal => status[c] \notin Active
    BY <1>3, <1>n, <1>k, <1>q DEF Dispatch, IsActive
  <2>2. CASE UNCHANGED << status, pc >>
    BY <1>i, <1>s, <2>1, <2>2 DEF Bond, IsActive
  <2>3. CASE /\ status' = [status EXCEPT ![u] = "running"]
             /\ pc' = [pc EXCEPT ![u] = "top"] /\ thread' = u /\ batch' = batch \ {u}
    <3>1. CASE u \notin {c, r}
      <4>1. /\ status'[c] = status[c] /\ status'[r] = status[r] /\ pc'[r] = pc[r]
        BY <1>i, <1>k, <2>3, <3>1 DEF TypeOK
      <4> QED
        BY <1>i, <1>s, <2>1, <4>1 DEF Bond, IsActive
    <3>2. CASE u = c
      <4>1. /\ status'[r] = status[r] /\ pc'[r] = pc[r] /\ c \notin batch' /\ pc'[c] = "top"
            /\ call'[c] = None
        BY <1>i, <1>k, <2>1, <2>3, <3>2 DEF TypeOK, Turn
      <4>2. pc[r] # "review" /\ (status[r] \in Terminal => Spent(r))
        BY <1>i, <2>1, <3>2 DEF Bond
      <4> QED
        BY <1>s, <2>3, <3>2, <4>1, <4>2 DEF Bond
    <3>3. CASE u = r
      <4>1. /\ status'[c] = status[c] /\ status'[r] = "running" /\ pc'[r] = "top"
        BY <1>i, <1>k, <2>3, <3>3 DEF TypeOK
      <4> QED
        BY <1>i, <1>s, <2>1, <4>1 DEF Bond, Terminal
    <3> QED
      BY <3>1, <3>2, <3>3
  <2> QED
    BY <1>3, <2>2, <2>3 DEF Dispatch, SetPc
\* a loop leaves: of its parent's or its own, or of a task of no concern
<1>4. ASSUME NEW u \in Task, NEW st, Leave(u, st), st[u] \notin Active,
             \A x \in Task \ {u} : st[x] = status[x],
             thread = u \/ thread = "free",
             u = r /\ c \in batch => Spent(r)
      PROVE  Bond(c, r)'
  <2>1. /\ status' = st /\ pc' = [pc EXCEPT ![u] = "leaving"] /\ thread' = u
        /\ UNCHANGED << batch, call >>
    BY <1>4 DEF Leave
  <2>2. CASE u = r
    BY <1>4, <1>i, <1>k, <1>s, <2>1, <2>2 DEF Bond, TypeOK
  <2>3. CASE u = c
    <3>1. c \notin batch
      BY <1>4, <1>f, <2>3 DEF Inv, Batches
    <3>2. pc'[r] = pc[r] /\ status'[c] \notin Active
      BY <1>4, <1>i, <1>k, <2>1, <2>3 DEF TypeOK
    <3> QED
      BY <1>b, <2>1, <3>1, <3>2
  <2>4. CASE u \notin {c, r}
    <3>1. /\ status'[c] = status[c] /\ status'[r] = status[r] /\ pc'[r] = pc[r]
          /\ status[r] \in Terminal => status[c] \notin Active
      BY <1>4, <1>i, <1>k, <1>n, <1>q, <2>1, <2>4 DEF TypeOK, IsActive
    <3> QED
      BY <1>i, <1>s, <2>1, <3>1 DEF Bond, IsActive
  <2> QED
    BY <2>2, <2>3, <2>4
<1>5. ASSUME NEW u \in Task, FailAtTop(u) \/ ToolFails(u) \/ ReviewFails(u) \/ ModelFails(u)
      PROVE  Bond(c, r)'
  <2> DEFINE st == IF IsActive(u)
                   THEN [status EXCEPT ![u] = IF process = "stopping" THEN "queued" ELSE "failed"]
                   ELSE status
  <2>1. Fail(u) /\ (thread = u \/ thread = "free")
    BY <1>5 DEF FailAtTop, ToolFails, ReviewFails, ModelFails, AtTop, Resumes, MacroTurn
  <2>2. st[u] \notin Active /\ \A x \in Task \ {u} : st[x] = status[x]
    BY <1>i DEF TypeOK, Active, IsActive
  <2>3. ASSUME u = r, c \in batch PROVE Spent(r)
    <3>1. thread = r /\ pc[r] = "top" /\ FailAtTop(r)
      BY <1>5, <1>f, <2>3 DEF FailAtTop, ToolFails, ReviewFails, ModelFails, AtTop, Resumes, MacroTurn
    <3>2. call[r] = None /\ Checked(r)
      BY <1>i, <2>3, <3>1 DEF Turn
    <3> QED
      BY <1>k, <3>1, <3>2 DEF FailAtTop, Spent
  <2>4. Leave(u, st)
    BY <2>1 DEF Fail
  <2> HIDE DEF st
  <2> QED
    BY <1>4, <2>1, <2>2, <2>3, <2>4
<1>6. ASSUME NEW u \in Task, Abstain(u) PROVE Bond(c, r)'
  <2> DEFINE st == [status EXCEPT ![u] = "done"]
  <2>1. Leave(u, st) /\ thread = "free"
    BY <1>6 DEF Abstain, Resumes, MacroTurn
  <2>2. st[u] \notin Active /\ \A x \in Task \ {u} : st[x] = status[x]
    BY <1>i DEF TypeOK, Active
  <2> HIDE DEF st
  <2> QED
    BY <1>4, <1>f, <2>1, <2>2
\* a model turn: a child without turns does not get here
<1>7. ASSUME NEW u \in Task, Ask(u) PROVE Bond(c, r)'
  <2>1. /\ thread = u /\ pc[u] = "top" /\ IsActive(u) /\ ~Spent(RootOf(u))
        /\ pc' = [pc EXCEPT ![u] = "model"] /\ UNCHANGED << status, batch >>
    BY <1>7, <1>i, Trees, SchedulerAssumption DEF Ask, AtTop, Checked, SetPc, Spent, TypeOK
  <2>2. status[r] \in Terminal => status[c] \notin Active
    BY <1>i, <1>k, <1>q, <2>1 DEF Bond, IsActive, Turn
  <2>3. pc'[r] = "review" => pc[r] = "review"
    BY <1>i, <1>k, <2>1 DEF TypeOK
  <2> QED
    BY <1>i, <1>s, <2>1, <2>2, <2>3 DEF Bond, IsActive
\* a loop whose turn has a call
<1>8. ASSUME NEW u \in Task, AtTop(u), Checked(u), call[u] # None
      PROVE  /\ batch = {} /\ IsActive(u)
             /\ status[r] \in Terminal => status[c] \notin Active
  <2>1. batch = {} /\ IsActive(u) /\ thread = u
    BY <1>8 DEF AtTop, Checked, Turns, Turn
  <2> QED
    BY <1>8, <1>q, <2>1 DEF IsActive
<1>9. ASSUME NEW u \in Task, Skip(u) \/ Reuse(u) \/ CallRunner(u) \/ MessageSubagent(u)
      PROVE  Bond(c, r)'
  <2>1. /\ AtTop(u) /\ Checked(u) /\ call[u] # None /\ UNCHANGED << status, batch >>
        /\ \/ pc' = pc
           \/ \E where \in {"save", "tool", "ended"} : pc' = [pc EXCEPT ![u] = where]
    BY <1>9 DEF Skip, Reuse, CallRunner, MessageSubagent, Executes, SetPc
  <2>2. pc'[r] = "review" => pc[r] = "review"
    BY <1>i, <1>k, <2>1 DEF TypeOK
  <2> QED
    BY <1>b, <1>8, <1>i, <2>1, <2>2 DEF Bond, IsActive
<1>10. ASSUME NEW u \in Task, Wait(u) \/ Spawn(u) \/ CancelSubagent(u) PROVE Bond(c, r)'
  <2>1. /\ AtTop(u) /\ Checked(u) /\ call[u] # None /\ batch' = batch
        /\ pc' = [pc EXCEPT ![u] = "ended"]
    BY <1>10 DEF Wait, Spawn, CancelSubagent, Executes, SetPc
  <2>2. batch = {} /\ IsActive(u) /\ (status[r] \in Terminal => status[c] \notin Active)
    BY <1>8, <2>1
  <2>3. pc'[r] = "review" => pc[r] = "review" /\ u # r
    BY <1>i, <1>k, <2>1 DEF TypeOK
  <2>4. CASE Wait(u)
    <3>1. \A x \in Task : status'[x] = status[x] \/ (x = u /\ status'[x] = "waiting")
      BY <1>i, <2>4 DEF Wait, TypeOK
    <3>2. /\ status'[c] \in Active => status[c] \in Active
          /\ status'[r] \in Terminal => status[r] \in Terminal
      BY <1>k, <2>2, <3>1 DEF IsActive, Active, Terminal
    <3>3. pc'[r] = "review" => status[c] \notin Active
      BY <1>i, <2>3 DEF Bond, IsActive
    <3> QED
      BY <1>b, <2>1, <2>2, <3>2, <3>3
  <2>5. CASE Spawn(u)
    <3>1. call[u].child \in Child /\ call[u].child \in Kids(u)
      <4>1. call[u] # None /\ call[u].kind = "spawn"
        BY <2>5 DEF Spawn, Executes
      <4>2. call[u].child \in Child
        BY <1>i, <4>1 DEF TypeOK, Call
      <4> QED
        BY <4>1, <4>2, SchedulerAssumption DEF TreeCalls
    <3>2. /\ status'[r] = status[r]
          /\ call[u].child # c => status'[c] = status[c]
      BY <1>i, <1>k, <2>5, <3>1 DEF Spawn, TypeOK
    <3>3. call[u].child = c => u = r
      BY <1>k, <3>1
    <3>4. status'[r] \in Terminal \/ pc'[r] = "review" => u # r
      BY <2>2, <2>3, <3>2 DEF IsActive, Active, Terminal
    <3> QED
      BY <1>b, <1>i, <2>1, <2>2, <2>3, <3>2, <3>3, <3>4 DEF Bond, IsActive
  <2>6. CASE CancelSubagent(u)
    <3>1. call[u].child \in Child
      BY <1>i, <2>6 DEF CancelSubagent, Executes, TypeOK, Call
    <3>2. \A x \in Task : \/ status'[x] = status[x]
                          \/ (x \in Child /\ status'[x] = "cancelled")
      BY <2>6, <3>1 DEF CancelSubagent, Cancelled
    <3>3. status'[r] = status[r] /\ (status'[c] \in Active => status[c] \in Active)
      BY <1>k, <3>2, SchedulerAssumption DEF Active
    <3> QED
      BY <1>b, <1>i, <2>1, <2>2, <2>3, <3>3 DEF Bond, IsActive
  <2> QED
    BY <1>10, <2>4, <2>5, <2>6
<1>11. ASSUME NEW u \in Task, BeginFinish(u) PROVE Bond(c, r)'
  <2>1. /\ AtTop(u) /\ Checked(u) /\ call[u] # None /\ batch' = batch
        /\ \/ pc' = [pc EXCEPT ![u] = "ended"] /\ status' = status
           \/ /\ ActiveKids(u) = {}
              /\ \/ pc' = [pc EXCEPT ![u] = "review"] /\ status' = status
                 \/ pc' = [pc EXCEPT ![u] = "ended"] /\ status' = [status EXCEPT ![u] = "done"]
    BY <1>11 DEF BeginFinish, Executes, SetPc
  <2>2. batch = {} /\ (status[r] \in Terminal => status[c] \notin Active)
    BY <1>8, <2>1
  <2>3. CASE u # r
    <3>1. pc'[r] = pc[r] /\ status'[r] = status[r] /\ (status'[c] \in Active => status[c] \in Active)
      BY <1>i, <1>k, <2>1, <2>3 DEF TypeOK, Active
    <3> QED
      BY <1>b, <1>i, <2>1, <2>2, <3>1 DEF Bond, IsActive
  <2>4. CASE u = r
    <3>1. ActiveKids(r) = {} => status[c] \notin Active
      BY <1>k DEF ActiveKids, IsActive
    <3>2. status'[c] = status[c]
      BY <1>i, <1>k, <2>1, <2>4 DEF TypeOK
    <3>3. pc'[r] = "review" => ActiveKids(r) = {}
      BY <1>i, <1>k, <2>1, <2>4 DEF TypeOK
    <3>4. status'[r] \in Terminal => status[r] \in Terminal \/ ActiveKids(r) = {}
      BY <1>i, <1>k, <2>1, <2>4 DEF TypeOK
    <3> QED
      BY <1>b, <2>1, <2>2, <3>1, <3>2, <3>3, <3>4
  <2> QED
    BY <2>3, <2>4
\* a loop resumes
<1>12. ASSUME NEW u \in Task,
              \/ EndTool(u) \/ SaveResult(u) \/ ToolReturns(u) \/ ReviewReturns(u)
              \/ ModelReturns(u) \/ DiscardPlan(u) \/ Closed(u)
       PROVE  Bond(c, r)'
  <2>1. /\ thread = "free" /\ batch' = {}
        /\ \E where \in {"save", "top", "none", "leaving", "ended"} : pc' = [pc EXCEPT ![u] = where]
        /\ status' = status \/ (pc[u] = "review" /\ status' = [status EXCEPT ![u] = "done"])
    BY <1>12, <1>f, <1>i DEF EndTool, SaveResult, ToolReturns, ReviewReturns, ModelReturns,
       DiscardPlan, Closed, Resumes, MacroTurn, SetPc, TypeOK
  <2>2. /\ status[r] \in Terminal => status[c] \notin Active
        /\ pc[r] = "review" => status[c] \notin Active
    BY <1>i, <1>n, <1>k, <1>q, <2>1 DEF IsActive, Bond
  <2>3. /\ pc'[r] = "review" => pc[r] = "review"
        /\ status'[c] \in Active => status[c] \in Active
        /\ status'[r] \in Terminal => status[r] \in Terminal \/ pc[r] = "review"
    BY <1>i, <1>k, <2>1 DEF TypeOK, Active
  <2> QED
    BY <1>b, <2>1, <2>2, <2>3
<1>13. ASSUME NEW u \in Task, CancelKids(u) PROVE Bond(c, r)'
  <2>1. /\ thread = u /\ pc[u] = "leaving" /\ pc' = [pc EXCEPT ![u] = "closing"]
        /\ batch' = batch
        /\ \A x \in Task : status'[x] = IF x \in Kids(u) /\ status[x] \in Active
                                        THEN "cancelled" ELSE status[x]
    BY <1>13 DEF CancelKids, Cancelled, SetPc
  <2>2. CASE u = r
    <3>1. status[r] \in Terminal
      BY <1>k, <2>1, <2>2 DEF Inv, Loops
    <3>2. status'[c] \notin Active /\ pc'[r] = "closing"
      BY <1>i, <1>k, <2>1, <2>2 DEF TypeOK, Active
    <3> QED
      BY <1>i, <1>s, <2>1, <3>1, <3>2 DEF Bond, IsActive
  <2>3. CASE u # r
    <3>1. /\ status'[c] = status[c] /\ status'[r] = status[r] /\ pc'[r] = pc[r]
      BY <1>i, <1>k, <2>1, <2>3 DEF TypeOK
    <3>2. status[r] \in Terminal => status[c] \notin Active
      BY <1>k, <1>q, <2>1, <2>3 DEF IsActive
    <3> QED
      BY <1>i, <1>s, <2>1, <3>1, <3>2 DEF Bond, IsActive
  <2> QED
    BY <2>2, <2>3
<1>14. CASE UNCHANGED vars
  BY <1>14, <1>i DEF vars, Bond, IsActive, Spent
<1>15. ASSUME NEW u \in Task, Loop(u), ~StopLoop(u) PROVE Bond(c, r)'
  BY <1>5, <1>7, <1>9, <1>10, <1>11, <1>12, <1>13, <1>15 DEF Loop
<1>16. ASSUME NEW u \in Task, Settles(u) PROVE Bond(c, r)'
  BY <1>5, <1>6, <1>12, <1>16 DEF Settles
<1>17. \/ UNCHANGED vars
       \/ Client \/ Pump
       \/ \E u \in Task : Dispatch(u) \/ (Loop(u) /\ ~StopLoop(u)) \/ Settles(u)
  BY <1>i, CalmNext
<1> QED
  BY <1>1, <1>2, <1>3, <1>14, <1>15, <1>16, <1>17

\* The invariant of the trees, which needs no restart to have happened, is inductive.
LEMMA FamilyAlways == Spec => []FamilyInv
<1>1. Init => FamilyInv
  BY SchedulerAssumption DEF Init, FamilyInv, TreeCalls, Turns, Turn, Bonds, Bond, IsActive, Active, Task, Terminal
<1>2. Inv /\ FamilyInv /\ [Next]_vars => FamilyInv'
  <2> SUFFICES ASSUME Inv, FamilyInv, [Next]_vars, restarts' = 0
               PROVE  (process = "up" /\ TreeCalls /\ Turns /\ Bonds)'
    BY DEF FamilyInv
  <2>1. TypeOK
    BY DEF Inv
  <2>2. restarts = 0 /\ process = "up" /\ process' = "up"
    BY <2>1, CalmNext DEF FamilyInv
  <2> QED
    BY <2>1, <2>2, TreeCallsStep, TurnsStep, BondsStep DEF FamilyInv
<1> QED
  BY InvAlways, <1>1, <1>2, PTL DEF Spec

\* As long as the process was neither stopped nor crashed, no child outlives its parent: the
\* loop of a task that ends cancels its children before anything else runs, and a child that
\* pump() had already listed finds the tree's turns used up.
THEOREM ChildrenEndWithTheirParent == Spec => [](restarts = 0 => NoOrphans)
<1>1. FamilyInv => (restarts = 0 => NoOrphans)
  <2> SUFFICES ASSUME Turns, Bonds, MacroTurn, NEW r \in Root, status[r] \in Terminal, NEW c \in Kids(r)
               PROVE  ~IsActive(c)
    BY DEF FamilyInv, NoOrphans, ActiveKids
  <2>1. c \in Child /\ c \in Task /\ r \in Task /\ ParentOf[c] = r
    BY DEF Kids, Task
  <2>2. pc[r] # "leaving" /\ thread # c
    BY <2>1, SchedulerAssumption DEF Turns, Turn, MacroTurn
  <2> QED
    BY <2>1, <2>2 DEF Bonds, Bond
<1> QED
  BY FamilyAlways, <1>1, PTL

\* As long as the process was neither stopped nor crashed, a task that waits has read all its
\* messages: only roots wait, a call with news pending is dropped, and news wakes them.
THEOREM NobodyWaitsWithNews == Spec => [](restarts = 0 => NothingUnreadWhileWaiting)
<1>1. FamilyInv => (restarts = 0 => NothingUnreadWhileWaiting)
  BY DEF FamilyInv, Turns, Turn, NothingUnreadWhileWaiting
<1> QED
  BY FamilyAlways, <1>1, PTL

=============================================================================
