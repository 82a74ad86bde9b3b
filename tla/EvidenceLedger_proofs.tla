----------------------- MODULE EvidenceLedger_proofs -----------------------
(***************************************************************************)
(* Theorems about the evidence ledger, for any sets of events, tasks and   *)
(* memories and any bounds.                                                *)
(*                                                                         *)
(* ActiveWorkIsCurrent is not inductive by itself: a task, a memory or a   *)
(* notification that comes into being must not find old rows under its id, *)
(* a tool's rows must not go to a root that does not exist yet, and what   *)
(* the agent records itself has one revision.  Tidy says so, and           *)
(* Inv == TypeOK /\ Tidy /\ ActiveWorkIsCurrent is inductive.              *)
(***************************************************************************)
EXTENDS EvidenceLedger, TLAPS

Tidy ==
    /\ \A d \in Derived : \A n \in Revision : n > 0 => evidence[d][n] = "absent"
    /\ \A c \in Child : tasks[c] # "absent" => parent[c] \in Root /\ tasks[parent[c]] # "absent"
    /\ \A t \in Task : tasks[t] = "absent" => Refs("task", t) = {}
    /\ \A m \in Memory : memories[m] = "absent" => Refs("memory", m) = {}
    /\ \A t \in Root : notices[t] = "absent" /\ tasks[t] # "purged"
                       => Refs("notification", t) = {}
    /\ \A s \in calls \cup saving : tasks[s[1]] # "absent"

Inv == TypeOK /\ Tidy /\ ActiveWorkIsCurrent

-----------------------------------------------------------------------------
(* Initially *)

\* The initial state satisfies the inductive invariant.
LEMMA InitInv == Init => Inv
<1> SUFFICES ASSUME Init PROVE Inv
  OBVIOUS
<1>1. 0 \in Revision /\ \A t \in Task : t \in Root \/ t \in Child
  BY LedgerAssumption DEF Revision, Task
<1>2. TypeOK
  BY <1>1, LedgerAssumption DEF Init, TypeOK, Idle, NoJob, NoSchedule, Job, Schedule, Content, Status
<1>3. Tidy
  BY DEF Init, Tidy, Refs, Task, Event
<1>4. ActiveWorkIsCurrent
  BY DEF Init, ActiveWorkIsCurrent, Task
<1> QED
  BY <1>2, <1>3, <1>4 DEF Inv

-----------------------------------------------------------------------------
(* Lemmas about the helpers *)

\* Cancelling a family yields statuses, and only ends active tasks.
LEMMA CancelledType ==
    ASSUME NEW F, tasks \in [Task -> Status]
    PROVE  Cancelled(F) \in [Task -> Status]
BY DEF Cancelled, Status

\* Withdrawing keeps the type of the notifications.
LEMMA WithdrawnType ==
    ASSUME NEW F, notices \in [Root -> {"absent", "pending", "acked", "withdrawn"}]
    PROVE  Withdrawn(F) \in [Root -> {"absent", "pending", "acked", "withdrawn"}]
BY DEF Withdrawn

\* Superseding keeps the type of the jobs.
LEMMA SupersededType ==
    ASSUME NEW X, gate_jobs \in [Ref -> Job]
    PROVE  Superseded(X) \in [Ref -> Job]
BY DEF Superseded, Job

\* The root of a task that exists is a root task.
LEMMA RootOfType ==
    ASSUME Inv, NEW t \in Task, tasks[t] # "absent"
    PROVE  RootOf(t) \in Root /\ RootOf(t) \in Task /\ tasks[RootOf(t)] # "absent"
BY DEF Inv, Tidy, RootOf, Task

\* The rows a tool adds are rows.
LEMMA BoundType ==
    ASSUME Inv, NEW t \in Task, tasks[t] # "absent", NEW R \in SUBSET Ref
    PROVE  Bound(t, R) \in SUBSET (Kind \X Subject \X Ref)
BY RootOfType DEF Bound, Rows, Kind, Subject

-----------------------------------------------------------------------------
(* Type correctness *)

\* The arguments of DeleteAll and Ingest's invalidation keep the types.
LEMMA InvalidateType ==
    ASSUME TypeOK, NEW X \in SUBSET Event, Invalidate(X)
    PROVE  /\ tasks' \in [Task -> Status]
           /\ notices' \in [Root -> {"absent", "pending", "acked", "withdrawn"}]
           /\ memories' \in [Memory -> {"absent", "active", "inactive"}]
BY CancelledType, WithdrawnType DEF Invalidate, TypeOK

\* Erasing keeps the types.
LEMMA EraseType ==
    ASSUME TypeOK, NEW D \in SUBSET Event, Erase(D)
    PROVE  tombstones' \in SUBSET Event /\ schedules' \in [Derived -> Schedule]
BY DEF Erase, TypeOK, Schedule

\* Cancelling keeps the types.
LEMMA CancelFamilyType ==
    ASSUME TypeOK, NEW T, CancelFamily(T)
    PROVE  /\ tasks' \in [Task -> Status]
           /\ notices' \in [Root -> {"absent", "pending", "acked", "withdrawn"}]
BY CancelledType, WithdrawnType DEF CancelFamily, TypeOK

\* The worker's job is a reference whenever it holds a decision.
LEMMA DecidedJob ==
    ASSUME TypeOK, worker # Idle
    PROVE  worker.job \in Ref /\ worker.pc \in {"deciding", "camera"}
BY DEF TypeOK, Idle

\* Every step keeps the types.
LEMMA TypeStep == Inv /\ [Next]_vars => TypeOK'
<1> SUFFICES ASSUME Inv, [Next]_vars PROVE TypeOK'
  OBVIOUS
<1>t. TypeOK
  BY DEF Inv
<1>z. 0 \in Revision
  BY LedgerAssumption DEF Revision
<1>i. ASSUME worker' = Idle PROVE worker' \in {Idle} \cup [pc : {"deciding", "camera"}, job : Ref]
  BY <1>i
<1>c. CancelInvalidRuns(tasks) \subseteq calls /\ CancelInvalidRuns(tasks') \subseteq calls
  BY DEF CancelInvalidRuns
<1>1. ASSUME NEW e \in Sensed, NEW n \in Revision, NEW content \in {"partial", "final"},
             NEW trigger \in BOOLEAN, Ingest(e, n, content, trigger)
      PROVE  TypeOK'
  <2>1. Cascade({e}) \in SUBSET Event /\ Cascade({e}) \ {e} \in SUBSET Event
    BY DEF Cascade
  <2>2. evidence' \in [Event -> [Revision -> Content]]
    BY <1>1, <1>t DEF Ingest, TypeOK, Content, Event
  <2>3. <<e, n>> \in Ref /\ NewJob \in Job
    BY DEF Ref, Event, NewJob, Job
  <2>4. CASE IsNewest(e, n)
    <3>1. Invalidate(Cascade({e})) /\ Erase(Cascade({e}) \ {e})
      BY <1>1, <2>4 DEF Ingest
    <3>2. Superseded(Cascade({e})) \in [Ref -> Job]
      BY <1>t, SupersededType DEF TypeOK
    <3>3. [Superseded(Cascade({e})) EXCEPT ![<<e, n>>] = NewJob] \in [Ref -> Job]
      BY <2>3, <3>2
    <3>4. gate_jobs' \in [Ref -> Job]
      BY <1>1, <2>4, <3>2, <3>3 DEF Ingest
    <3> QED
      BY <1>1, <1>c, <1>t, <2>1, <2>2, <3>1, <3>4, InvalidateType, EraseType DEF Ingest, TypeOK
  <2>5. CASE ~IsNewest(e, n)
    BY <1>1, <1>c, <1>t, <2>2, <2>5 DEF Ingest, TypeOK
  <2> QED
    BY <2>4, <2>5
<1>2. ASSUME NEW S \in SUBSET Event, DeleteAll(S), calls' \subseteq calls,
             expired' = expired \/ expired' = expired \cup Cascade(S)
      PROVE  TypeOK'
  <2>1. Cascade(S) \in SUBSET Event
    BY DEF Cascade
  <2>2. gate_jobs' \in [Ref -> Job]
    BY <1>2, <1>t, SupersededType DEF DeleteAll, TypeOK
  <2> QED
    BY <1>2, <1>t, <2>1, <2>2, InvalidateType, EraseType DEF DeleteAll, TypeOK
<1>3. ASSUME NEW t \in Task, PurgeTask(t) PROVE TypeOK'
  BY <1>3, <1>t DEF PurgeTask, TypeOK, Status, Schedule
<1>4. ASSUME NEW t \in Task, NEW r \in Ref, Bind(t, r) PROVE TypeOK'
  BY <1>4, <1>t, BoundType DEF Bind, Runs, TypeOK
<1>5. ASSUME NEW t \in Task, NEW d \in Derived, tasks[t] # "absent",
             evidence' = [evidence EXCEPT ![d][0] = "final"]
      PROVE  /\ evidence' \in [Event -> [Revision -> Content]]
             /\ \A R \in SUBSET Ref :
                   RecordedRows(t, d, R) \in SUBSET (Kind \X Subject \X Ref)
  <2>1. {<<d, 0>>} \in SUBSET Ref
    BY <1>z DEF Ref, Event
  <2>2. evidence' \in [Event -> [Revision -> Content]]
    BY <1>5, <1>t, <1>z DEF TypeOK, Content, Event
  <2> QED
    BY <1>5, <2>1, <2>2, BoundType DEF RecordedRows, Rows, Kind, Subject
<1>6. ASSUME NEW t \in Task, NEW d \in Derived, NEW by \in {"call", "file"}, tasks[t] # "absent",
             Recorded(t, d, by), calls' \subseteq calls, saving' \subseteq saving
      PROVE  TypeOK'
  <2>1. Refs("task", t) \in SUBSET Ref
    BY DEF Refs
  <2>2. /\ evidence' \in [Event -> [Revision -> Content]]
        /\ dependencies' \in SUBSET (Kind \X Subject \X Ref)
        /\ late' \in SUBSET (Derived \X {"call", "file"})
    BY <1>5, <1>6, <1>t, <2>1 DEF Recorded, TypeOK
  <2> QED
    BY <1>6, <1>t, <2>2 DEF Recorded, TypeOK
<1>7. ASSUME NEW t \in Task, NEW d \in Derived, RecordTool(t, d) \/ SaveArtifact(t, d)
      PROVE  TypeOK'
  <2>1. tasks[t] # "absent"
    BY <1>7 DEF RecordTool, SaveArtifact, Inv, Tidy
  <2> QED
    BY <1>6, <1>7, <2>1 DEF RecordTool, SaveArtifact
<1>8. ASSUME NEW t \in Task, NEW d \in Derived,
             CallRunner(t, d) \/ CallEnds(t, d) \/ BeginArtifact(t, d)
      PROVE  TypeOK'
  BY <1>8, <1>t DEF CallRunner, CallEnds, BeginArtifact, TypeOK
<1>9. ASSUME NEW t \in Task, NEW m \in Memory, NEW r \in Ref, NEW d \in Derived,
             Remember(t, m, r, d)
      PROVE  TypeOK'
  <2>1. Refs("task", t) \cup {r} \in SUBSET Ref
    BY DEF Refs
  <2>2. Rows("memory", m, {r}) \in SUBSET (Kind \X Subject \X Ref)
    BY DEF Rows, Kind, Subject
  <2>3. dependencies' \in SUBSET (Kind \X Subject \X Ref) /\ evidence' \in [Event -> [Revision -> Content]]
    BY <1>5, <1>9, <1>t, <2>1, <2>2, BoundType DEF Remember, Runs, TypeOK
  <2>4. memories' \in [Memory -> {"absent", "active", "inactive"}]
    BY <1>9, <1>t DEF Remember, TypeOK
  <2> QED
    BY <1>9, <1>t, <2>3, <2>4 DEF Remember, TypeOK
<1>10. ASSUME NEW m \in Memory, Forget(m) PROVE TypeOK'
  <2>1. memories' \in [Memory -> {"absent", "active", "inactive"}]
    BY <1>10, <1>t DEF Forget, TypeOK
  <2> QED
    BY <1>10, <1>t, <2>1, CancelFamilyType DEF Forget, TypeOK
<1>11. ASSUME NEW t \in Task, NEW d \in Derived, NEW r \in Ref, Followup(t, d, r) PROVE TypeOK'
  <2>1. [state |-> "pending", task |-> t, refs |-> {r}] \in Schedule
    BY DEF Schedule
  <2> QED
    BY <1>11, <1>t, <2>1, BoundType DEF Followup, Runs, TypeOK
<1>12. ASSUME NEW d \in Derived, FireSchedule(d) PROVE TypeOK'
  <2>1. schedules' \in [Derived -> Schedule] /\ schedules[d].refs \in SUBSET Ref
    BY <1>12, <1>t DEF FireSchedule, TypeOK, Schedule
  <2>2. <<d, 0>> \in Ref /\ NewJob \in Job
    BY <1>z DEF Ref, Event, NewJob, Job
  <2>3. Rows("derived_evidence", d, schedules[d].refs) \in SUBSET (Kind \X Subject \X Ref)
    BY <2>1 DEF Rows, Kind, Subject
  <2>4. CASE Valid(schedules[d].refs)
    <3>0. evidence' = [evidence EXCEPT ![d][0] = "final"]
      BY <1>12, <2>4 DEF FireSchedule
    <3>1. evidence' \in [Event -> [Revision -> Content]]
      BY <3>0, <1>t, <1>z DEF TypeOK, Content, Event
    <3> QED
      BY <1>12, <1>t, <2>1, <2>2, <2>3, <2>4, <3>1 DEF FireSchedule, TypeOK
  <2>5. CASE ~Valid(schedules[d].refs)
    BY <1>12, <1>t, <2>1, <2>5 DEF FireSchedule, TypeOK
  <2> QED
    BY <2>4, <2>5
<1>13. ASSUME NEW t \in Task, NEW c \in Child, Spawn(t, c) PROVE TypeOK'
  <2>0. Refs("task", t) \in SUBSET Ref /\ "task" \in Kind /\ c \in Subject
    BY DEF Refs, Kind, Subject, Task
  <2>1. Rows("task", c, Refs("task", t)) \in SUBSET (Kind \X Subject \X Ref)
    BY <2>0 DEF Rows
  <2> QED
    BY <1>13, <1>t, <2>1 DEF Spawn, TypeOK, Status, Task
<1>14. ASSUME NEW t \in Task, EndTask(t) PROVE TypeOK'
  BY <1>14, <1>c, <1>t DEF EndTask, TypeOK, Status
<1>15. ASSUME NEW t \in Task, NEW r \in Ref, Finish(t, r) PROVE TypeOK'
  <2>1. Rows("notification", t, {r}) \in SUBSET (Kind \X Subject \X Ref)
    BY DEF Rows, Kind, Subject
  <2> QED
    BY <1>15, <1>t, <2>1 DEF Finish, TypeOK, Status
<1>16. ASSUME NEW t \in Task, CancelTask(t) PROVE TypeOK'
  BY <1>16, <1>c, <1>t, CancelFamilyType DEF CancelTask, TypeOK
<1>17. ASSUME NEW t \in Root, Acknowledge(t) PROVE TypeOK'
  BY <1>17, <1>t DEF Acknowledge, TypeOK
<1>18. ASSUME NEW j \in Ref, TakeJob(j) PROVE TypeOK'
  <2>1. gate_jobs' \in [Ref -> Job]
    BY <1>18, <1>t DEF TakeJob, TypeOK, Job
  <2>2. worker' \in {Idle} \cup [pc : {"deciding", "camera"}, job : Ref]
    BY <1>18 DEF TakeJob
  <2> QED
    BY <1>18, <1>t, <2>1, <2>2 DEF TakeJob, TypeOK, OutsideGate
<1>19. CASE AskCamera
  <2>1. worker' \in {Idle} \cup [pc : {"deciding", "camera"}, job : Ref]
    BY <1>19, <1>t, DecidedJob DEF AskCamera, Decided, TypeOK, Idle
  <2> QED
    BY <1>19, <1>t, <2>1 DEF AskCamera, TypeOK, OutsideGate
<1>20. ASSUME FinishJob, worker # Idle
       PROVE  /\ gate_jobs' \in [Ref -> Job]
              /\ worker' \in {Idle} \cup [pc : {"deciding", "camera"}, job : Ref]
  BY <1>20, <1>t, <1>i DEF FinishJob, TypeOK, Job
<1>21. ASSUME NEW pcs \in SUBSET {"deciding", "camera"}, Decided(pcs) PROVE worker # Idle
  BY <1>21 DEF Decided, Idle
<1>22. CASE DecideObserve
  BY <1>20, <1>21, <1>22, <1>t DEF DecideObserve, FinishJob, TypeOK, OutsideGate
<1>23. CASE DecideStart
  <2>1. worker # Idle /\ worker.job \in Ref
    BY <1>21, <1>23, <1>t, DecidedJob DEF DecideStart
  <2>2. tasks' \in [Task -> Status] /\ dependencies' \in SUBSET (Kind \X Subject \X Ref)
    BY <1>23, <1>t, <2>1 DEF DecideStart, TypeOK, Status, Rows, Kind, Subject, Task, Root
  <2> QED
    BY <1>20, <1>23, <1>t, <2>1, <2>2 DEF DecideStart, FinishJob, TypeOK, OutsideGate
<1>24. ASSUME NEW t \in Root, DecideUpdate(t) PROVE TypeOK'
  <2>1. worker # Idle /\ worker.job \in Ref
    BY <1>21, <1>24, <1>t, DecidedJob DEF DecideUpdate
  <2>2. Rows("task", t, {worker.job}) \in SUBSET (Kind \X Subject \X Ref)
    BY <2>1 DEF Rows, Kind, Subject, Task
  <2> QED
    BY <1>20, <1>24, <1>t, <2>1, <2>2 DEF DecideUpdate, FinishJob, TypeOK, OutsideGate
<1>25. ASSUME NEW t \in Root, DecideCancel(t) PROVE TypeOK'
  <2>1. worker # Idle
    BY <1>21, <1>25 DEF DecideCancel
  <2> QED
    BY <1>20, <1>25, <1>c, <1>t, <2>1, CancelFamilyType DEF DecideCancel, FinishJob, TypeOK, OutsideGate
<1>26. CASE DecideStale
  BY <1>26, <1>t, <1>i DEF DecideStale, TypeOK, OutsideGate
<1>27. CASE DecideFail
  <2>1. worker # Idle
    BY <1>21, <1>27 DEF DecideFail
  <2>j. worker.job \in Ref
    BY <1>t, <2>1, DecidedJob
  <2>e. PICK state \in {"failed", "queued"} :
            gate_jobs' = [gate_jobs EXCEPT ![worker.job].state = state, ![worker.job].due = FALSE]
    BY <1>27 DEF DecideFail
  <2>2. gate_jobs' \in [Ref -> Job]
    BY <1>t, <2>j, <2>e DEF TypeOK, Job
  <2> QED
    BY <1>27, <1>t, <1>i, <2>2 DEF DecideFail, TypeOK, OutsideGate
<1>28. ASSUME NEW j \in Ref, BackoffOver(j) PROVE TypeOK'
  BY <1>28, <1>t DEF BackoffOver, TypeOK, Job, OutsideGate
<1>29. CASE RetryGates
  BY <1>29, <1>t DEF RetryGates, TypeOK, NewJob, Job
<1>30. CASE Restart
  <2>1. gate_jobs' \in [Ref -> Job]
    BY <1>30, <1>t DEF Restart, TypeOK, Job
  <2> QED
    BY <1>30, <1>t, <1>i, <2>1 DEF Restart, TypeOK
<1>31. CASE UNCHANGED vars
  BY <1>31, <1>t DEF vars, TypeOK
<1>32. CASE AbortInvalidRuns
  BY <1>32, <1>c, <1>t DEF AbortInvalidRuns, TypeOK
<1>33. ASSUME NEW e \in Event, DeleteEvidence(e) PROVE TypeOK'
  BY <1>2, <1>33, <1>c DEF DeleteEvidence
<1>34. ASSUME NEW S \in SUBSET Event, Maintain(S) PROVE TypeOK'
  BY <1>2, <1>34 DEF Maintain
<1> QED
  BY <1>1, <1>3, <1>4, <1>7, <1>8, <1>32, <1>33, <1>34, <1>9, <1>10, <1>11, <1>12, <1>13, <1>14, <1>15,
     <1>16, <1>17, <1>18, <1>19, <1>22, <1>23, <1>24, <1>25, <1>26, <1>27, <1>28, <1>29, <1>30, <1>31
  DEF Next, IngestSome, ToolStep, WorkerStep, OperatorStep, MaintainStep, TimerStep

-----------------------------------------------------------------------------
(* What every step leaves tidy *)

\* A step leaves Tidy alone when tasks, memories and notifications do not vanish,
\* new rows belong to subjects that exist, and derived evidence has one revision.
LEMMA TidyFrame ==
    ASSUME Tidy,
           \A d \in Derived : \A n \in Revision :
                n > 0 => evidence'[d][n] = evidence[d][n],
           \A t \in Task : /\ tasks'[t] = "absent" => tasks[t] = "absent"
                           /\ tasks[t] = "purged" => tasks'[t] = "purged",
           \A c \in Child : tasks'[c] # "absent" =>
                            \/ parent'[c] = parent[c] /\ tasks[c] # "absent"
                            \/ parent'[c] \in Root /\ tasks'[parent'[c]] # "absent",
           \A m \in Memory : memories'[m] = "absent" => memories[m] = "absent",
           \A t \in Root : notices'[t] = "absent" => notices[t] = "absent" \/ tasks'[t] = "purged",
           \A s \in calls' \cup saving' :
                (s \in calls \cup saving /\ s[1] \in Task) \/ tasks'[s[1]] # "absent",
           \A k, s : \A r \in Ref : <<k, s, r>> \in dependencies' =>
                \/ <<k, s, r>> \in dependencies
                \/ k = "task" /\ tasks'[s] # "absent"
                \/ k = "memory" /\ memories'[s] # "absent"
                \/ k = "notification" /\ notices'[s] # "absent"
                \/ k = "derived_evidence"
    PROVE  Tidy'
<1>1. (\A d \in Derived : \A n \in Revision : n > 0 => evidence[d][n] = "absent")'
  BY DEF Tidy
<1>2. (\A c \in Child : tasks[c] # "absent" => parent[c] \in Root /\ tasks[parent[c]] # "absent")'
  BY DEF Tidy, Task
<1>3. (\A t \in Task : tasks[t] = "absent" => Refs("task", t) = {})'
  BY DEF Tidy, Refs
<1>4. (\A m \in Memory : memories[m] = "absent" => Refs("memory", m) = {})'
  BY DEF Tidy, Refs
<1>5. (\A t \in Root : notices[t] = "absent" /\ tasks[t] # "purged" => Refs("notification", t) = {})'
  BY DEF Tidy, Refs, Task
<1>6. (\A s \in calls \cup saving : tasks[s[1]] # "absent")'
  BY DEF Tidy
<1> QED
  BY <1>1, <1>2, <1>3, <1>4, <1>5, <1>6 DEF Tidy

\* A step that only ends work leaves Tidy alone.
LEMMA TidyEnding ==
    ASSUME TypeOK, Tidy,
           UNCHANGED << parent, dependencies, saving >>, calls' \subseteq calls,
           \A d \in Derived : evidence'[d] = evidence[d],
           \A t \in Task : /\ tasks'[t] = "absent" <=> tasks[t] = "absent"
                           /\ tasks[t] = "purged" => tasks'[t] = "purged",
           \A t \in Root : notices'[t] = "absent" => notices[t] = "absent",
           \A m \in Memory : memories'[m] = "absent" => memories[m] = "absent"
    PROVE  Tidy'
<1>1. \A d \in Derived : \A n \in Revision : n > 0 => evidence'[d][n] = evidence[d][n]
  OBVIOUS
<1>2. \A c \in Child : tasks'[c] # "absent" => parent'[c] = parent[c] /\ tasks[c] # "absent"
  BY DEF Task
<1>3. \A s \in calls' \cup saving' : s \in calls \cup saving /\ s[1] \in Task
  BY DEF TypeOK
<1>4. \A k, s : \A r \in Ref : <<k, s, r>> \in dependencies' => <<k, s, r>> \in dependencies
  OBVIOUS
<1>5. \A t \in Task : tasks'[t] = "absent" => tasks[t] = "absent"
  OBVIOUS
<1> QED
  BY <1>1, <1>2, <1>3, <1>4, <1>5, TidyFrame

\* Rows() holds the rows of one subject.
LEMMA RowsRows ==
    ASSUME NEW kind, NEW subject, NEW R, NEW k, NEW s, NEW r, <<k, s, r>> \in Rows(kind, subject, R)
    PROVE  k = kind /\ s = subject /\ r \in R
BY DEF Rows

\* Cancelling and withdrawing make nothing vanish.
LEMMA CancelKeeps ==
    ASSUME TypeOK, NEW F, NEW G, tasks' = Cancelled(F), notices' = Withdrawn(G)
    PROVE  /\ \A t \in Task : /\ tasks'[t] = "absent" <=> tasks[t] = "absent"
                              /\ tasks[t] = "purged" => tasks'[t] = "purged"
                              /\ tasks'[t] = "active" => tasks[t] = "active" /\ t \notin F
           /\ \A t \in Root : /\ notices'[t] = "absent" => notices[t] = "absent"
                              /\ notices'[t] = "pending" => notices[t] = "pending" /\ t \notin G
BY DEF Cancelled, Withdrawn, TypeOK

\* An invalidation makes nothing vanish, and what it leaves alive has no row on X.
LEMMA InvalidateKeeps ==
    ASSUME TypeOK, NEW X, Invalidate(X)
    PROVE  /\ \A t \in Task : /\ tasks'[t] = "absent" <=> tasks[t] = "absent"
                              /\ tasks[t] = "purged" => tasks'[t] = "purged"
                              /\ tasks'[t] = "active" =>
                                   tasks[t] = "active" /\ t \notin Dependents("task", X)
           /\ \A t \in Root : /\ notices'[t] = "absent" => notices[t] = "absent"
                              /\ notices'[t] = "pending" =>
                                   notices[t] = "pending" /\ t \notin Dependents("notification", X)
           /\ \A m \in Memory : /\ memories'[m] = "absent" => memories[m] = "absent"
                                /\ memories'[m] = "active" =>
                                     memories[m] = "active" /\ m \notin Dependents("memory", X)
<1>1. \A t \in Task : t \in Dependents("task", X) => t \in HitFamily(X)
  BY DEF HitFamily, Family
<1>2. tasks' = Cancelled(HitFamily(X))
      /\ notices' = Withdrawn(HitFamily(X) \cup Dependents("notification", X))
  BY DEF Invalidate
<1>3. \A m \in Memory : /\ memories'[m] = "absent" => memories[m] = "absent"
                        /\ memories'[m] = "active" =>
                             memories[m] = "active" /\ m \notin Dependents("memory", X)
  BY DEF Invalidate, TypeOK
<1> QED
  BY <1>1, <1>2, <1>3, CancelKeeps

\* The rows a tool adds belong to its task and its root, which exist.
LEMMA BoundRows ==
    ASSUME Inv, NEW t \in Task, tasks[t] # "absent", NEW R, tasks' = tasks,
           NEW k, NEW s, NEW r, <<k, s, r>> \in Bound(t, R)
    PROVE  k = "task" /\ s \in Task /\ tasks'[s] # "absent" /\ r \in R
BY RootOfType DEF Bound, Rows

\* The rows of an event a tool records: those of its task and root, and its sources.
LEMMA RecordedRowsRows ==
    ASSUME Inv, NEW t \in Task, tasks[t] # "absent", NEW d, NEW R, tasks' = tasks,
           NEW k, NEW s, NEW r, <<k, s, r>> \in RecordedRows(t, d, R)
    PROVE  \/ k = "task" /\ s \in Task /\ tasks'[s] # "absent" /\ r = <<d, 0>>
           \/ k = "derived_evidence" /\ s = d /\ r \in R
<1>1. CASE <<k, s, r>> \in Bound(t, {<<d, 0>>})
  BY <1>1, BoundRows
<1>2. CASE <<k, s, r>> \in Rows("derived_evidence", d, R \ {<<d, 0>>})
  BY <1>2 DEF Rows
<1> QED
  BY <1>1, <1>2 DEF RecordedRows

\* Every step keeps the ledger tidy.
LEMMA TidyStep == Inv /\ [Next]_vars => Tidy'
<1> SUFFICES ASSUME Inv, [Next]_vars PROVE Tidy'
  OBVIOUS
<1>t. TypeOK /\ Tidy
  BY DEF Inv
<1>d. ASSUME NEW d \in Derived, \/ UNCHANGED evidence
                              \/ evidence' = [evidence EXCEPT ![d][0] = "final"]
      PROVE  \A x \in Derived : \A n \in Revision : n > 0 => evidence'[x][n] = evidence[x][n]
  BY <1>d, <1>t DEF TypeOK, Event
<1>c. CancelInvalidRuns(tasks) \subseteq calls /\ CancelInvalidRuns(tasks') \subseteq calls
  BY DEF CancelInvalidRuns
<1>1. ASSUME NEW e \in Sensed, NEW n \in Revision, NEW content \in {"partial", "final"},
             NEW trigger \in BOOLEAN, Ingest(e, n, content, trigger)
      PROVE  Tidy'
  <2>1. \A x \in Derived : evidence'[x] = evidence[x]
    BY <1>1, <1>t, LedgerAssumption DEF Ingest, TypeOK, Event
  <2>2. CASE IsNewest(e, n)
    <3>1. Invalidate(Cascade({e}))
      BY <1>1, <2>2 DEF Ingest
    <3>2. UNCHANGED << parent, dependencies, saving >> /\ calls' \subseteq calls
      BY <1>1, <1>c DEF Ingest
    <3>3. /\ \A t \in Task : /\ tasks'[t] = "absent" <=> tasks[t] = "absent"
                             /\ tasks[t] = "purged" => tasks'[t] = "purged"
          /\ \A t \in Root : notices'[t] = "absent" => notices[t] = "absent"
          /\ \A m \in Memory : memories'[m] = "absent" => memories[m] = "absent"
      BY <1>t, <3>1, InvalidateKeeps
    <3> QED
      BY <1>t, <2>1, <3>2, <3>3, TidyEnding
  <2>3. CASE ~IsNewest(e, n)
    BY <1>1, <1>c, <1>t, <2>1, <2>3, TidyFrame DEF Ingest, TypeOK
  <2> QED
    BY <2>2, <2>3
<1>2. ASSUME NEW S, DeleteAll(S), calls' \subseteq calls PROVE Tidy'
  BY <1>2, <1>t, InvalidateKeeps, TidyFrame DEF DeleteAll, TypeOK, Task
<1>3. ASSUME NEW t \in Task, PurgeTask(t) PROVE Tidy'
  BY <1>3, <1>t, TidyFrame DEF PurgeTask, TypeOK, Task
<1>4. ASSUME NEW t \in Task, NEW r \in Ref, Bind(t, r) PROVE Tidy'
  BY <1>4, <1>t, BoundRows, TidyFrame DEF Bind, Runs, TypeOK
<1>5. ASSUME NEW t \in Task, NEW d \in Derived, CallRunner(t, d) PROVE Tidy'
  BY <1>5, <1>t, TidyFrame DEF CallRunner, Runs, TypeOK
<1>6. ASSUME NEW t \in Task, NEW d \in Derived, CallEnds(t, d) \/ BeginArtifact(t, d) PROVE Tidy'
  BY <1>6, <1>t, TidyFrame DEF CallEnds, BeginArtifact, TypeOK
<1>7. ASSUME NEW t \in Task, NEW d \in Derived, RecordTool(t, d) \/ SaveArtifact(t, d) PROVE Tidy'
  <2>1. /\ tasks[t] # "absent" /\ calls' \subseteq calls /\ saving' \subseteq saving
        /\ \E by : Recorded(t, d, by)
    BY <1>7, <1>t DEF RecordTool, SaveArtifact, Tidy
  <2>2. CASE d \in tombstones
    BY <1>t, <2>1, <2>2, TidyFrame DEF Recorded, TypeOK
  <2>3. CASE d \notin tombstones
    BY <1>t, <1>d, <2>1, <2>3, RecordedRowsRows, TidyFrame DEF Recorded, TypeOK
  <2> QED
    BY <2>2, <2>3
<1>8. ASSUME NEW t \in Task, NEW m \in Memory, NEW r \in Ref, NEW d \in Derived,
             Remember(t, m, r, d)
      PROVE  Tidy'
  <2>1. \A x \in Memory : memories'[x] = "absent" => memories[x] = "absent" /\ x # m
    BY <1>8, <1>t DEF Remember, TypeOK
  <2>2. memories'[m] # "absent"
    BY <1>8, <1>t DEF Remember, TypeOK
  <2>3. \A k, s : \A x \in Ref : <<k, s, x>> \in dependencies' =>
            \/ <<k, s, x>> \in dependencies
            \/ k = "task" /\ tasks'[s] # "absent"
            \/ k = "memory" /\ s = m
            \/ k = "derived_evidence"
    BY <1>8, <1>t, BoundRows, RecordedRowsRows DEF Remember, Runs, Rows
  <2> QED
    BY <1>8, <1>t, <1>d, <2>1, <2>2, <2>3, TidyFrame DEF Remember, TypeOK
<1>9. ASSUME NEW m \in Memory, Forget(m) PROVE Tidy'
  <2>1. \A x \in Memory : memories'[x] = "absent" => memories[x] = "absent"
    BY <1>9, <1>t DEF Forget, TypeOK
  <2> QED
    BY <1>9, <1>t, <2>1, CancelKeeps, TidyFrame DEF Forget, CancelFamily, TypeOK, Task
<1>10. ASSUME NEW t \in Task, NEW d \in Derived, NEW r \in Ref, Followup(t, d, r) PROVE Tidy'
  BY <1>10, <1>t, BoundRows, TidyFrame DEF Followup, Runs, TypeOK
<1>11. ASSUME NEW d \in Derived, FireSchedule(d) PROVE Tidy'
  <2>1. \/ UNCHANGED evidence
        \/ evidence' = [evidence EXCEPT ![d][0] = "final"]
    BY <1>11 DEF FireSchedule
  <2>2. \A k, s : \A x \in Ref : <<k, s, x>> \in dependencies' =>
            <<k, s, x>> \in dependencies \/ k = "derived_evidence"
    BY <1>11 DEF FireSchedule, Rows
  <2> QED
    BY <1>11, <1>t, <1>d, <2>1, <2>2, TidyFrame DEF FireSchedule, TypeOK
<1>12. ASSUME NEW t \in Task, NEW c \in Child, Spawn(t, c) PROVE Tidy'
  <2>1. /\ \A x \in Task : tasks'[x] = IF x = c THEN "active" ELSE tasks[x]
        /\ \A x \in Child : parent'[x] = IF x = c THEN t ELSE parent[x]
        /\ t # c /\ c \in Task /\ t \in Root /\ tasks[t] = "active" /\ tasks[c] = "absent"
        /\ UNCHANGED << evidence, memories, notices, calls, saving >>
    BY <1>12, <1>t DEF Spawn, Runs, TypeOK, Task
  <2>2. \A k, s : \A x \in Ref : <<k, s, x>> \in dependencies' =>
            <<k, s, x>> \in dependencies \/ (k = "task" /\ s = c)
    <3>1. dependencies' = dependencies \cup Rows("task", c, Refs("task", t))
      BY <1>12 DEF Spawn
    <3> QED
      BY <3>1, RowsRows
  <2>3. \A x \in Child : tasks'[x] # "absent" =>
            \/ parent'[x] = parent[x] /\ tasks[x] # "absent"
            \/ parent'[x] \in Root /\ tasks'[parent'[x]] # "absent"
    BY <2>1 DEF Task
  <2>4. \A x \in calls' \cup saving' : x \in calls \cup saving /\ x[1] \in Task
    BY <1>t, <2>1 DEF TypeOK
  <2>5. tasks'[c] # "absent"
    BY <2>1
  <2> QED
    BY <1>t, <2>1, <2>2, <2>3, <2>4, <2>5, TidyFrame
<1>13. ASSUME NEW t \in Task, EndTask(t) PROVE Tidy'
  <2>1. calls' \subseteq calls
    BY <1>13, <1>c DEF EndTask
  <2>2. \A x \in Task : /\ tasks'[x] = "absent" <=> tasks[x] = "absent"
                        /\ tasks[x] = "purged" => tasks'[x] = "purged"
    <3>1. /\ tasks' = [x \in Task |-> IF x = t THEN "ended"
                                      ELSE IF RootOf(x) = t /\ tasks[x] = "active" THEN "cancelled"
                                      ELSE tasks[x]]
          /\ tasks[t] = "active"
      BY <1>13 DEF EndTask
    <3> QED
      BY <3>1
  <2> QED
    BY <1>13, <1>t, <2>1, <2>2, TidyEnding DEF EndTask
<1>14. ASSUME NEW t \in Task, NEW r \in Ref, Finish(t, r) PROVE Tidy'
  <2>1. /\ \A x \in Task : tasks'[x] = IF x = t THEN "ended" ELSE tasks[x]
        /\ \A x \in Root : notices'[x] = "absent" => notices[x] = "absent" /\ x # t
        /\ notices'[t] # "absent" /\ tasks[t] = "active"
    BY <1>14, <1>t DEF Finish, Runs, TypeOK
  <2>2. \A k, s : \A x \in Ref : <<k, s, x>> \in dependencies' =>
            <<k, s, x>> \in dependencies \/ (k = "notification" /\ s = t)
    <3>1. dependencies' = dependencies \cup Rows("notification", t, {r})
      BY <1>14 DEF Finish
    <3> QED
      BY <3>1, RowsRows
  <2> QED
    BY <1>14, <1>t, <2>1, <2>2, TidyFrame DEF Finish, TypeOK, Task
<1>15. ASSUME NEW t \in Task, CancelTask(t) PROVE Tidy'
  <2>1. tasks' = Cancelled(Family({t})) /\ notices' = Withdrawn(Family({t}))
    BY <1>15 DEF CancelTask, CancelFamily
  <2>2. /\ \A x \in Task : /\ tasks'[x] = "absent" <=> tasks[x] = "absent"
                           /\ tasks[x] = "purged" => tasks'[x] = "purged"
        /\ \A x \in Root : notices'[x] = "absent" => notices[x] = "absent"
    BY <1>t, <2>1, CancelKeeps
  <2> QED
    BY <1>15, <1>c, <1>t, <2>2, TidyEnding DEF CancelTask
<1>16. ASSUME NEW t \in Root, Acknowledge(t) PROVE Tidy'
  BY <1>16, <1>t, TidyFrame DEF Acknowledge, TypeOK
<1>17. ASSUME UNCHANGED << evidence, tasks, parent, memories, notices, dependencies, saving >>,
             calls' \subseteq calls
       PROVE  Tidy'
  BY <1>17, <1>t, TidyFrame DEF TypeOK
<1>18. ASSUME NEW j \in Ref, TakeJob(j) PROVE Tidy'
  BY <1>17, <1>18 DEF TakeJob, OutsideGate
<1>19. CASE AskCamera \/ DecideObserve \/ DecideStale \/ DecideFail
  BY <1>17, <1>19 DEF AskCamera, DecideObserve, FinishJob, DecideStale, DecideFail, OutsideGate
<1>20. CASE DecideStart
  <2>1. worker.job \in Task
    BY <1>20, <1>t, DecidedJob DEF DecideStart, Decided, Idle, Task, Root
  <2>2. \A x \in Task : tasks'[x] = tasks[x] \/ (tasks'[x] = "active" /\ tasks[x] = "absent" /\ x = worker.job)
    BY <1>20, <1>t, <2>1 DEF DecideStart, TypeOK
  <2>3. \A c \in Child : c # worker.job
    BY <1>20, <1>t, DecidedJob, LedgerAssumption DEF DecideStart, Decided, Idle
  <2>4. \A k, s : \A x \in Ref : <<k, s, x>> \in dependencies' =>
            \/ <<k, s, x>> \in dependencies
            \/ k = "task" /\ s = worker.job /\ tasks[s] = "absent"
    BY <1>20 DEF DecideStart, Rows
  <2>5. tasks[worker.job] = "absent" => tasks'[worker.job] = "active"
    <3>1. tasks[worker.job] = "absent" => tasks' = [tasks EXCEPT ![worker.job] = "active"]
      BY <1>20 DEF DecideStart
    <3> QED
      BY <1>t, <2>1, <3>1 DEF TypeOK
  <2> QED
    BY <1>20, <1>t, <2>1, <2>2, <2>3, <2>4, <2>5, TidyFrame
    DEF DecideStart, FinishJob, OutsideGate, TypeOK, Task
<1>21. ASSUME NEW t \in Root, DecideUpdate(t) PROVE Tidy'
  <2>1. \A k, s : \A x \in Ref : <<k, s, x>> \in dependencies' =>
            <<k, s, x>> \in dependencies \/ (k = "task" /\ s = t)
    <3>1. dependencies' = dependencies \cup Rows("task", t, {worker.job})
      BY <1>21 DEF DecideUpdate
    <3> QED
      BY <3>1, RowsRows
  <2>2. /\ tasks[t] # "absent"
        /\ UNCHANGED << evidence, tasks, parent, memories, notices, calls, saving >>
    BY <1>21 DEF DecideUpdate, ActiveRoots, FinishJob, OutsideGate
  <2>3. \A x \in calls' \cup saving' : x \in calls \cup saving /\ x[1] \in Task
    BY <1>t, <2>2 DEF TypeOK
  <2> QED
    BY <1>t, <2>1, <2>2, <2>3, TidyFrame
<1>22. ASSUME NEW t \in Root, DecideCancel(t) PROVE Tidy'
  <2>1. /\ tasks' = Cancelled(Family({t})) /\ notices' = Withdrawn(Family({t}))
        /\ calls' = CancelInvalidRuns(tasks')
        /\ UNCHANGED << evidence, parent, memories, dependencies, saving >>
    BY <1>22 DEF DecideCancel, CancelFamily, FinishJob, OutsideGate
  <2>2. /\ \A x \in Task : /\ tasks'[x] = "absent" <=> tasks[x] = "absent"
                           /\ tasks[x] = "purged" => tasks'[x] = "purged"
        /\ \A x \in Root : notices'[x] = "absent" => notices[x] = "absent"
    BY <1>t, <2>1, CancelKeeps
  <2> QED
    BY <1>c, <1>t, <2>1, <2>2, TidyEnding
<1>23. ASSUME NEW j \in Ref, BackoffOver(j) PROVE Tidy'
  BY <1>17, <1>23 DEF BackoffOver, OutsideGate
<1>24. CASE RetryGates
  BY <1>17, <1>24 DEF RetryGates
<1>25. CASE Restart
  BY <1>25, <1>t, TidyFrame DEF Restart, TypeOK
<1>26. CASE UNCHANGED vars
  BY <1>17, <1>26 DEF vars
<1>27. CASE AbortInvalidRuns
  BY <1>17, <1>27, <1>c DEF AbortInvalidRuns
<1>28. ASSUME NEW e, DeleteEvidence(e) PROVE Tidy'
  BY <1>2, <1>28, <1>c DEF DeleteEvidence
<1>29. ASSUME NEW S, Maintain(S) PROVE Tidy'
  BY <1>2, <1>29 DEF Maintain
<1> QED
  BY <1>1, <1>3, <1>27, <1>28, <1>29, <1>4, <1>5, <1>6, <1>7, <1>8, <1>9, <1>10, <1>11, <1>12, <1>13, <1>14, <1>15,
     <1>16, <1>18, <1>19, <1>20, <1>21, <1>22, <1>23, <1>24, <1>25, <1>26
  DEF Next, IngestSome, ToolStep, WorkerStep, OperatorStep, MaintainStep, TimerStep

-----------------------------------------------------------------------------
(* Active work rests on current evidence *)

\* ActiveWorkIsCurrent, row by row.
Live(k, s) ==
    \/ k = "task" /\ s \in Task /\ tasks[s] = "active"
    \/ k = "memory" /\ s \in Memory /\ memories[s] = "active"
    \/ k = "notification" /\ s \in Root /\ notices[s] = "pending"

\* A step keeps active work current if it leaves every row of a live subject current:
\* a row that is added, and a row it finds, whose event it does not touch.
LEMMA ActiveFrame ==
    ASSUME ActiveWorkIsCurrent,
           \A k, s : \A r \in Ref : Live(k, s)' /\ <<k, s, r>> \in dependencies' =>
                \/ Current(r)'
                \/ /\ Live(k, s) /\ <<k, s, r>> \in dependencies
                   /\ Current(r) => Current(r)'
    PROVE  ActiveWorkIsCurrent'
<1>1. \A k, s : \A r \in Ref : Live(k, s)' /\ <<k, s, r>> \in dependencies' => Current(r)'
  BY DEF ActiveWorkIsCurrent, Live, Refs
<1> QED
  BY <1>1 DEF ActiveWorkIsCurrent, Live, Refs

\* What a live subject rests on is current.
LEMMA LiveRows ==
    ASSUME ActiveWorkIsCurrent, NEW k, NEW s, NEW r \in Ref,
           Live(k, s), <<k, s, r>> \in dependencies
    PROVE  Current(r)
BY DEF ActiveWorkIsCurrent, Live, Refs

\* A reference is as current as before if its event is untouched.
LEMMA CurrentSame ==
    ASSUME NEW r \in Ref, evidence'[r[1]] = evidence[r[1]],
           r[1] \in tombstones' <=> r[1] \in tombstones
    PROVE  Current(r)' <=> Current(r)
BY DEF Current, IsNewest

\* After an invalidation, live subjects were live before and have no row on its events.
LEMMA InvalidateLive ==
    ASSUME TypeOK, NEW X, Invalidate(X), NEW k, NEW s, NEW r \in Ref,
           Live(k, s)', <<k, s, r>> \in dependencies
    PROVE  Live(k, s) /\ r[1] \notin X
<1>1. s \in Subject
  BY DEF Live, Subject, Task
<1>2. r[1] \in X => s \in Dependents(k, X)
  BY <1>1 DEF Dependents
<1> QED
  BY <1>2, InvalidateKeeps DEF Live, Task

\* An older revision changes nothing about what is current.
LEMMA OlderRevision ==
    ASSUME TypeOK, NEW e \in Event, NEW n \in Revision, NEW content,
           ~IsNewest(e, n), evidence' = [evidence EXCEPT ![e][n] = content],
           tombstones' = tombstones, NEW r \in Ref, Current(r)
    PROVE  Current(r)'
<1>1. r[1] \in Event /\ r[2] \in Revision
  BY DEF Ref
<1>2. CASE r[1] # e
  BY <1>1, <1>2, CurrentSame DEF TypeOK
<1>3. CASE r[1] = e
  <2>1. PICK k \in Revision : k > n /\ evidence[e][k] # "absent"
    BY DEF IsNewest
  <2>2. ~(k > r[2])
    BY <1>3, <2>1 DEF Current, IsNewest
  <2>3. n \in Nat /\ k \in Nat /\ r[2] \in Nat
    BY <1>1, LedgerAssumption DEF Revision
  <2>4. r[2] > n
    BY <2>1, <2>2, <2>3
  <2>5. \A x \in Revision : x # n => evidence'[e][x] = evidence[e][x]
    BY DEF TypeOK
  <2>6. \A x \in Revision : x > r[2] => x # n
    BY <2>3, <2>4, LedgerAssumption DEF Revision
  <2> QED
    BY <1>1, <1>3, <2>3, <2>4, <2>5, <2>6 DEF Current, IsNewest
<1> QED
  BY <1>2, <1>3

\* Recording a derived event makes it current and leaves every other event alone.
LEMMA RecordedCurrent ==
    ASSUME Inv, NEW d \in Derived, d \notin tombstones, tombstones' = tombstones,
           evidence' = [evidence EXCEPT ![d][0] = "final"]
    PROVE  /\ Current(<<d, 0>>)'
           /\ \A r \in Ref : Current(r) => Current(r)'
<1>1. TypeOK /\ Tidy /\ 0 \in Revision /\ d \in Event
  BY LedgerAssumption DEF Inv, Revision, Event
<1>2. evidence'[d][0] = "final" /\ \A n \in Revision : n > 0 => evidence'[d][n] = "absent"
  BY <1>1 DEF TypeOK, Tidy
<1>3. Current(<<d, 0>>)'
  BY <1>2 DEF Current, IsNewest
<1>4. ASSUME NEW r \in Ref, Current(r) PROVE Current(r)'
  <2>1. r[1] \in Event /\ r[2] \in Revision /\ r = <<r[1], r[2]>>
    BY DEF Ref
  <2>2. CASE r[1] # d
    BY <1>1, <1>4, <2>1, <2>2, CurrentSame DEF TypeOK
  <2>3. CASE r[1] = d
    <3>1. r[2] = 0
      <4>1. evidence[d][r[2]] # "absent"
        BY <1>4, <2>3 DEF Current
      <4>2. ~(r[2] > 0)
        BY <1>1, <2>1, <4>1 DEF Tidy
      <4> QED
        BY <2>1, <4>2, LedgerAssumption DEF Revision
    <3> QED
      BY <1>3, <2>1, <2>3, <3>1
  <2> QED
    BY <2>2, <2>3
<1> QED
  BY <1>3, <1>4

\* A step that adds no row and makes nothing live keeps active work current.
LEMMA ActiveEnding ==
    ASSUME ActiveWorkIsCurrent, UNCHANGED << evidence, tombstones >>,
           dependencies' \subseteq dependencies,
           \A k, s : Live(k, s)' => Live(k, s)
    PROVE  ActiveWorkIsCurrent'
<1>1. \A r \in Ref : Current(r) => Current(r)'
  BY DEF Current, IsNewest
<1> QED
  BY <1>1, ActiveFrame

\* Cancelling makes nothing live.
LEMMA CancelLive ==
    ASSUME TypeOK, NEW F, NEW G, tasks' = Cancelled(F), notices' = Withdrawn(G),
           \A m \in Memory : memories'[m] = "active" => memories[m] = "active"
    PROVE  \A k, s : Live(k, s)' => Live(k, s)
BY CancelKeeps DEF Live

\* Every step keeps active work current.
LEMMA ActiveStep == Inv /\ [Next]_vars => ActiveWorkIsCurrent'
<1> SUFFICES ASSUME Inv, [Next]_vars PROVE ActiveWorkIsCurrent'
  OBVIOUS
<1>t. TypeOK /\ Tidy /\ ActiveWorkIsCurrent
  BY DEF Inv
<1>u. ASSUME UNCHANGED << evidence, tombstones >>
      PROVE  \A r \in Ref : Current(r)' <=> Current(r)
  BY <1>u DEF Current, IsNewest
<1>1. ASSUME NEW e \in Sensed, NEW n \in Revision, NEW content \in {"partial", "final"},
             NEW trigger \in BOOLEAN, Ingest(e, n, content, trigger)
      PROVE  ActiveWorkIsCurrent'
  <2>1. e \in Event /\ UNCHANGED dependencies
        /\ evidence' = [evidence EXCEPT ![e][n] = content]
    BY <1>1 DEF Ingest, Event
  <2>2. CASE IsNewest(e, n)
    <3>1. Invalidate(Cascade({e})) /\ tombstones' = tombstones \cup (Cascade({e}) \ {e})
      BY <1>1, <2>2 DEF Ingest, Erase
    <3>2. e \in Cascade({e})
      BY <2>1 DEF Cascade
    <3>3. ASSUME NEW k, NEW s, NEW r \in Ref, Live(k, s)', <<k, s, r>> \in dependencies
          PROVE  Live(k, s) /\ (Current(r) => Current(r)')
      <4>1. Live(k, s) /\ r[1] \notin Cascade({e})
        BY <1>t, <3>1, <3>3, InvalidateLive
      <4>2. evidence'[r[1]] = evidence[r[1]]
        BY <1>t, <2>1, <3>2, <4>1 DEF TypeOK
      <4> QED
        BY <3>1, <4>1, <4>2, CurrentSame
    <3> QED
      BY <1>t, <2>1, <3>3, ActiveFrame
  <2>3. CASE ~IsNewest(e, n)
    <3>1. UNCHANGED << tasks, memories, notices, tombstones >>
      BY <1>1, <2>3 DEF Ingest
    <3>2. \A r \in Ref : Current(r) => Current(r)'
      BY <1>t, <2>1, <2>3, <3>1, OlderRevision
    <3> QED
      BY <1>t, <2>1, <3>1, <3>2, ActiveFrame DEF Live
  <2> QED
    BY <2>2, <2>3
<1>2. ASSUME NEW S, DeleteAll(S) PROVE ActiveWorkIsCurrent'
  <2>1. /\ Invalidate(Cascade(S)) /\ tombstones' = tombstones \cup Cascade(S)
        /\ UNCHANGED << evidence, dependencies >>
    BY <1>2 DEF DeleteAll, Erase
  <2>2. ASSUME NEW k, NEW s, NEW r \in Ref, Live(k, s)', <<k, s, r>> \in dependencies
        PROVE  Live(k, s) /\ (Current(r) => Current(r)')
    <3>1. Live(k, s) /\ r[1] \notin Cascade(S)
      BY <1>t, <2>1, <2>2, InvalidateLive
    <3> QED
      BY <2>1, <3>1, CurrentSame
  <2> QED
    BY <1>t, <2>1, <2>2, ActiveFrame
<1>3. ASSUME NEW t \in Task, PurgeTask(t) PROVE ActiveWorkIsCurrent'
  BY <1>3, <1>t, ActiveEnding DEF PurgeTask, Live, TypeOK
<1>4. ASSUME NEW t \in Task, NEW r \in Ref, Current(r), NEW d,
             UNCHANGED << evidence, tombstones, tasks, memories, notices >>,
             \/ Bind(t, r)
             \/ Followup(t, d, r)
      PROVE  ActiveWorkIsCurrent'
  <2>1. dependencies' = dependencies \cup Bound(t, {r}) /\ tasks[t] # "absent"
    BY <1>4 DEF Bind, Followup, Runs
  <2>2. \A k, s : \A x \in Ref : <<k, s, x>> \in Bound(t, {r}) => x = r
    BY <1>4, <2>1, BoundRows
  <2> QED
    BY <1>4, <1>t, <1>u, <2>1, <2>2, ActiveFrame DEF Live
<1>6. ASSUME NEW t \in Task, NEW d \in Derived,
             CallRunner(t, d) \/ CallEnds(t, d) \/ BeginArtifact(t, d)
      PROVE  ActiveWorkIsCurrent'
  BY <1>6, <1>t, ActiveEnding DEF CallRunner, CallEnds, BeginArtifact, Live
<1>7. ASSUME NEW t \in Task, NEW d \in Derived, RecordTool(t, d) \/ SaveArtifact(t, d)
      PROVE  ActiveWorkIsCurrent'
  <2>1. tasks[t] # "absent"
    BY <1>7, <1>t DEF RecordTool, SaveArtifact, Tidy
  <2>2. \E by : Recorded(t, d, by)
    BY <1>7 DEF RecordTool, SaveArtifact
  <2>3. UNCHANGED << tombstones, tasks, memories, notices >>
    BY <2>2 DEF Recorded
  <2>4. CASE d \in tombstones
    BY <1>t, <2>2, <2>3, <2>4, ActiveEnding DEF Recorded, Live
  <2>5. CASE d \notin tombstones
    <3>1. /\ evidence' = [evidence EXCEPT ![d][0] = "final"]
          /\ dependencies' = dependencies \cup RecordedRows(t, d, Refs("task", t))
      BY <2>2, <2>5 DEF Recorded
    <3>2. Current(<<d, 0>>)' /\ \A r \in Ref : Current(r) => Current(r)'
      BY <2>3, <2>5, <3>1, RecordedCurrent
    <3>3. \A k, s : \A r \in Ref : <<k, s, r>> \in RecordedRows(t, d, Refs("task", t)) =>
              k = "derived_evidence" \/ r = <<d, 0>>
      BY <2>1, <2>3, RecordedRowsRows
    <3> QED
      BY <1>t, <2>3, <3>1, <3>2, <3>3, ActiveFrame DEF Live
  <2> QED
    BY <2>4, <2>5
<1>8. ASSUME NEW t \in Task, NEW m \in Memory, NEW r \in Ref, NEW d \in Derived,
             Remember(t, m, r, d)
      PROVE  ActiveWorkIsCurrent'
  <2>1. /\ d \notin tombstones /\ tombstones' = tombstones
        /\ evidence' = [evidence EXCEPT ![d][0] = "final"]
        /\ tasks[t] # "absent" /\ UNCHANGED << tasks, notices >>
        /\ dependencies' = dependencies \cup Bound(t, {r}) \cup Rows("memory", m, {r})
                           \cup RecordedRows(t, d, Refs("task", t) \cup {r})
        /\ Current(r)
    BY <1>8 DEF Remember, Runs, Fresh
  <2>2. Current(<<d, 0>>)' /\ \A x \in Ref : Current(x) => Current(x)'
    BY <2>1, RecordedCurrent
  <2>3. \A x \in Memory : memories'[x] = "active" => memories[x] = "active" \/ x = m
    BY <1>8, <1>t DEF Remember, TypeOK
  <2>4. Refs("memory", m) = {}
    BY <1>8, <1>t DEF Remember, Tidy
  <2>5. \A k, s : \A x \in Ref : <<k, s, x>> \in dependencies' =>
            \/ <<k, s, x>> \in dependencies
            \/ k = "derived_evidence" \/ x = <<d, 0>> \/ x = r
    BY <2>1, BoundRows, RowsRows, RecordedRowsRows
  <2>6. \A x \in Ref : <<"memory", m, x>> \notin dependencies
    BY <2>4 DEF Refs
  <2> QED
    <3>1. ASSUME NEW k, NEW s, NEW x \in Ref, Live(k, s)', <<k, s, x>> \in dependencies'
          PROVE  \/ Current(x)'
                 \/ /\ Live(k, s) /\ <<k, s, x>> \in dependencies
                    /\ Current(x) => Current(x)'
      <4>1. CASE <<k, s, x>> \in dependencies
        <5>1. Live(k, s)
          BY <2>1, <2>3, <2>6, <3>1, <4>1 DEF Live
        <5> QED
          BY <2>2, <4>1, <5>1
      <4>2. CASE <<k, s, x>> \notin dependencies
        <5>1. k # "derived_evidence"
          BY <3>1 DEF Live
        <5> QED
          BY <2>1, <2>2, <2>5, <3>1, <4>2, <5>1
      <4> QED
        BY <4>1, <4>2
    <3> QED
      BY <1>t, <3>1, ActiveFrame
<1>9. ASSUME NEW m \in Memory, Forget(m) PROVE ActiveWorkIsCurrent'
  <2>1. \A x \in Memory : memories'[x] = "active" => memories[x] = "active"
    BY <1>9, <1>t DEF Forget, TypeOK
  <2> QED
    BY <1>9, <1>t, <2>1, CancelLive, ActiveEnding DEF Forget, CancelFamily
<1>10. ASSUME NEW d \in Derived, FireSchedule(d) PROVE ActiveWorkIsCurrent'
  <2>1. d \notin tombstones /\ UNCHANGED << tombstones, tasks, memories, notices >>
    BY <1>10 DEF FireSchedule
  <2>2. CASE Valid(schedules[d].refs)
    <3>1. /\ evidence' = [evidence EXCEPT ![d][0] = "final"]
          /\ dependencies' = dependencies \cup Rows("derived_evidence", d, schedules[d].refs)
      BY <1>10, <2>2 DEF FireSchedule
    <3>2. \A r \in Ref : Current(r) => Current(r)'
      BY <2>1, <3>1, RecordedCurrent
    <3> QED
      BY <1>t, <2>1, <3>1, <3>2, RowsRows, ActiveFrame DEF Live
  <2>3. CASE ~Valid(schedules[d].refs)
    BY <1>10, <1>t, <2>1, <2>3, ActiveEnding DEF FireSchedule, Live
  <2> QED
    BY <2>2, <2>3
<1>11. ASSUME NEW t \in Task, NEW c \in Child, Spawn(t, c) PROVE ActiveWorkIsCurrent'
  <2>1. /\ UNCHANGED << evidence, tombstones, memories, notices >>
        /\ dependencies' = dependencies \cup Rows("task", c, Refs("task", t))
        /\ \A x \in Task : tasks'[x] = "active" => tasks[x] = "active" \/ x = c
    BY <1>11, <1>t DEF Spawn, TypeOK
  <2>2. \A r \in Ref : <<"task", c, r>> \notin dependencies
    BY <1>11, <1>t DEF Spawn, Tidy, Refs, Task
  <2>3. \A r \in Refs("task", t) : Current(r)
    BY <1>11, <1>t DEF Spawn, Runs, ActiveWorkIsCurrent
  <2>4. \A k, s : \A r \in Ref : <<k, s, r>> \in Rows("task", c, Refs("task", t)) => Current(r)
    BY <2>3, RowsRows
  <2> QED
    BY <1>t, <1>u, <2>1, <2>2, <2>4, ActiveFrame DEF Live
<1>12. ASSUME NEW t \in Task, EndTask(t) PROVE ActiveWorkIsCurrent'
  BY <1>12, <1>t, ActiveEnding DEF EndTask, Live, TypeOK
<1>13. ASSUME NEW t \in Task, NEW r \in Ref, Finish(t, r) PROVE ActiveWorkIsCurrent'
  <2>1. /\ UNCHANGED << evidence, tombstones, memories >>
        /\ dependencies' = dependencies \cup Rows("notification", t, {r})
        /\ \A x \in Task : tasks'[x] = "active" => tasks[x] = "active"
        /\ \A x \in Root : notices'[x] = "pending" =>
                notices[x] = "pending" \/ (x = t /\ notices[x] = "absent")
    BY <1>13, <1>t DEF Finish, TypeOK
  <2>2. notices[t] = "absent" => \A x \in Ref : <<"notification", t, x>> \notin dependencies
    BY <1>13, <1>t DEF Finish, Runs, Tidy, Refs
  <2>3. \A k, s : \A x \in Ref : <<k, s, x>> \in Rows("notification", t, {r}) => Current(x)
    <3>1. r \in Refs("task", t) /\ tasks[t] = "active"
      BY <1>13 DEF Finish, Runs
    <3> QED
      BY <1>t, <3>1, RowsRows DEF ActiveWorkIsCurrent
  <2> QED
    BY <1>t, <1>u, <2>1, <2>2, <2>3, ActiveFrame DEF Live
<1>14. ASSUME NEW t \in Task, CancelTask(t) PROVE ActiveWorkIsCurrent'
  BY <1>14, <1>t, CancelLive, ActiveEnding DEF CancelTask, CancelFamily
<1>15. ASSUME NEW t \in Root, Acknowledge(t) PROVE ActiveWorkIsCurrent'
  BY <1>15, <1>t, ActiveEnding DEF Acknowledge, Live, TypeOK
<1>16. ASSUME UNCHANGED << evidence, tombstones, tasks, memories, notices, dependencies >>
       PROVE  ActiveWorkIsCurrent'
  BY <1>16, <1>t, ActiveEnding DEF Live
<1>17. ASSUME NEW j \in Ref, TakeJob(j) PROVE ActiveWorkIsCurrent'
  BY <1>16, <1>17 DEF TakeJob, OutsideGate
<1>18. CASE AskCamera \/ DecideObserve \/ DecideStale \/ DecideFail
  BY <1>16, <1>18 DEF AskCamera, DecideObserve, FinishJob, DecideStale, DecideFail, OutsideGate
<1>19. ASSUME NEW t \in Task, tasks[t] = "absent" \/ UNCHANGED tasks,
              Current(worker.job), UNCHANGED << evidence, tombstones, memories, notices >>,
              \A x \in Task : tasks'[x] = "active" => tasks[x] = "active" \/ x = t,
              dependencies' = dependencies \cup Rows("task", t, {worker.job})
       PROVE  ActiveWorkIsCurrent'
  <2>1. tasks[t] = "absent" => \A r \in Ref : <<"task", t, r>> \notin dependencies
    BY <1>t DEF Tidy, Refs
  <2>2. \A k, s : \A r \in Ref : <<k, s, r>> \in Rows("task", t, {worker.job}) => Current(r)
    BY <1>19, RowsRows
  <2> QED
    BY <1>19, <1>t, <1>u, <2>1, <2>2, ActiveFrame DEF Live
<1>20. CASE DecideStart
  <2>1. /\ worker.job \in Task /\ Current(worker.job)
        /\ UNCHANGED << evidence, tombstones, memories, notices >>
    BY <1>20, <1>t, DecidedJob
    DEF DecideStart, Decided, GateCurrent, FinishJob, OutsideGate, Idle, Task, Root
  <2>2. CASE tasks[worker.job] = "absent"
    <3>1. /\ tasks' = [tasks EXCEPT ![worker.job] = "active"]
          /\ dependencies' = dependencies \cup Rows("task", worker.job, {worker.job})
      BY <1>20, <2>2 DEF DecideStart
    <3>2. \A x \in Task : tasks'[x] = "active" => tasks[x] = "active" \/ x = worker.job
      BY <1>t, <3>1 DEF TypeOK
    <3> QED
      BY <1>19, <2>1, <2>2, <3>1, <3>2
  <2>3. CASE tasks[worker.job] # "absent"
    BY <1>16, <1>20, <2>1, <2>3 DEF DecideStart
  <2> QED
    BY <2>2, <2>3
<1>21. ASSUME NEW t \in Root, DecideUpdate(t) PROVE ActiveWorkIsCurrent'
  BY <1>19, <1>21 DEF DecideUpdate, Decided, GateCurrent, FinishJob, OutsideGate, Task
<1>22. ASSUME NEW t \in Root, DecideCancel(t) PROVE ActiveWorkIsCurrent'
  BY <1>22, <1>t, CancelLive, ActiveEnding DEF DecideCancel, CancelFamily, FinishJob, OutsideGate
<1>23. ASSUME NEW j \in Ref, BackoffOver(j) PROVE ActiveWorkIsCurrent'
  BY <1>16, <1>23 DEF BackoffOver, OutsideGate
<1>24. CASE RetryGates \/ Restart \/ AbortInvalidRuns \/ UNCHANGED vars
  BY <1>16, <1>24 DEF RetryGates, Restart, AbortInvalidRuns, vars
<1>25. ASSUME NEW t \in Task, NEW r \in Ref, Bind(t, r) PROVE ActiveWorkIsCurrent'
  BY <1>4, <1>25 DEF Bind
<1>26. ASSUME NEW t \in Task, NEW d \in Derived, NEW r \in Ref, Followup(t, d, r)
       PROVE  ActiveWorkIsCurrent'
  BY <1>4, <1>26 DEF Followup
<1> QED
  BY <1>1, <1>2, <1>3, <1>6, <1>7, <1>8, <1>9, <1>10, <1>11, <1>12, <1>13, <1>14, <1>15,
     <1>17, <1>18, <1>20, <1>21, <1>22, <1>23, <1>24, <1>25, <1>26
  DEF Next, IngestSome, ToolStep, WorkerStep, OperatorStep, MaintainStep, TimerStep,
      DeleteEvidence, Maintain

-----------------------------------------------------------------------------
(* Theorems *)

\* The invariant is inductive.
LEMMA InvAlways == Spec => []Inv
<1>1. Inv /\ [Next]_vars => Inv'
  BY TypeStep, TidyStep, ActiveStep DEF Inv
<1> QED
  BY InitInv, <1>1, PTL DEF Spec

\* Type correctness of the ledger's tables and of the classification worker.
THEOREM LedgerTypes == Spec => []TypeOK
<1>1. Inv => TypeOK
  BY DEF Inv
<1> QED
  BY InvAlways, <1>1, PTL

\* Whatever is ingested, corrected, deleted, expired, decided, recorded, retried or
\* restarted, in whatever order, an active task, an active memory and a pending
\* notification cite only the latest, final, undeleted revisions.
THEOREM WorkIsCurrent == Spec => []ActiveWorkIsCurrent
<1>1. Inv => ActiveWorkIsCurrent
  BY DEF Inv
<1> QED
  BY InvAlways, <1>1, PTL

-----------------------------------------------------------------------------
(* Recorded evidence goes with its sources *)

\* The calls under way: their events are not stored or planned, no event is awaited
\* twice, and what a task that waits for the runner rests on is current unless
\* retention deleted it.
CallInv ==
    /\ \A c \in calls \cup saving : ~Stored(c[2]) /\ schedules[c[2]].state # "pending"
    /\ \A b, c \in calls \cup saving : b[2] = c[2] => b = c
    /\ calls \cap saving = {}
    /\ \A c \in calls : \A r \in Refs("task", c[1]) : Current(r) \/ r[1] \in expired

DerivedInv ==
    /\ \A d \in Derived : schedules[d].state = "pending" => evidence[d][0] = "absent"
    /\ \A d \in Derived : ~Stored(d) /\ d \notin tombstones => Refs("derived_evidence", d) = {}
    /\ DerivedFollowsItsSources

\* What an active task rests on is current.
LEMMA ActiveTaskRows ==
    ASSUME ActiveWorkIsCurrent, NEW t \in Task, tasks[t] = "active"
    PROVE  \A r \in Refs("task", t) : Current(r)
BY DEF ActiveWorkIsCurrent

\* A step that starts no call keeps the invariant of the calls if it stores and plans
\* none of their events, and aborts a call or leaves what its task rests on current.
LEMMA CallFrame ==
    ASSUME CallInv, TypeOK', ActiveWorkIsCurrent',
           calls' \subseteq calls, saving' \subseteq saving, expired \subseteq expired',
           \A c \in calls' \cup saving' :
                /\ Stored(c[2])' => Stored(c[2])
                /\ schedules'[c[2]].state = "pending" => schedules[c[2]].state = "pending",
           \A c \in calls' : \/ tasks'[c[1]] = "active"
                             \/ \A r \in Ref : /\ <<"task", c[1], r>> \in dependencies' =>
                                                  \/ <<"task", c[1], r>> \in dependencies
                                                  \/ Current(r)'
                                               /\ Current(r) => Current(r)' \/ r[1] \in expired'
    PROVE  CallInv'
<1>1. ASSUME NEW c \in calls', NEW r \in Ref, <<"task", c[1], r>> \in dependencies'
      PROVE  Current(r)' \/ r[1] \in expired'
  <2>1. CASE tasks'[c[1]] = "active"
    BY <1>1, <2>1 DEF ActiveWorkIsCurrent, Refs, TypeOK
  <2>2. CASE tasks'[c[1]] # "active"
    BY <1>1, <2>2 DEF CallInv, Refs
  <2> QED
    BY <2>1, <2>2
<1>2. (\A c \in calls : \A r \in Refs("task", c[1]) : Current(r) \/ r[1] \in expired)'
  BY <1>1 DEF Refs
<1>3. (\A c \in calls \cup saving : ~Stored(c[2]) /\ schedules[c[2]].state # "pending")'
  BY DEF CallInv
<1>4. (\A b, c \in calls \cup saving : b[2] = c[2] => b = c)'
  BY DEF CallInv
<1>5. (calls \cap saving = {})'
  BY DEF CallInv
<1> QED
  BY <1>2, <1>3, <1>4, <1>5 DEF CallInv

\* A step that touches no event and no row keeps the invariant of the calls.
LEMMA CallStill ==
    ASSUME CallInv, TypeOK', ActiveWorkIsCurrent',
           calls' \subseteq calls, saving' \subseteq saving,
           UNCHANGED << evidence, tombstones, expired >>,
           \A d \in Derived : schedules'[d].state = "pending" => schedules[d].state = "pending",
           \A t \in Task : \A r \in Ref : <<"task", t, r>> \in dependencies' =>
                                <<"task", t, r>> \in dependencies \/ Current(r)
    PROVE  CallInv'
<1>1. (\A e : Stored(e)' <=> Stored(e)) /\ (\A r : Current(r)' <=> Current(r))
  BY DEF Stored, Current, IsNewest
<1>2. \A c \in calls' \cup saving' : c[1] \in Task /\ c[2] \in Derived
  BY DEF TypeOK
<1> QED
  BY <1>1, <1>2, CallFrame

\* Recording event d, which nothing awaits any more, keeps it too.
LEMMA CallRecorded ==
    ASSUME Inv, CallInv, TypeOK', ActiveWorkIsCurrent', NEW d \in Derived, d \notin tombstones,
           calls' \subseteq calls, saving' \subseteq saving,
           \A c \in calls' \cup saving' : c[2] # d,
           UNCHANGED << tombstones, expired >>,
           evidence' = [evidence EXCEPT ![d][0] = "final"],
           \A x \in Derived : schedules'[x].state = "pending" => schedules[x].state = "pending",
           \A t \in Task : \A r \in Ref : <<"task", t, r>> \in dependencies' =>
                \/ <<"task", t, r>> \in dependencies
                \/ Current(r) \/ r = <<d, 0>>
    PROVE  CallInv'
<1>1. Current(<<d, 0>>)' /\ \A r \in Ref : Current(r) => Current(r)'
  BY RecordedCurrent
<1>2. \A c \in calls' \cup saving' : c[1] \in Task /\ c[2] \in Derived /\ c[2] \in Event
  BY DEF TypeOK, Event
<1>3. \A e \in Event : e # d => evidence'[e] = evidence[e]
  BY DEF Inv, TypeOK
<1>4. \A c \in calls' \cup saving' : Stored(c[2])' => Stored(c[2])
  BY <1>2, <1>3 DEF Stored
<1> QED
  BY <1>1, <1>2, <1>4, CallFrame

\* Every step keeps the invariant of the calls.
LEMMA CallStep == Inv /\ Inv' /\ CallInv /\ DerivedInv /\ [Next]_vars => CallInv'
<1> SUFFICES ASSUME Inv, Inv', CallInv, DerivedInv, [Next]_vars PROVE CallInv'
  OBVIOUS
<1>t. TypeOK /\ TypeOK' /\ ActiveWorkIsCurrent /\ ActiveWorkIsCurrent'
  BY DEF Inv
<1>c. /\ CancelInvalidRuns(tasks) \subseteq calls /\ CancelInvalidRuns(tasks') \subseteq calls
      /\ \A c \in CancelInvalidRuns(tasks') : tasks'[c[1]] = "active"
  BY DEF CancelInvalidRuns
<1>e. \A X : Erase(X) => \A d \in Derived : schedules'[d].state = "pending" => schedules[d].state = "pending"
  BY <1>t DEF Erase, TypeOK, Schedule
<1>f. ASSUME NEW d \in Derived, Fresh(d) PROVE \A c \in calls \cup saving : c[2] # d
  <2>1. \A c \in calls \cup saving : c[1] \in Task /\ c = << c[1], c[2] >>
    BY <1>t DEF TypeOK
  <2> QED
    BY <1>f, <2>1 DEF Fresh
<1>1. ASSUME NEW e \in Sensed, NEW n \in Revision, NEW content \in {"partial", "final"},
             NEW trigger \in BOOLEAN, Ingest(e, n, content, trigger)
      PROVE  CallInv'
  <2>1. /\ calls' = CancelInvalidRuns(tasks') /\ UNCHANGED << saving, expired >>
        /\ evidence' = [evidence EXCEPT ![e][n] = content]
        /\ tombstones \subseteq tombstones'
        /\ \A d \in Derived : schedules'[d].state = "pending" => schedules[d].state = "pending"
    BY <1>1, <1>e DEF Ingest, Erase
  <2>2. \A c \in calls' \cup saving' : c[2] \in Derived /\ evidence'[c[2]] = evidence[c[2]]
    BY <1>t, <2>1, LedgerAssumption DEF TypeOK, Event
  <2>3. \A c \in calls' \cup saving' : Stored(c[2])' => Stored(c[2])
    BY <2>1, <2>2 DEF Stored
  <2> QED
    BY <1>c, <1>t, <2>1, <2>2, <2>3, CallFrame
<1>2. ASSUME NEW S, DeleteAll(S), calls' \subseteq calls,
             \/ calls' = CancelInvalidRuns(tasks') /\ expired' = expired
             \/ expired' = expired \cup Cascade(S)
      PROVE  CallInv'
  <2>1. /\ UNCHANGED << evidence, dependencies, saving >>
        /\ tombstones' = tombstones \cup Cascade(S)
        /\ \A d \in Derived : schedules'[d].state = "pending" => schedules[d].state = "pending"
    BY <1>2, <1>e DEF DeleteAll, Erase
  <2>2. \A e : Stored(e)' => Stored(e)
    BY <2>1 DEF Stored
  <2>3. \A c \in calls' \cup saving' : c[2] \in Derived
    BY <1>t DEF TypeOK
  <2>4. \A r \in Ref : Current(r) => Current(r)' \/ r[1] \in Cascade(S)
    BY <2>1 DEF Current, IsNewest
  <2>5. \A c \in calls' : \/ tasks'[c[1]] = "active"
                          \/ \A r \in Ref : Current(r) => Current(r)' \/ r[1] \in expired'
    BY <1>2, <1>c, <2>4
  <2> QED
    BY <1>2, <1>t, <2>1, <2>2, <2>3, <2>5, CallFrame
<1>3. ASSUME NEW e, DeleteEvidence(e) PROVE CallInv'
  BY <1>2, <1>3, <1>c DEF DeleteEvidence
<1>4. ASSUME NEW S, Maintain(S) PROVE CallInv'
  BY <1>2, <1>4 DEF Maintain
<1>5. ASSUME UNCHANGED << evidence, tombstones, expired, dependencies, schedules >>,
             calls' \subseteq calls, saving' \subseteq saving
      PROVE  CallInv'
  BY <1>5, <1>t, CallStill
<1>6. ASSUME NEW t \in Task, PurgeTask(t) PROVE CallInv'
  <2>1. \A d \in Derived : schedules'[d].state = "pending" => schedules[d].state = "pending"
    BY <1>6, <1>t DEF PurgeTask, TypeOK, Schedule
  <2> QED
    BY <1>6, <1>t, <2>1, CallStill DEF PurgeTask
<1>7. ASSUME NEW kind, NEW s, NEW R, \A r \in R : kind = "task" => Current(r),
             UNCHANGED << evidence, tombstones, expired, schedules, calls, saving >>,
             dependencies' = dependencies \cup Rows(kind, s, R)
      PROVE  CallInv'
  BY <1>7, <1>t, RowsRows, CallStill
<1>8. ASSUME NEW t \in Task, NEW r \in Ref, Bind(t, r) PROVE CallInv'
  <2>1. \A s \in Task : \A x \in Ref : <<"task", s, x>> \in Bound(t, {r}) => x = r
    BY <1>8, BoundRows DEF Bind, Runs
  <2> QED
    BY <1>8, <1>t, <2>1, CallStill DEF Bind
<1>9. ASSUME NEW t \in Task, NEW d \in Derived, CallRunner(t, d) PROVE CallInv'
  <2>1. /\ calls' = calls \cup {<<t, d>>} /\ tasks[t] = "active" /\ Fresh(d)
        /\ UNCHANGED << evidence, tombstones, expired, dependencies, schedules, saving >>
    BY <1>9 DEF CallRunner, Runs
  <2>2. (\A e : Stored(e)' <=> Stored(e)) /\ (\A r : Current(r)' <=> Current(r))
    BY <2>1 DEF Stored, Current, IsNewest
  <2>3. (\A c \in calls \cup saving : ~Stored(c[2]) /\ schedules[c[2]].state # "pending")'
    BY <2>1, <2>2 DEF CallInv, Fresh
  <2>4. (\A b, c \in calls \cup saving : b[2] = c[2] => b = c)'
    BY <1>f, <2>1 DEF CallInv
  <2>5. (calls \cap saving = {})'
    BY <1>f, <2>1 DEF CallInv
  <2>6. \A c \in calls' : \A r \in Refs("task", c[1]) : Current(r) \/ r[1] \in expired
    BY <1>t, <2>1, ActiveTaskRows DEF CallInv
  <2>7. (\A c \in calls : \A r \in Refs("task", c[1]) : Current(r) \/ r[1] \in expired)'
    BY <2>1, <2>2, <2>6 DEF Refs
  <2> QED
    BY <2>3, <2>4, <2>5, <2>7 DEF CallInv
<1>10. ASSUME NEW t \in Task, NEW d \in Derived, BeginArtifact(t, d) PROVE CallInv'
  <2>1. /\ <<t, d>> \in calls /\ calls' = calls \ {<<t, d>>} /\ saving' = saving \cup {<<t, d>>}
        /\ UNCHANGED << evidence, tombstones, expired, dependencies, schedules >>
    BY <1>10 DEF BeginArtifact
  <2>2. (\A e : Stored(e)' <=> Stored(e)) /\ (\A r : Current(r)' <=> Current(r))
    BY <2>1 DEF Stored, Current, IsNewest
  <2>3. calls' \cup saving' = calls \cup saving
    BY <2>1
  <2>4. (\A c \in calls \cup saving : ~Stored(c[2]) /\ schedules[c[2]].state # "pending")'
    BY <2>1, <2>2, <2>3 DEF CallInv
  <2>5. (\A b, c \in calls \cup saving : b[2] = c[2] => b = c)'
    BY <2>3 DEF CallInv
  <2>6. (calls \cap saving = {})'
    BY <2>1 DEF CallInv
  <2>7. (\A c \in calls : \A r \in Refs("task", c[1]) : Current(r) \/ r[1] \in expired)'
    BY <2>1, <2>2 DEF CallInv, Refs
  <2> QED
    BY <2>4, <2>5, <2>6, <2>7 DEF CallInv
<1>11. ASSUME NEW t \in Task, NEW d \in Derived, RecordTool(t, d) \/ SaveArtifact(t, d)
       PROVE  CallInv'
  <2>1. /\ calls' \subseteq calls /\ saving' \subseteq saving
        /\ \A c \in calls' \cup saving' : c[2] # d
        /\ \E by : Recorded(t, d, by)
        /\ tasks[t] # "absent"
    BY <1>11 DEF RecordTool, SaveArtifact, CallInv, Inv, Tidy
  <2>2. CASE d \in tombstones
    BY <1>5, <2>1, <2>2 DEF Recorded
  <2>3. CASE d \notin tombstones
    <3>1. /\ evidence' = [evidence EXCEPT ![d][0] = "final"]
          /\ dependencies' = dependencies \cup RecordedRows(t, d, Refs("task", t))
          /\ UNCHANGED << tombstones, expired, schedules, tasks >>
      BY <2>1, <2>3 DEF Recorded
    <3>2. \A s \in Task : \A r \in Ref : <<"task", s, r>> \in dependencies' =>
                <<"task", s, r>> \in dependencies \/ r = <<d, 0>>
      BY <2>1, <3>1, RecordedRowsRows
    <3> QED
      BY <1>t, <2>1, <2>3, <3>1, <3>2, CallRecorded
  <2> QED
    BY <2>2, <2>3
<1>12. ASSUME NEW t \in Task, NEW m \in Memory, NEW r \in Ref, NEW d \in Derived,
              Remember(t, m, r, d)
       PROVE  CallInv'
  <2>1. /\ d \notin tombstones /\ Fresh(d) /\ Current(r) /\ tasks[t] # "absent"
        /\ evidence' = [evidence EXCEPT ![d][0] = "final"]
        /\ dependencies' = dependencies \cup Bound(t, {r}) \cup Rows("memory", m, {r})
                           \cup RecordedRows(t, d, Refs("task", t) \cup {r})
        /\ UNCHANGED << tombstones, expired, schedules, tasks, calls, saving >>
    BY <1>12 DEF Remember, Runs, Fresh
  <2>2. \A s \in Task : \A x \in Ref : <<"task", s, x>> \in dependencies' =>
              <<"task", s, x>> \in dependencies \/ Current(x) \/ x = <<d, 0>>
    BY <2>1, BoundRows, RowsRows, RecordedRowsRows
  <2> QED
    BY <1>f, <1>t, <2>1, <2>2, CallRecorded
<1>13. ASSUME NEW t \in Task, NEW d \in Derived, NEW r \in Ref, Followup(t, d, r) PROVE CallInv'
  <2>1. /\ Fresh(d) /\ Current(r) /\ tasks[t] # "absent"
        /\ dependencies' = dependencies \cup Bound(t, {r})
        /\ UNCHANGED << evidence, tombstones, expired, tasks, calls, saving >>
        /\ \A x \in Derived : x # d => schedules'[x] = schedules[x]
    BY <1>13, <1>t DEF Followup, Runs, TypeOK
  <2>2. \A c \in calls' \cup saving' : c[2] \in Derived /\ c[2] # d
    BY <1>f, <1>t, <2>1 DEF TypeOK
  <2>3. (\A e : Stored(e)' <=> Stored(e)) /\ (\A x : Current(x)' <=> Current(x))
    BY <2>1 DEF Stored, Current, IsNewest
  <2>4. \A s \in Task : \A x \in Ref : <<"task", s, x>> \in Bound(t, {r}) => x = r
    BY <2>1, BoundRows
  <2>5. \A c \in calls' : c[1] \in Task
    BY <1>t DEF TypeOK
  <2> QED
    BY <1>t, <2>1, <2>2, <2>3, <2>4, <2>5, CallFrame
<1>14. ASSUME NEW d \in Derived, FireSchedule(d) PROVE CallInv'
  <2>1. /\ schedules[d].state = "pending" /\ d \notin tombstones
        /\ UNCHANGED << tombstones, expired, calls, saving >>
        /\ \A x \in Derived : schedules'[x].state = "pending" => schedules[x].state = "pending"
    BY <1>14, <1>t DEF FireSchedule, TypeOK, Schedule
  <2>2. \A c \in calls' \cup saving' : c[2] # d
    BY <2>1 DEF CallInv
  <2>3. CASE Valid(schedules[d].refs)
    <3>1. /\ evidence' = [evidence EXCEPT ![d][0] = "final"]
          /\ dependencies' = dependencies \cup Rows("derived_evidence", d, schedules[d].refs)
      BY <1>14, <2>3 DEF FireSchedule
    <3>2. \A s \in Task : \A r \in Ref : <<"task", s, r>> \in dependencies' =>
                                            <<"task", s, r>> \in dependencies
      BY <3>1, RowsRows
    <3> QED
      BY <1>t, <2>1, <2>2, <3>1, <3>2, CallRecorded
  <2>4. CASE ~Valid(schedules[d].refs)
    BY <1>14, <1>t, <2>1, <2>4, CallStill DEF FireSchedule
  <2> QED
    BY <2>3, <2>4
<1>15. ASSUME NEW t \in Task, NEW c \in Child, Spawn(t, c) PROVE CallInv'
  <2>1. \A r \in Refs("task", t) : Current(r)
    BY <1>15, <1>t, ActiveTaskRows DEF Spawn, Runs
  <2> QED
    BY <1>7, <1>15, <2>1 DEF Spawn
<1>16. ASSUME NEW t \in Task, NEW r \in Ref, Finish(t, r) PROVE CallInv'
  BY <1>7, <1>16 DEF Finish
<1>17. ASSUME NEW t, NEW d, \/ EndTask(t) \/ CancelTask(t) \/ Acknowledge(t) \/ Forget(t)
                            \/ CallEnds(t, d) \/ AbortInvalidRuns
       PROVE  CallInv'
  <2>1. calls' \subseteq calls
    BY <1>17, <1>c DEF EndTask, CancelTask, Acknowledge, Forget, CallEnds, AbortInvalidRuns
  <2> QED
    BY <1>5, <1>17, <2>1 DEF EndTask, CancelTask, Acknowledge, Forget, CallEnds, AbortInvalidRuns
<1>18. ASSUME NEW j, TakeJob(j) \/ BackoffOver(j) PROVE CallInv'
  BY <1>5, <1>18 DEF TakeJob, BackoffOver, OutsideGate
<1>19. CASE AskCamera \/ DecideObserve \/ DecideStale \/ DecideFail
  BY <1>5, <1>19 DEF AskCamera, DecideObserve, FinishJob, DecideStale, DecideFail, OutsideGate
<1>20. CASE DecideStart
  <2>1. Current(worker.job)
    BY <1>20 DEF DecideStart, Decided, GateCurrent
  <2>2. UNCHANGED << evidence, tombstones, expired, schedules, calls, saving >>
    BY <1>20 DEF DecideStart, FinishJob, OutsideGate
  <2>3. \/ dependencies' = dependencies
        \/ dependencies' = dependencies \cup Rows("task", worker.job, {worker.job})
    BY <1>20 DEF DecideStart
  <2> QED
    BY <1>5, <1>7, <2>1, <2>2, <2>3
<1>21. ASSUME NEW t, DecideUpdate(t) PROVE CallInv'
  BY <1>7, <1>21 DEF DecideUpdate, Decided, GateCurrent, FinishJob, OutsideGate
<1>22. ASSUME NEW t, DecideCancel(t) PROVE CallInv'
  BY <1>5, <1>22, <1>c DEF DecideCancel, FinishJob, OutsideGate
<1>23. CASE RetryGates \/ UNCHANGED vars
  BY <1>5, <1>23 DEF RetryGates, vars
<1>24. CASE Restart
  BY <1>5, <1>24 DEF Restart
<1> QED
  BY <1>1, <1>3, <1>4, <1>6, <1>8, <1>9, <1>10, <1>11, <1>12, <1>13, <1>14, <1>15, <1>16, <1>17,
     <1>18, <1>19, <1>20, <1>21, <1>22, <1>23, <1>24
  DEF Next, IngestSome, ToolStep, WorkerStep, OperatorStep, MaintainStep, TimerStep, Task

\* deleteEvidence() reaches every live event that rests on one it visits.
LEMMA CascadeClosed ==
    ASSUME NEW X, NEW d \in Derived, Stored(d),
           NEW r \in Refs("derived_evidence", d), r[1] \in Cascade(X)
    PROVE  d \in Cascade(X)
<1>1. d \in Event /\ r[2] \in Revision /\ r = <<r[1], r[2]>>
  BY DEF Event, Refs, Ref
<1>2. ASSUME NEW S \in SUBSET Event, X \subseteq S, ClosedUnderDerivation(S) PROVE d \in S
  <2>1. r[1] \in S
    BY <1>2 DEF Cascade
  <2>2. r \in S \X Revision
    BY <1>1, <2>1
  <2> QED
    BY <1>2, <2>2 DEF ClosedUnderDerivation
<1> QED
  BY <1>1, <1>2 DEF Cascade

\* A step that touches neither events nor the rows of derived evidence.
LEMMA DerivedFrame ==
    ASSUME DerivedInv, UNCHANGED << evidence, tombstones, late, expired >>,
           \A d \in Derived : schedules'[d].state = "pending" => schedules[d].state = "pending",
           \A d \in Derived : \A r \in Ref : <<"derived_evidence", d, r>> \in dependencies'
                                          => <<"derived_evidence", d, r>> \in dependencies
    PROVE  DerivedInv'
<1>1. (\A d \in Derived : Stored(d)' <=> Stored(d)) /\ (\A r \in Ref : Current(r)' <=> Current(r))
  BY DEF Stored, Current, IsNewest
<1>2. \A d \in Derived : Refs("derived_evidence", d)' \subseteq Refs("derived_evidence", d)
  BY DEF Refs
<1>3. \A d, r : Excused(d, r)' <=> Excused(d, r)
  BY DEF Excused
<1>4. DerivedFollowsItsSources'
  BY <1>1, <1>2, <1>3 DEF DerivedInv, DerivedFollowsItsSources, Refs
<1> QED
  BY <1>1, <1>2, <1>4 DEF DerivedInv

\* Deleting or correcting an event, with the cascade, takes what rests on it along.
LEMMA DerivedErased ==
    ASSUME TypeOK, DerivedInv, NEW X, NEW e,
           \/ tombstones' = tombstones \cup Cascade(X)
           \/ tombstones' = tombstones \cup (Cascade(X) \ {e}),
           e \notin Derived, e \in Cascade(X) \/ evidence' = evidence,
           \A x \in Event : x # e => evidence'[x] = evidence[x],
           UNCHANGED << dependencies, late >>, expired \subseteq expired',
           \A d \in Derived : schedules'[d].state = "pending" => schedules[d].state = "pending"
    PROVE  DerivedInv'
<1>1. \A d \in Derived : d \in Event /\ d # e /\ evidence'[d] = evidence[d]
  BY DEF Event
<1>2. \A d \in Derived : Stored(d)' => Stored(d) /\ d \notin Cascade(X)
  BY <1>1 DEF Stored
<1>3. \A d \in Derived : ~Stored(d)' /\ d \notin tombstones' => ~Stored(d) /\ d \notin tombstones
  BY <1>1 DEF Stored
<1>4. ASSUME NEW d \in Derived, Stored(d)', NEW r \in Refs("derived_evidence", d)
      PROVE  Current(r)' \/ Excused(d, r)'
  <2>1. r \in Ref /\ r[1] \in Event
    BY DEF Refs, Ref
  <2>2. Stored(d) /\ (Current(r) \/ Excused(d, r)) /\ r[1] \notin Cascade(X)
    BY <1>2, <1>4, CascadeClosed DEF DerivedInv, DerivedFollowsItsSources
  <2>3. evidence'[r[1]] = evidence[r[1]]
    BY <2>1, <2>2
  <2>4. Excused(d, r) => Excused(d, r)'
    BY DEF Excused
  <2> QED
    BY <2>1, <2>2, <2>3, <2>4, CurrentSame
<1>5. DerivedFollowsItsSources'
  BY <1>4 DEF DerivedFollowsItsSources, Refs
<1> QED
  BY <1>1, <1>3, <1>5 DEF DerivedInv, Refs

\* Recording an event that was not stored, from sources that are current or excused.
LEMMA DerivedRecorded ==
    ASSUME Inv, DerivedInv, NEW d \in Derived, d \notin tombstones, ~Stored(d),
           evidence' = [evidence EXCEPT ![d][0] = "final"],
           UNCHANGED << tombstones, expired >>, late \subseteq late',
           \A x \in Derived : schedules'[x].state = "pending" => schedules[x].state = "pending" /\ x # d,
           \A x \in Derived : \A r \in Ref : <<"derived_evidence", x, r>> \in dependencies' =>
                \/ <<"derived_evidence", x, r>> \in dependencies
                \/ x = d /\ (Current(r) \/ Excused(d, r)')
    PROVE  DerivedInv'
<1>1. TypeOK /\ Tidy /\ 0 \in Revision /\ d \in Event
  BY LedgerAssumption DEF Inv, Revision, Event
<1>2. \A r \in Ref : Current(r) => Current(r)'
  BY RecordedCurrent
<1>3. Refs("derived_evidence", d) = {}
  BY DEF DerivedInv
<1>4. \A x, r : Excused(x, r) => Excused(x, r)'
  BY DEF Excused
<1>5. \A x \in Derived : x \in Event /\ (x # d => evidence'[x] = evidence[x])
  BY <1>1 DEF TypeOK, Event
<1>6. Stored(d)'
  BY <1>1 DEF Stored, TypeOK
<1>7. ASSUME NEW x \in Derived, Stored(x)', NEW r \in Ref,
             <<"derived_evidence", x, r>> \in dependencies'
      PROVE  Current(r)' \/ Excused(x, r)'
  <2>1. CASE <<"derived_evidence", x, r>> \in dependencies
    <3>1. x # d
      BY <1>3, <2>1 DEF Refs
    <3>2. Stored(x)
      BY <1>5, <1>7, <3>1 DEF Stored
    <3>3. Current(r) \/ Excused(x, r)
      BY <2>1, <3>2 DEF DerivedInv, DerivedFollowsItsSources, Refs
    <3> QED
      BY <1>2, <1>4, <3>3
  <2>2. CASE <<"derived_evidence", x, r>> \notin dependencies
    BY <1>2, <1>7, <2>2
  <2> QED
    BY <2>1, <2>2
<1>8. DerivedFollowsItsSources'
  BY <1>7 DEF DerivedFollowsItsSources, Refs
<1>9. \A x \in Derived : schedules'[x].state = "pending" => evidence'[x][0] = "absent"
  BY <1>5 DEF DerivedInv
<1>10. ASSUME NEW x \in Derived, ~Stored(x)', x \notin tombstones'
       PROVE  Refs("derived_evidence", x)' = {}
  <2>1. x # d
    BY <1>6, <1>10
  <2>2. ~Stored(x)
    BY <1>5, <1>10, <2>1 DEF Stored
  <2> QED
    BY <1>10, <2>1, <2>2 DEF DerivedInv, Refs
<1> QED
  BY <1>8, <1>9, <1>10 DEF DerivedInv

\* Every step keeps recorded evidence with its sources.
LEMMA DerivedStep == Inv /\ CallInv /\ DerivedInv /\ [Next]_vars => DerivedInv'
<1> SUFFICES ASSUME Inv, CallInv, DerivedInv, [Next]_vars PROVE DerivedInv'
  OBVIOUS
<1>t. TypeOK /\ Tidy /\ ActiveWorkIsCurrent
  BY DEF Inv
<1>e. \A X : Erase(X) => \A d \in Derived : schedules'[d].state = "pending" => schedules[d].state = "pending"
  BY <1>t DEF Erase, TypeOK, Schedule
<1>1. ASSUME NEW e \in Sensed, NEW n \in Revision, NEW content \in {"partial", "final"},
             NEW trigger \in BOOLEAN, Ingest(e, n, content, trigger)
      PROVE  DerivedInv'
  <2>1. e \notin Derived /\ e \in Event /\ UNCHANGED << dependencies, late, expired >>
    BY <1>1, LedgerAssumption DEF Ingest, Event
  <2>2. evidence' = [evidence EXCEPT ![e][n] = content]
    BY <1>1 DEF Ingest
  <2>3. \A x \in Event : x # e => evidence'[x] = evidence[x]
    BY <1>t, <2>2 DEF TypeOK
  <2>4. CASE IsNewest(e, n)
    <3>1. Erase(Cascade({e}) \ {e}) /\ tombstones' = tombstones \cup (Cascade({e}) \ {e})
      BY <1>1, <2>4 DEF Ingest, Erase
    <3>2. e \in Cascade({e})
      BY <2>1 DEF Cascade
    <3> QED
      BY <1>t, <1>e, <2>1, <2>3, <3>1, <3>2, DerivedErased
  <2>5. CASE ~IsNewest(e, n)
    <3>1. UNCHANGED << tombstones, schedules >>
      BY <1>1, <2>5 DEF Ingest
    <3>2. \A r \in Ref : Current(r) => Current(r)'
      BY <1>t, <2>1, <2>2, <2>5, <3>1, OlderRevision
    <3>3. \A d \in Derived : evidence'[d] = evidence[d] /\ (Stored(d)' <=> Stored(d))
      BY <2>1, <2>3, <3>1 DEF Stored, Event
    <3>4. \A d, r : Excused(d, r)' <=> Excused(d, r)
      BY <2>1 DEF Excused
    <3>5. DerivedFollowsItsSources'
      BY <2>1, <3>2, <3>3, <3>4 DEF DerivedFollowsItsSources, DerivedInv, Refs
    <3> QED
      BY <2>1, <3>1, <3>3, <3>5 DEF DerivedInv, Refs
  <2> QED
    BY <2>4, <2>5
<1>2. ASSUME NEW S, DeleteEvidence(S) \/ Maintain(S) PROVE DerivedInv'
  <2>1. PICK X : DeleteAll(X) /\ expired \subseteq expired'
    BY <1>2 DEF DeleteEvidence, Maintain
  <2>2. Erase(Cascade(X)) /\ tombstones' = tombstones \cup Cascade(X)
        /\ UNCHANGED << evidence, dependencies, late >>
    BY <2>1 DEF DeleteAll, Erase
  <2>3. PICK e : e \notin Derived
    BY NoSetContainsEverything
  <2> QED
    BY <1>t, <1>e, <2>1, <2>2, <2>3, DerivedErased
<1>3. ASSUME NEW t \in Task, PurgeTask(t) PROVE DerivedInv'
  <2>1. \A d \in Derived : schedules'[d].state = "pending" => schedules[d].state = "pending"
    BY <1>3, <1>t DEF PurgeTask, TypeOK, Schedule
  <2> QED
    BY <1>3, <2>1, DerivedFrame DEF PurgeTask
<1>4. ASSUME NEW t \in Task, NEW r \in Ref, Bind(t, r) PROVE DerivedInv'
  BY <1>4, BoundRows, DerivedFrame DEF Bind, Runs
<1>5. ASSUME UNCHANGED << evidence, tombstones, late, expired, schedules, dependencies >>
      PROVE  DerivedInv'
  BY <1>5, DerivedFrame
<1>6. ASSUME NEW t \in Task, NEW d \in Derived, RecordTool(t, d) \/ SaveArtifact(t, d)
      PROVE  DerivedInv'
  <2>1. /\ ~Stored(d) /\ schedules[d].state # "pending" /\ tasks[t] # "absent"
        /\ \/ Recorded(t, d, "file")
           \/ /\ Recorded(t, d, "call")
              /\ \A r \in Refs("task", t) : Current(r) \/ r[1] \in expired
    BY <1>6, <1>t DEF RecordTool, SaveArtifact, CallInv, Tidy
  <2>2. CASE d \in tombstones
    BY <1>5, <2>1, <2>2 DEF Recorded
  <2>3. CASE d \notin tombstones
    <3>1. /\ evidence' = [evidence EXCEPT ![d][0] = "final"]
          /\ dependencies' = dependencies \cup RecordedRows(t, d, Refs("task", t))
          /\ UNCHANGED << tombstones, expired, schedules, tasks >> /\ late \subseteq late'
      BY <2>1, <2>3 DEF Recorded
    <3>2. ASSUME NEW r \in Refs("task", t) PROVE Current(r) \/ Excused(d, r)'
      <4>1. CASE tasks[t] = "active"
        BY <1>t, <4>1, ActiveTaskRows
      <4>2. CASE tasks[t] # "active"
        BY <2>1, <2>3, <3>1, <3>2, <4>2 DEF Recorded, Excused
      <4> QED
        BY <4>1, <4>2
    <3>3. \A x \in Derived : \A r \in Ref : <<"derived_evidence", x, r>> \in dependencies' =>
              \/ <<"derived_evidence", x, r>> \in dependencies
              \/ x = d /\ (Current(r) \/ Excused(d, r)')
      BY <2>1, <3>1, <3>2, RecordedRowsRows
    <3> QED
      BY <2>1, <2>3, <3>1, <3>3, DerivedRecorded
  <2> QED
    BY <2>2, <2>3
<1>7. ASSUME NEW t \in Task, NEW m \in Memory, NEW r \in Ref, NEW d \in Derived,
             Remember(t, m, r, d)
      PROVE  DerivedInv'
  <2>1. ~Stored(d) /\ schedules[d].state # "pending" /\ d \notin tombstones
    BY <1>7 DEF Remember, Fresh
  <2>2. \A x \in Refs("task", t) \cup {r} : Current(x)
    BY <1>7, <1>t, ActiveTaskRows DEF Remember, Runs
  <2>3. /\ dependencies' = dependencies \cup Bound(t, {r}) \cup Rows("memory", m, {r})
                           \cup RecordedRows(t, d, Refs("task", t) \cup {r})
        /\ tasks' = tasks /\ tasks[t] # "absent"
    BY <1>7 DEF Remember, Runs
  <2>4. \A x \in Derived : \A y \in Ref : <<"derived_evidence", x, y>> \in dependencies' =>
            \/ <<"derived_evidence", x, y>> \in dependencies
            \/ x = d /\ Current(y)
    BY <2>2, <2>3, BoundRows, RowsRows, RecordedRowsRows
  <2> QED
    BY <1>7, <2>1, <2>4, DerivedRecorded DEF Remember
<1>8. ASSUME NEW t \in Task, NEW d \in Derived, NEW r \in Ref, Followup(t, d, r) PROVE DerivedInv'
  <2>1. ~Stored(d) /\ d \notin tombstones /\ evidence[d][0] = "absent"
    BY <1>8, LedgerAssumption DEF Followup, Fresh, Stored, Revision
  <2>2. UNCHANGED << evidence, tombstones, late, expired, tasks >> /\ tasks[t] # "absent"
        /\ dependencies' = dependencies \cup Bound(t, {r})
    BY <1>8 DEF Followup, Runs
  <2>3. \A x \in Derived : Refs("derived_evidence", x)' = Refs("derived_evidence", x)
    BY <2>2, BoundRows DEF Refs
  <2>4. \A x \in Derived : schedules'[x].state = "pending" => schedules[x].state = "pending" \/ x = d
    BY <1>8, <1>t DEF Followup, TypeOK
  <2>5. \A x \in Derived : schedules'[x].state = "pending" => evidence'[x][0] = "absent"
    BY <2>1, <2>2, <2>4 DEF DerivedInv
  <2>6. /\ \A x \in Derived : Stored(x)' <=> Stored(x)
        /\ \A x \in Ref : Current(x)' <=> Current(x)
        /\ \A x, y : Excused(x, y)' <=> Excused(x, y)
    BY <2>2 DEF Stored, Current, IsNewest, Excused
  <2>7. DerivedFollowsItsSources'
    BY <2>3, <2>6 DEF DerivedFollowsItsSources, DerivedInv, Refs
  <2> QED
    BY <2>2, <2>3, <2>5, <2>6, <2>7 DEF DerivedInv
<1>9. ASSUME NEW d \in Derived, FireSchedule(d) PROVE DerivedInv'
  <2>1. /\ \A x \in Derived : schedules'[x].state = "pending" => schedules[x].state = "pending" /\ x # d
        /\ evidence[d][0] = "absent"
    BY <1>9, <1>t DEF FireSchedule, TypeOK, Schedule, DerivedInv
  <2>2. ~Stored(d)
    BY <1>t, <2>1, LedgerAssumption DEF Stored, Tidy, Revision
  <2>3. CASE Valid(schedules[d].refs)
    <3>1. dependencies' = dependencies \cup Rows("derived_evidence", d, schedules[d].refs)
      BY <1>9, <2>3 DEF FireSchedule
    <3>2. \A x \in Derived : \A r \in Ref : <<"derived_evidence", x, r>> \in dependencies' =>
              \/ <<"derived_evidence", x, r>> \in dependencies
              \/ x = d /\ Current(r)
      BY <2>3, <3>1, RowsRows DEF Valid
    <3> QED
      BY <1>9, <2>1, <2>2, <2>3, <3>2, DerivedRecorded DEF FireSchedule
  <2>4. CASE ~Valid(schedules[d].refs)
    BY <1>9, <2>1, <2>4, DerivedFrame DEF FireSchedule
  <2> QED
    BY <2>3, <2>4
<1>10. ASSUME NEW kind, NEW s, NEW R, kind # "derived_evidence",
              UNCHANGED << evidence, tombstones, late, expired, schedules >>,
              \/ dependencies' = dependencies
              \/ dependencies' = dependencies \cup Rows(kind, s, R)
       PROVE  DerivedInv'
  BY <1>10, RowsRows, DerivedFrame
<1>12. ASSUME NEW t \in Task, NEW c \in Child, Spawn(t, c) PROVE DerivedInv'
  BY <1>10, <1>12 DEF Spawn
<1>13. ASSUME NEW t \in Task, NEW r \in Ref, Finish(t, r) PROVE DerivedInv'
  BY <1>10, <1>13 DEF Finish
<1>14. ASSUME NEW t, NEW d,
              \/ EndTask(t) \/ CancelTask(t) \/ Acknowledge(t) \/ Forget(t) \/ AbortInvalidRuns
              \/ CallRunner(t, d) \/ CallEnds(t, d) \/ BeginArtifact(t, d)
       PROVE  DerivedInv'
  BY <1>5, <1>14 DEF EndTask, CancelTask, Acknowledge, Forget, AbortInvalidRuns, CallRunner,
                     CallEnds, BeginArtifact
<1>15. ASSUME NEW j, TakeJob(j) \/ BackoffOver(j) PROVE DerivedInv'
  BY <1>5, <1>15 DEF TakeJob, BackoffOver, OutsideGate
<1>16. CASE AskCamera \/ DecideObserve \/ DecideStale \/ DecideFail
  BY <1>5, <1>16 DEF AskCamera, DecideObserve, FinishJob, DecideStale, DecideFail, OutsideGate
<1>17. CASE DecideStart
  BY <1>10, <1>17 DEF DecideStart, FinishJob, OutsideGate
<1>18. ASSUME NEW t, DecideUpdate(t) PROVE DerivedInv'
  BY <1>10, <1>18 DEF DecideUpdate, FinishJob, OutsideGate
<1>19. ASSUME NEW t, DecideCancel(t) PROVE DerivedInv'
  BY <1>5, <1>19 DEF DecideCancel, FinishJob, OutsideGate
<1>20. CASE RetryGates \/ Restart \/ UNCHANGED vars
  BY <1>5, <1>20 DEF RetryGates, Restart, vars
<1> QED
  BY <1>1, <1>2, <1>3, <1>4, <1>6, <1>7, <1>8, <1>9, <1>12, <1>13, <1>14, <1>15, <1>16, <1>17,
     <1>18, <1>19, <1>20
  DEF Next, IngestSome, ToolStep, WorkerStep, OperatorStep, MaintainStep, TimerStep, Task

\* Evidence the agent recorded is deleted before any source it was derived from stops
\* being current: the recursion of invalidate() and deleteEvidence() reaches all of it,
\* and a deletion or a correction aborts the calls whose results would come too late.
\* What gets past is what Excused names.
THEOREM DerivedIsCurrent == Spec => []DerivedFollowsItsSources
<1>1. Init => CallInv /\ DerivedInv
  BY DEF Init, CallInv, DerivedInv, NoSchedule, DerivedFollowsItsSources, Stored, Refs, Event
<1>2. Inv /\ Inv' /\ CallInv /\ DerivedInv /\ [Next]_vars => CallInv' /\ DerivedInv'
  BY CallStep, DerivedStep
<1>3. DerivedInv => DerivedFollowsItsSources
  BY DEF DerivedInv
<1> QED
  BY InvAlways, <1>1, <1>2, <1>3, PTL DEF Spec

-----------------------------------------------------------------------------
(* The classification worker: no job is stranded, no verdict is taken back *)

\* What the worker's two properties rest on: a job exists only for a revision that is
\* final, a running job is the worker's and its revision is current, and the event of
\* a follow-up has no job before the follow-up fires.
GateInv ==
    /\ \A j \in Ref : gate_jobs[j].state # "none" => evidence[j[1]][j[2]] = "final"
    /\ \A j \in Ref : gate_jobs[j].state = "running" =>
                          worker # Idle /\ worker.job = j /\ Current(j)
    /\ \A d \in Derived : schedules[d].state \in {"none", "pending"} =>
                              gate_jobs[<<d, 0>>].state = "none"

\* A step that takes no job keeps the invariant: jobs appear for final revisions only,
\* what is running stays current and with the worker, and follow-ups do not come back.
LEMMA GateFrame ==
    ASSUME GateInv,
           \A j \in Ref : evidence[j[1]][j[2]] = "final" => evidence'[j[1]][j[2]] = "final",
           \A j \in Ref :
              /\ gate_jobs'[j].state # "none" =>
                    gate_jobs[j].state # "none" \/ evidence'[j[1]][j[2]] = "final"
              /\ gate_jobs'[j].state = "running" =>
                    /\ gate_jobs[j].state = "running"
                    /\ worker' # Idle /\ worker'.job = worker.job
                    /\ Current(j) => Current(j)',
           \A d \in Derived : schedules'[d].state \in {"none", "pending"} =>
              /\ schedules[d].state \in {"none", "pending"}
              /\ gate_jobs'[<<d, 0>>].state # "none" => gate_jobs[<<d, 0>>].state # "none"
    PROVE  GateInv'
<1>1. (\A j \in Ref : gate_jobs[j].state # "none" => evidence[j[1]][j[2]] = "final")'
  BY DEF GateInv
<1>2. (\A j \in Ref : gate_jobs[j].state = "running" =>
                          worker # Idle /\ worker.job = j /\ Current(j))'
  BY DEF GateInv
<1>3. (\A d \in Derived : schedules[d].state \in {"none", "pending"} =>
                              gate_jobs[<<d, 0>>].state = "none")'
  BY DEF GateInv
<1> QED
  BY <1>1, <1>2, <1>3 DEF GateInv

\* A step that leaves the worker and its jobs alone, and no running job's revision stale.
LEMMA GateIdleFrame ==
    ASSUME GateInv, UNCHANGED << gate_jobs, worker >>,
           \A j \in Ref : evidence[j[1]][j[2]] = "final" => evidence'[j[1]][j[2]] = "final",
           \A j \in Ref : gate_jobs[j].state = "running" /\ Current(j) => Current(j)',
           \A d \in Derived : schedules'[d].state \in {"none", "pending"} =>
                              schedules[d].state \in {"none", "pending"}
    PROVE  GateInv'
<1>1. \A j \in Ref : gate_jobs[j].state = "running" => worker # Idle
  BY DEF GateInv
<1> QED
  BY <1>1, GateFrame

\* Superseding ends the queued and running jobs of the events it visits and no other.
LEMMA SupersededJobs ==
    ASSUME TypeOK, NEW X, NEW j \in Ref
    PROVE  /\ Superseded(X)[j].state = "none" <=> gate_jobs[j].state = "none"
           /\ Superseded(X)[j].state = "running" <=> gate_jobs[j].state = "running" /\ j[1] \notin X
           /\ gate_jobs[j].state \in {"done", "superseded"} => Superseded(X)[j] = gate_jobs[j]
BY DEF Superseded, TypeOK, Job

\* What one step does to the verdicts.
VerdictsStand ==
    \A j \in Ref : gate_jobs[j].state \in {"done", "superseded"} => gate_jobs'[j] = gate_jobs[j]

\* Ingesting a revision: jobs of the event are superseded, and the new job is the first
\* of its revision.
LEMMA GateIngest ==
    ASSUME TypeOK, GateInv, NEW e \in Sensed, NEW n \in Revision,
           NEW content \in {"partial", "final"}, NEW trigger \in BOOLEAN,
           Ingest(e, n, content, trigger)
    PROVE  GateInv' /\ VerdictsStand
<1>1. /\ e \in Event /\ worker' = worker /\ evidence[e][n] = "absent"
      /\ evidence' = [evidence EXCEPT ![e][n] = content]
      /\ evidence \in [Event -> [Revision -> Content]]
  BY DEF Ingest, Event, TypeOK
<1>2. \A j \in Ref : j[1] \in Event /\ j[2] \in Revision /\ j = <<j[1], j[2]>>
  BY DEF Ref
<1>3. /\ \A j \in Ref : evidence[j[1]][j[2]] = "final" => evidence'[j[1]][j[2]] = "final"
      /\ evidence'[e][n] = content
  BY <1>1, <1>2
<1>4. CASE IsNewest(e, n)
  <2> DEFINE X == Cascade({e})
  <2>1. e \in X /\ Erase(X \ {e})
    BY <1>1, <1>4 DEF Ingest, Cascade
  <2>2. gate_jobs' = IF content = "final" /\ trigger
                     THEN [Superseded(X) EXCEPT ![<<e, n>>] = NewJob] ELSE Superseded(X)
    BY <1>4 DEF Ingest
  <2>3. gate_jobs[<<e, n>>].state = "none" /\ <<e, n>> \in Ref
    BY <1>1, <1>2 DEF GateInv, Ref
  <2>4. \A j \in Ref : j # <<e, n>> => gate_jobs'[j] = Superseded(X)[j]
    BY <2>2 DEF Superseded
  <2>5. \/ gate_jobs'[<<e, n>>] = Superseded(X)[<<e, n>>]
        \/ content = "final" /\ gate_jobs'[<<e, n>>] = NewJob
    BY <2>2, <2>3 DEF Superseded
  <2>6. \A j \in Ref : gate_jobs[j].state = "running" /\ Current(j) /\ j[1] \notin X => Current(j)'
    BY <1>1, <1>2, <2>1, CurrentSame DEF Erase
  <2>7. \A d \in Derived : schedules'[d].state \in {"none", "pending"} =>
                              schedules'[d] = schedules[d]
    BY <2>1 DEF Erase, TypeOK, Schedule
  <2>8. \A d \in Derived : <<d, 0>> \in Ref /\ <<d, 0>> # <<e, n>>
    BY LedgerAssumption DEF Ref, Event, Revision
  <2> HIDE DEF X
  <2>9. ASSUME NEW j \in Ref
        PROVE  /\ gate_jobs'[j].state # "none" =>
                      gate_jobs[j].state # "none" \/ evidence'[j[1]][j[2]] = "final"
               /\ gate_jobs'[j].state = "running" =>
                      /\ gate_jobs[j].state = "running"
                      /\ worker' # Idle /\ worker'.job = worker.job
                      /\ Current(j) => Current(j)'
               /\ gate_jobs[j].state \in {"done", "superseded"} => gate_jobs'[j] = gate_jobs[j]
    <3>1. CASE gate_jobs'[j] = Superseded(X)[j]
      BY <1>1, <2>6, <3>1, SupersededJobs DEF GateInv
    <3>2. CASE j = <<e, n>> /\ content = "final" /\ gate_jobs'[j] = NewJob
      BY <1>3, <2>3, <3>2 DEF NewJob
    <3> QED
      BY <2>4, <2>5, <3>1, <3>2
  <2>10. GateInv'
    BY <1>3, <2>4, <2>7, <2>8, <2>9, SupersededJobs, GateFrame
  <2> QED
    BY <2>9, <2>10 DEF VerdictsStand
<1>5. CASE ~IsNewest(e, n)
  <2>1. UNCHANGED << gate_jobs, schedules, tombstones >>
    BY <1>5 DEF Ingest
  <2>2. \A j \in Ref : Current(j) => Current(j)'
    BY <1>1, <1>5, <2>1, OlderRevision
  <2> QED
    BY <1>1, <1>3, <2>1, <2>2, GateIdleFrame DEF VerdictsStand
<1> QED
  BY <1>4, <1>5

\* Deletion and expiry: jobs of the events that go are superseded.
LEMMA GateDelete ==
    ASSUME TypeOK, GateInv, NEW S, DeleteAll(S)
    PROVE  GateInv' /\ VerdictsStand
<1> DEFINE X == Cascade(S)
<1>1. /\ Erase(X) /\ gate_jobs' = Superseded(X) /\ UNCHANGED << evidence, worker >>
  BY DEF DeleteAll
<1>2. \A j \in Ref : Current(j) /\ j[1] \notin X => Current(j)'
  BY <1>1, CurrentSame DEF Erase
<1>3. \A d \in Derived : schedules'[d].state \in {"none", "pending"} => schedules'[d] = schedules[d]
  BY <1>1 DEF Erase, TypeOK, Schedule
<1>4. \A d \in Derived : <<d, 0>> \in Ref
  BY LedgerAssumption DEF Ref, Event, Revision
<1> HIDE DEF X
<1>5. \A j \in Ref : gate_jobs'[j].state = "running" => worker' # Idle /\ worker'.job = worker.job
  BY <1>1, SupersededJobs DEF GateInv
<1>6. GateInv'
  BY <1>1, <1>2, <1>3, <1>4, <1>5, SupersededJobs, GateFrame
<1> QED
  BY <1>1, <1>6, SupersededJobs DEF VerdictsStand

\* Recording an event of the agent's own: it makes no current revision stale.
LEMMA GateRecord ==
    ASSUME Inv, GateInv, NEW d \in Derived, d \notin tombstones, tombstones' = tombstones,
           evidence' = [evidence EXCEPT ![d][0] = "final"],
           UNCHANGED << gate_jobs, worker, schedules >>
    PROVE  GateInv' /\ VerdictsStand
<1>1. \A j \in Ref : Current(j) => Current(j)'
  BY RecordedCurrent
<1>2. \A j \in Ref : evidence[j[1]][j[2]] = "final" => evidence'[j[1]][j[2]] = "final"
  BY DEF Inv, TypeOK, Ref
<1>3. GateInv'
  BY <1>1, <1>2, GateIdleFrame
<1> QED
  BY <1>3 DEF VerdictsStand

\* A follow-up that fires is the first to ask for its event.
LEMMA GateFire ==
    ASSUME Inv, GateInv, NEW d \in Derived, FireSchedule(d)
    PROVE  GateInv' /\ VerdictsStand
<1>1. /\ TypeOK /\ d \notin tombstones /\ schedules[d].state = "pending"
      /\ UNCHANGED << tombstones, worker >>
      /\ <<d, 0>> \in Ref
      /\ schedules' = [schedules EXCEPT ![d].state = "fired"]
  BY LedgerAssumption DEF Inv, FireSchedule, Ref, Event, Revision
<1>2. \A x \in Derived : schedules'[x].state \in {"none", "pending"} =>
                            x # d /\ schedules'[x] = schedules[x]
  BY <1>1 DEF TypeOK, Schedule
<1>3. gate_jobs[<<d, 0>>].state = "none"
  BY <1>1 DEF GateInv
<1>4. CASE Valid(schedules[d].refs)
  <2>1. /\ evidence' = [evidence EXCEPT ![d][0] = "final"]
        /\ gate_jobs' = [gate_jobs EXCEPT ![<<d, 0>>] = NewJob]
    BY <1>4 DEF FireSchedule
  <2>2. \A j \in Ref : Current(j) => Current(j)'
    BY <1>1, <2>1, RecordedCurrent
  <2>3. /\ \A j \in Ref : evidence[j[1]][j[2]] = "final" => evidence'[j[1]][j[2]] = "final"
        /\ evidence'[d][0] = "final"
    BY <1>1, <2>1 DEF TypeOK, Ref
  <2>4. \A j \in Ref : \/ gate_jobs'[j] = gate_jobs[j] /\ j # <<d, 0>>
                       \/ gate_jobs'[j] = NewJob /\ j = <<d, 0>>
    BY <1>1, <2>1 DEF TypeOK
  <2>5. ASSUME NEW j \in Ref
        PROVE  /\ gate_jobs'[j].state # "none" =>
                      gate_jobs[j].state # "none" \/ evidence'[j[1]][j[2]] = "final"
               /\ gate_jobs'[j].state = "running" =>
                      /\ gate_jobs[j].state = "running"
                      /\ worker' # Idle /\ worker'.job = worker.job
                      /\ Current(j) => Current(j)'
               /\ gate_jobs[j].state \in {"done", "superseded"} => gate_jobs'[j] = gate_jobs[j]
    BY <1>1, <1>3, <2>2, <2>3, <2>4 DEF NewJob, GateInv
  <2>6. \A x \in Derived : x # d => gate_jobs'[<<x, 0>>] = gate_jobs[<<x, 0>>]
    BY <2>4, LedgerAssumption DEF Ref, Event, Revision
  <2>7. GateInv'
    BY <1>2, <2>3, <2>5, <2>6, GateFrame
  <2> QED
    BY <2>5, <2>7 DEF VerdictsStand
<1>5. CASE ~Valid(schedules[d].refs)
  <2>1. UNCHANGED << evidence, gate_jobs >>
    BY <1>5 DEF FireSchedule
  <2>2. \A j \in Ref : Current(j)' <=> Current(j)
    BY <1>1, <2>1 DEF Current, IsNewest
  <2> QED
    BY <1>1, <1>2, <2>1, <2>2, GateIdleFrame DEF VerdictsStand
<1> QED
  BY <1>4, <1>5

\* A step of the worker or of the timers: only the job in hand changes, and the worker
\* lets go of it when it no longer runs.
LEMMA GateWorker ==
    ASSUME TypeOK, GateInv, UNCHANGED << evidence, tombstones, schedules >>,
           NEW j \in Ref, worker # Idle => worker.job = j,
           \A x \in Ref : x # j => gate_jobs'[x] = gate_jobs[x],
           gate_jobs[j].state # "none",
           gate_jobs'[j].state # "none" /\
           (gate_jobs'[j].state = "running" => worker' # Idle /\ worker'.job = j /\ Current(j))
    PROVE  GateInv'
<1>1. \A x \in Ref : Current(x)' <=> Current(x)
  BY DEF Current, IsNewest
<1>2. \A d \in Derived : <<d, 0>> \in Ref
  BY LedgerAssumption DEF Ref, Event, Revision
<1>3. (\A x \in Ref : gate_jobs[x].state # "none" => evidence[x[1]][x[2]] = "final")'
  BY DEF GateInv
<1>4. ASSUME NEW x \in Ref, gate_jobs'[x].state = "running"
      PROVE  worker' # Idle /\ worker'.job = x /\ Current(x)'
  <2>1. CASE x # j
    BY <1>4, <2>1 DEF GateInv
  <2>2. CASE x = j
    BY <1>1, <1>4, <2>2
  <2> QED
    BY <2>1, <2>2
<1>5. (\A d \in Derived : schedules[d].state \in {"none", "pending"} =>
                              gate_jobs[<<d, 0>>].state = "none")'
  BY <1>2 DEF GateInv
<1> QED
  BY <1>3, <1>4, <1>5 DEF GateInv

\* The worker's steps and those of its timers keep the invariant and the verdicts.
LEMMA GateWorkerStep ==
    ASSUME Inv, GateInv, WorkerStep \/ RetryGates \/ Restart
                         \/ \E j \in Ref : TakeJob(j) \/ BackoffOver(j)
    PROVE  GateInv' /\ VerdictsStand
<1>t. TypeOK
  BY DEF Inv
<1>1. ASSUME NEW j \in Ref, TakeJob(j) PROVE GateInv' /\ VerdictsStand
  <2>1. /\ worker = Idle /\ gate_jobs[j].state = "queued"
        /\ UNCHANGED << evidence, tombstones, schedules >>
        /\ \A x \in Ref : x # j => gate_jobs'[x] = gate_jobs[x]
    BY <1>1, <1>t DEF TakeJob, OutsideGate, TypeOK
  <2>2. evidence[j[1]][j[2]] = "final"
    BY <2>1 DEF GateInv
  <2>3. CASE Stored(j[1]) /\ IsNewest(j[1], j[2])
    <3>1. /\ gate_jobs'[j].state = "running"
          /\ worker' = [pc |-> "deciding", job |-> j]
      BY <1>1, <1>t, <2>3 DEF TakeJob, TypeOK, Job
    <3>2. Current(j) /\ worker' # Idle /\ worker'.job = j
      BY <2>2, <2>3, <3>1 DEF Current, Stored, Idle
    <3> QED
      BY <1>t, <2>1, <3>1, <3>2, GateWorker DEF VerdictsStand
  <2>4. CASE ~(Stored(j[1]) /\ IsNewest(j[1], j[2]))
    <3>1. gate_jobs'[j].state = "superseded"
      BY <1>1, <1>t, <2>4 DEF TakeJob, TypeOK, Job
    <3> QED
      BY <1>t, <2>1, <3>1, GateWorker DEF VerdictsStand
  <2> QED
    BY <2>3, <2>4
<1>2. ASSUME NEW j \in Ref, BackoffOver(j) PROVE GateInv' /\ VerdictsStand
  <2>1. /\ gate_jobs[j].state = "queued" /\ worker' = worker
        /\ UNCHANGED << evidence, tombstones, schedules >>
        /\ \A x \in Ref : x # j => gate_jobs'[x] = gate_jobs[x]
        /\ gate_jobs'[j].state = "queued"
    BY <1>2, <1>t DEF BackoffOver, OutsideGate, TypeOK, Job
  <2>2. \A x \in Ref : gate_jobs'[x].state = gate_jobs[x].state
    BY <2>1
  <2>3. \A x \in Ref : Current(x)' <=> Current(x)
    BY <2>1 DEF Current, IsNewest
  <2>4. \A x \in Ref : gate_jobs[x].state = "running" => worker # Idle
    BY DEF GateInv
  <2>5. \A d \in Derived : <<d, 0>> \in Ref
    BY LedgerAssumption DEF Ref, Event, Revision
  <2> QED
    BY <2>1, <2>2, <2>3, <2>4, <2>5, GateFrame DEF VerdictsStand
<1>3. CASE AskCamera
  <2>1. /\ worker # Idle /\ worker.job \in Ref /\ GateCurrent(worker.job)
        /\ UNCHANGED << evidence, tombstones, schedules, gate_jobs >>
        /\ worker' # Idle /\ worker'.job = worker.job
    BY <1>3, <1>t, DecidedJob DEF AskCamera, Decided, OutsideGate, Idle, TypeOK
  <2> QED
    BY <1>t, <2>1, GateWorker DEF VerdictsStand, GateCurrent
<1>4. ASSUME NEW state \in {"done", "failed", "queued"}, worker # Idle, GateCurrent(worker.job),
             UNCHANGED << evidence, tombstones, schedules >>,
             \A x \in Ref : x # worker.job => gate_jobs'[x] = gate_jobs[x],
             gate_jobs'[worker.job].state = state
      PROVE  GateInv' /\ VerdictsStand
  <2>1. worker.job \in Ref /\ gate_jobs[worker.job].state = "running"
    BY <1>4, <1>t, DecidedJob DEF GateCurrent
  <2> QED
    BY <1>4, <1>t, <2>1, GateWorker DEF VerdictsStand
<1>5. ASSUME NEW pcs \in SUBSET {"deciding", "camera"}, Decided(pcs), FinishJob
      PROVE  GateInv' /\ VerdictsStand
  <2>1. worker # Idle /\ worker.job \in Ref /\ GateCurrent(worker.job)
    BY <1>5, <1>t, DecidedJob DEF Decided, Idle
  <2>2. /\ UNCHANGED << evidence, tombstones, schedules >>
        /\ \A x \in Ref : x # worker.job => gate_jobs'[x] = gate_jobs[x]
        /\ gate_jobs'[worker.job].state = "done"
    BY <1>5, <1>t, <2>1 DEF FinishJob, OutsideGate, TypeOK, Job
  <2> QED
    BY <1>4, <2>1, <2>2
<1>6. CASE DecideObserve \/ DecideStart \/ \E t \in Root : DecideUpdate(t) \/ DecideCancel(t)
  BY <1>5, <1>6 DEF DecideObserve, DecideStart, DecideUpdate, DecideCancel
<1>7. CASE DecideStale
  <2>1. /\ worker # Idle /\ worker.job \in Ref /\ ~GateCurrent(worker.job)
        /\ UNCHANGED << evidence, tombstones, schedules, gate_jobs >>
    BY <1>7, <1>t, DecidedJob DEF DecideStale, OutsideGate
  <2>2. \A x \in Ref : gate_jobs[x].state # "running"
    BY <2>1 DEF GateInv, GateCurrent
  <2> QED
    BY <2>1, <2>2, GateFrame DEF VerdictsStand
<1>8. CASE DecideFail
  <2>1. worker # Idle /\ worker.job \in Ref /\ GateCurrent(worker.job)
    BY <1>8, <1>t, DecidedJob DEF DecideFail, Decided, Idle
  <2>2. PICK state \in {"failed", "queued"} :
            gate_jobs' = [gate_jobs EXCEPT ![worker.job].state = state, ![worker.job].due = FALSE]
    BY <1>8 DEF DecideFail
  <2>3. /\ UNCHANGED << evidence, tombstones, schedules >>
        /\ \A x \in Ref : x # worker.job => gate_jobs'[x] = gate_jobs[x]
        /\ gate_jobs'[worker.job].state = state
    BY <1>8, <1>t, <2>1, <2>2 DEF DecideFail, OutsideGate, TypeOK, Job
  <2> QED
    BY <1>4, <2>1, <2>3
<1>9. ASSUME UNCHANGED << evidence, tombstones, schedules >>,
             \A x \in Ref : \/ gate_jobs'[x] = gate_jobs[x] /\ gate_jobs[x].state # "running"
                            \/ /\ gate_jobs[x].state \in {"failed", "running"}
                               /\ gate_jobs'[x].state = "queued"
                            \/ /\ gate_jobs[x].state = "running" /\ worker' = worker
                               /\ gate_jobs'[x] = gate_jobs[x]
      PROVE  GateInv' /\ VerdictsStand
  <2>1. \A x \in Ref : Current(x)' <=> Current(x)
    BY <1>9 DEF Current, IsNewest
  <2>2. \A d \in Derived : <<d, 0>> \in Ref
    BY LedgerAssumption DEF Ref, Event, Revision
  <2>3. \A x \in Ref : gate_jobs[x].state = "running" => worker # Idle
    BY DEF GateInv
  <2>4. GateInv'
    BY <1>9, <2>1, <2>2, <2>3, GateFrame
  <2> QED
    BY <1>9, <2>4 DEF VerdictsStand
<1>10. CASE RetryGates
  BY <1>9, <1>10, <1>t DEF RetryGates, NewJob, TypeOK
<1>11. CASE Restart
  <2>1. \A x \in Ref : \/ gate_jobs'[x] = gate_jobs[x] /\ gate_jobs[x].state # "running"
                       \/ gate_jobs[x].state = "running" /\ gate_jobs'[x].state = "queued"
    BY <1>11, <1>t DEF Restart, TypeOK, Job
  <2> QED
    BY <1>9, <1>11, <2>1 DEF Restart
<1> QED
  BY <1>1, <1>2, <1>3, <1>6, <1>7, <1>8, <1>10, <1>11 DEF WorkerStep

\* Every step keeps the worker's invariant and takes back no verdict.
LEMMA GateStep == Inv /\ GateInv /\ [Next]_vars => GateInv' /\ VerdictsStand
<1> SUFFICES ASSUME Inv, GateInv, [Next]_vars PROVE GateInv' /\ VerdictsStand
  OBVIOUS
<1>t. TypeOK
  BY DEF Inv
<1>1. ASSUME UNCHANGED << evidence, tombstones, gate_jobs, worker >>,
             \A d \in Derived : schedules'[d].state \in {"none", "pending"} =>
                                schedules[d].state \in {"none", "pending"}
      PROVE  GateInv' /\ VerdictsStand
  <2>1. \A r \in Ref : Current(r)' <=> Current(r)
    BY <1>1 DEF Current, IsNewest
  <2>2. GateInv'
    BY <1>1, <2>1, GateIdleFrame
  <2> QED
    BY <1>1, <2>2 DEF VerdictsStand
<1>2. ASSUME NEW t \in Task, PurgeTask(t) PROVE GateInv' /\ VerdictsStand
  <2>1. \A d \in Derived : schedules'[d].state \in {"none", "pending"} =>
                           schedules[d].state \in {"none", "pending"}
    BY <1>2, <1>t DEF PurgeTask, TypeOK, Schedule
  <2> QED
    BY <1>1, <1>2, <2>1 DEF PurgeTask
<1>3. ASSUME NEW t \in Task, NEW d \in Derived, NEW r \in Ref, Followup(t, d, r)
      PROVE  GateInv' /\ VerdictsStand
  <2>1. \A x \in Derived : schedules'[x].state \in {"none", "pending"} =>
                           schedules[x].state \in {"none", "pending"}
    BY <1>3, <1>t DEF Followup, Fresh, TypeOK
  <2> QED
    BY <1>1, <1>3, <2>1 DEF Followup
<1>4. ASSUME NEW t, NEW x, \/ Bind(t, x) \/ CallRunner(t, x) \/ CallEnds(t, x)
                           \/ BeginArtifact(t, x) \/ Spawn(t, x) \/ Finish(t, x)
                           \/ EndTask(t) \/ CancelTask(t) \/ Acknowledge(t) \/ Forget(t)
                           \/ AbortInvalidRuns
      PROVE  GateInv' /\ VerdictsStand
  BY <1>1, <1>4 DEF Bind, CallRunner, CallEnds, BeginArtifact, Spawn, Finish, EndTask, CancelTask,
                    Acknowledge, Forget, AbortInvalidRuns
<1>5. ASSUME NEW t \in Task, NEW d \in Derived, NEW by, Recorded(t, d, by)
      PROVE  GateInv' /\ VerdictsStand
  <2>1. CASE d \in tombstones
    BY <1>1, <1>5, <2>1 DEF Recorded
  <2>2. CASE d \notin tombstones
    BY <1>5, <2>2, GateRecord DEF Recorded
  <2> QED
    BY <2>1, <2>2
<1>6. ASSUME NEW t \in Task, NEW d \in Derived, RecordTool(t, d) \/ SaveArtifact(t, d)
      PROVE  GateInv' /\ VerdictsStand
  BY <1>5, <1>6 DEF RecordTool, SaveArtifact
<1>7. ASSUME NEW t \in Task, NEW m \in Memory, NEW r \in Ref, NEW d \in Derived,
             Remember(t, m, r, d)
      PROVE  GateInv' /\ VerdictsStand
  BY <1>7, GateRecord DEF Remember, Fresh
<1>8. CASE UNCHANGED vars
  BY <1>1, <1>8 DEF vars
<1>9. ASSUME NEW S, DeleteAll(S) PROVE GateInv' /\ VerdictsStand
  BY <1>9, <1>t, GateDelete
<1>10. CASE IngestSome
  BY <1>10, <1>t, GateIngest DEF IngestSome
<1>11. CASE ToolStep
  BY <1>3, <1>4, <1>6, <1>7, <1>11 DEF ToolStep
<1>12. CASE OperatorStep
  BY <1>4, <1>9, <1>12, GateWorkerStep DEF OperatorStep, DeleteEvidence
<1>13. CASE TimerStep
  BY <1>2, <1>4, <1>13, GateFire, GateWorkerStep DEF TimerStep
<1>14. CASE MaintainStep
  BY <1>9, <1>14 DEF MaintainStep, Maintain
<1>15. CASE WorkerStep \/ Restart
  BY <1>15, GateWorkerStep
<1> QED
  BY <1>8, <1>10, <1>11, <1>12, <1>13, <1>14, <1>15 DEF Next

\* The worker's invariant holds initially and always.
LEMMA GateAlways == Spec => []GateInv
<1>1. Init => GateInv
  BY LedgerAssumption DEF Init, GateInv, NoJob, Ref, Event, Revision
<1>2. Inv /\ GateInv /\ [Next]_vars => GateInv'
  BY GateStep
<1> QED
  BY InvAlways, <1>1, <1>2, PTL DEF Spec

\* A job is `running' only while the worker holds it: failures, late answers, newer
\* revisions, deletions and restarts strand none.
THEOREM NoJobIsStranded == Spec => []RunningJobHasWorker
<1>1. GateInv => RunningJobHasWorker
  BY DEF GateInv, RunningJobHasWorker
<1> QED
  BY GateAlways, <1>1, PTL

\* What was classified or superseded is never classified again.
THEOREM VerdictsAreFinal == Spec => VerdictIsFinal
<1>1. Inv /\ GateInv /\ [Next]_vars =>
        [\A j \in Ref : gate_jobs[j].state \in {"done", "superseded"}
                        => gate_jobs'[j] = gate_jobs[j]]_vars
  BY GateStep DEF VerdictsStand
<1> QED
  BY InvAlways, GateAlways, <1>1, PTL DEF Spec, VerdictIsFinal

=============================================================================
