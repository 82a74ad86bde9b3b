--------------------------- MODULE EvidenceLedger ---------------------------
(***************************************************************************)
(* The agent's evidence ledger (agent/src/store.ts) and the classification *)
(* worker that reads it (Harness.classify in agent/src/harness.ts).        *)
(*                                                                         *)
(* Perception events are stored by id and revision.  Everything the agent  *)
(* derives from them - tasks, memories, notifications, and evidence that   *)
(* tools record - is tied to the exact revisions it rests on by rows of    *)
(* the table `dependencies'.  A newer revision, a deletion or the expiry   *)
(* of an event has to reach everything that was derived from it, while     *)
(* the classifier, the tools and the operator keep working.                *)
(*                                                                         *)
(* One owner.  Text, times and confidence are left out; the two contents   *)
(* an event can have are "partial" and "final".                            *)
(***************************************************************************)
EXTENDS Naturals, FiniteSets

CONSTANTS
    Sensed,         \* event ids posted by devices
    Derived,        \* event ids the agent records itself: tool-<call>, schedule-<call>
    Child,          \* ids of subagent tasks
    Memory,         \* ids of the versions of one memory key
    MaxRevision,    \* bound on the revisions of a sensed event
    MaxAttempts,    \* failGate's maxAttempts (5 in the code)
    MaxActiveRoots, \* classify's limit on active root tasks (16 in the code)
    MaxRestarts,    \* bound on process restarts
    MaxRetries,     \* bound on explicit retries by the operator
    Artifacts,      \* do tools save artifacts (two file awaits before recording)?
    NoRef           \* no evidence reference

VARIABLES
    evidence,     \* evidence[e][n]: "absent", or the content of revision n
    tombstones,   \* ids whose evidence was deleted
    gate_jobs,    \* gate_jobs[r]: the classification job of revision r
    worker,       \* the single classification in progress
    tasks,        \* tasks[t]: status; a root task is named by its gate job
    parent,       \* parent[c]: the root task that spawned child c
    memories,     \* memories[m]: "absent", "active" or "inactive"
    notices,      \* notices[t]: state of notification result:<t>
    dependencies, \* rows <<kind, subject, ref>>
    schedules,    \* schedules[d]: follow-up that will be recorded as event d
    calls,        \* <<t, d>>: task t awaits the runner, whose result would be event d
    saving,       \* <<t, d>>: task t awaits the file that event d will describe
    late,         \* history: <<d, by>>, event d recorded for a task no longer active
    expired,      \* history: events that retention deleted
    restarts,
    retries

vars == << evidence, tombstones, gate_jobs, worker, tasks, parent, memories,
           notices, dependencies, schedules, calls, saving, late, expired, restarts, retries >>

-----------------------------------------------------------------------------
(* Types and null records *)

Event == Sensed \cup Derived
Revision == 0 .. MaxRevision
Ref == Event \X Revision
Root == Ref
Task == Root \cup Child
Content == {"absent", "partial", "final"}
Status == {"absent", "active", "ended", "cancelled", "purged"}
Job == [state : {"none", "queued", "running", "done", "failed", "superseded"},
        attempts : Nat, due : BOOLEAN]
Schedule == [state : {"none", "pending", "fired", "deleted"},
             task : Task \cup {NoRef}, refs : SUBSET Ref]
Kind == {"task", "memory", "notification", "derived_evidence"}
Subject == Task \cup Memory \cup Derived

NoJob == [state |-> "none", attempts |-> 0, due |-> FALSE]
NewJob == [state |-> "queued", attempts |-> 0, due |-> TRUE]
NoSchedule == [state |-> "none", task |-> NoRef, refs |-> {}]
Idle == [pc |-> "idle", job |-> NoRef]

ASSUME LedgerAssumption ==
    /\ Sensed \cap Derived = {}
    /\ Child \cap Ref = {}
    /\ NoRef \notin Task
    /\ MaxRevision \in Nat
    /\ MaxAttempts \in Nat \ {0}
    /\ MaxActiveRoots \in Nat
    /\ MaxRestarts \in Nat
    /\ MaxRetries \in Nat
    /\ Artifacts \in BOOLEAN

TypeOK ==
    /\ evidence \in [Event -> [Revision -> Content]]
    /\ tombstones \in SUBSET Event
    /\ gate_jobs \in [Ref -> Job]
    /\ worker \in {Idle} \cup [pc : {"deciding", "camera"}, job : Ref]
    /\ tasks \in [Task -> Status]
    /\ parent \in [Child -> Root \cup {NoRef}]
    /\ memories \in [Memory -> {"absent", "active", "inactive"}]
    /\ notices \in [Root -> {"absent", "pending", "acked", "withdrawn"}]
    /\ dependencies \in SUBSET (Kind \X Subject \X Ref)
    /\ schedules \in [Derived -> Schedule]
    /\ calls \in SUBSET (Task \X Derived)
    /\ saving \in SUBSET (Task \X Derived)
    /\ late \in SUBSET (Derived \X {"call", "file"})
    /\ expired \in SUBSET Event
    /\ restarts \in Nat
    /\ retries \in Nat

Init ==
    /\ evidence = [e \in Event |-> [n \in Revision |-> "absent"]]
    /\ tombstones = {}
    /\ gate_jobs = [r \in Ref |-> NoJob]
    /\ worker = Idle
    /\ tasks = [t \in Task |-> "absent"]
    /\ parent = [c \in Child |-> NoRef]
    /\ memories = [m \in Memory |-> "absent"]
    /\ notices = [t \in Root |-> "absent"]
    /\ dependencies = {}
    /\ schedules = [d \in Derived |-> NoSchedule]
    /\ calls = {}
    /\ saving = {}
    /\ late = {}
    /\ expired = {}
    /\ restarts = 0
    /\ retries = 0

-----------------------------------------------------------------------------
(* Reading the ledger *)

\* latest(): some revision is stored and the event is not deleted
Stored(e) == e \notin tombstones /\ \E n \in Revision : evidence[e][n] # "absent"

\* no revision newer than n is stored
IsNewest(e, n) == \A k \in Revision : k > n => evidence[e][k] = "absent"

\* valid() for one reference: the latest revision, final, not deleted
Current(r) ==
    /\ r[1] \notin tombstones
    /\ evidence[r[1]][r[2]] = "final"
    /\ IsNewest(r[1], r[2])

\* valid(): a non-empty set of references, all current
Valid(R) == R # {} /\ \A r \in R : Current(r)

\* refs(): the rows of one subject
Refs(kind, s) == {r \in Ref : <<kind, s, r>> \in dependencies}

\* depend(): INSERT OR IGNORE one row per reference
Rows(kind, s, R) == {<<kind, s, r>> : r \in R}

\* bind(): a tool ties evidence to its task and to the root of the tree
RootOf(t) == IF t \in Child THEN parent[t] ELSE t
Bound_ParentId(t, R) ==     \* mutant: parent_id, null for a root, in place of root_id
    Rows("task", t, R) \cup Rows("task", IF t \in Child THEN parent[t] ELSE NoRef, R)

Bound(t, R) == Rows("task", t, R) \cup Rows("task", RootOf(t), R)

\* GateJob rows that may still decide something
GateCurrent(j) == gate_jobs[j].state = "running" /\ Current(j)

ActiveRoots == {t \in Root : tasks[t] = "active"}
-----------------------------------------------------------------------------
(* Invalidation *)

\* the subjects of one kind with a row on some event of X, at any revision
Dependents(kind, X) ==
    {s \in Subject : \E r \in Ref : r[1] \in X /\ <<kind, s, r>> \in dependencies}

\* the run of t awaits the runner or a file
Waiting(t) == \E d \in Derived : <<t, d>> \in calls \cup saving

\* the run of t takes its next step: it is one loop, and checkTask() lets only an
\* active task go on
Runs(t) == tasks[t] = "active" /\ ~Waiting(t)

\* S holds every live derived event that rests on a member of S
ClosedUnderDerivation(S) ==
    \A d \in Derived : Stored(d) /\ Refs("derived_evidence", d) \cap (S \X Revision) # {}
                      => d \in S

\* deleteEvidence() calls invalidate(), which calls deleteEvidence() on the live
\* evidence derived from the event: all that this recursion visits from X
Cascade(X) ==
    {e \in Event : \A S \in SUBSET Event : X \subseteq S /\ ClosedUnderDerivation(S) => e \in S}

\* cancel(): id = T or root_id = T
Family(T) == {t \in Task : t \in T \/ RootOf(t) \in T}

Cancelled(F) ==
    [t \in Task |-> IF t \in F /\ tasks[t] = "active" THEN "cancelled" ELSE tasks[t]]

\* cancel() and invalidate() withdraw a notification whatever its state
Withdrawn(F) ==
    [t \in Root |-> IF t \in F /\ notices[t] # "absent" THEN "withdrawn" ELSE notices[t]]

CancelFamily(T) ==
    /\ tasks' = Cancelled(Family(T))
    /\ notices' = Withdrawn(Family(T))

\* cancelInvalidRuns(): the abort signal of a run whose task is not active fires,
\* and the result it was waiting for will be dropped.  The calls that are left
\* when the tasks are T.
CancelInvalidRuns_Never(T) == calls     \* mutant: no run is aborted

CancelInvalidRuns(T) == {c \in calls : T[c[1]] = "active"}

\* the trees that invalidate() cancels for the events X
HitFamily(X) == Family({RootOf(t) : t \in Dependents("task", X)})

Superseded(X) ==
    [r \in Ref |-> IF r[1] \in X /\ gate_jobs[r].state \in {"queued", "running"}
                  THEN [gate_jobs[r] EXCEPT !.state = "superseded"] ELSE gate_jobs[r]]

\* invalidate(), for every event the recursion visits
Invalidate(X) ==
    /\ tasks' = Cancelled(HitFamily(X))
    /\ notices' = Withdrawn(HitFamily(X) \cup Dependents("notification", X))
    /\ memories' = [m \in Memory |-> IF m \in Dependents("memory", X) /\ memories[m] = "active"
                                     THEN "inactive" ELSE memories[m]]

\* the part of deleteEvidence() that is not invalidate(): tombstones, and the
\* follow-ups of every task tree that rested on a deleted event
Erase(D) ==
    /\ tombstones' = tombstones \cup D
    /\ schedules' = [d \in Derived |->
            IF schedules[d].task \in HitFamily(D)
            THEN [schedules[d] EXCEPT !.state = "deleted"] ELSE schedules[d]]

-----------------------------------------------------------------------------
(* Ingestion, deletion and retention *)

Ingest_FinalOnly(e, n, content, trigger) ==  \* mutant: a partial correction reaches nothing
    /\ e \notin tombstones
    /\ evidence[e][n] = "absent"
    /\ evidence' = [evidence EXCEPT ![e][n] = content]
    /\ IF IsNewest(e, n) /\ content = "final"
       THEN LET X == Cascade({e})
            IN  /\ Invalidate(X)
                /\ Erase(X \ {e})
                /\ gate_jobs' = IF trigger THEN [Superseded(X) EXCEPT ![<<e, n>>] = NewJob]
                                ELSE Superseded(X)
       ELSE UNCHANGED << tasks, notices, memories, tombstones, schedules, gate_jobs >>
    /\ calls' = CancelInvalidRuns(tasks')
    /\ UNCHANGED << worker, parent, dependencies, saving, late, expired, restarts, retries >>

\* Harness.ingest() of a new revision.  Repeated revisions, changed contents and
\* deleted ids change nothing, so they have no step here.
Ingest(e, n, content, trigger) ==
    /\ e \notin tombstones
    /\ evidence[e][n] = "absent"
    /\ evidence' = [evidence EXCEPT ![e][n] = content]
    /\ IF IsNewest(e, n)
       THEN LET X == Cascade({e})
            IN  /\ Invalidate(X)
                /\ Erase(X \ {e})
                /\ gate_jobs' = IF content = "final" /\ trigger
                                THEN [Superseded(X) EXCEPT ![<<e, n>>] = NewJob]
                                ELSE Superseded(X)
       ELSE UNCHANGED << tasks, notices, memories, tombstones, schedules, gate_jobs >>
    /\ calls' = CancelInvalidRuns(tasks')
    /\ UNCHANGED << worker, parent, dependencies, saving, late, expired, restarts, retries >>

DeleteAll(S) ==
    /\ Invalidate(Cascade(S))
    /\ Erase(Cascade(S))
    /\ gate_jobs' = Superseded(Cascade(S))
    /\ UNCHANGED << evidence, worker, parent, dependencies, saving, late, restarts, retries >>

\* DELETE /v1/evidence/:id
DeleteEvidence(e) ==
    /\ DeleteAll({e})
    /\ calls' = CancelInvalidRuns(tasks')
    /\ UNCHANGED expired

\* "Keep source evidence for active memories, tasks and unfired intentions"
Pinned(e) ==
    \/ \E m \in Dependents("memory", {e}) : memories[m] = "active"
    \/ \E t \in Dependents("task", {e}) :
          \/ tasks[t] = "active"
          \/ \E d \in Derived : schedules[d].task = t /\ schedules[d].state = "pending"

\* maintain(): the events of S are past the retention window.  The window is
\* left out, so any unpinned events may be the expired ones.  The tasks that the
\* cascade cancels keep their runs until the next pump.
Maintain(S) ==
    /\ S # {}
    /\ \A e \in S : Stored(e) /\ ~Pinned(e)
    /\ DeleteAll(S)
    /\ expired' = expired \cup Cascade(S)
    /\ UNCHANGED calls

\* cancelInvalidRuns() as pump() calls it
AbortInvalidRuns ==
    /\ CancelInvalidRuns(tasks) # calls
    /\ calls' = CancelInvalidRuns(tasks)
    /\ UNCHANGED << evidence, tombstones, gate_jobs, worker, tasks, parent, memories, notices,
                    dependencies, schedules, saving, late, expired, restarts, retries >>

\* maintain(): an old task that ended goes with its rows
PurgeTask(t) ==
    /\ tasks[t] \in {"ended", "cancelled"}
    /\ ~\E d \in Derived : schedules[d].task = t /\ schedules[d].state = "pending"
    /\ ~Waiting(t)
    /\ tasks' = [tasks EXCEPT ![t] = "purged"]
    /\ notices' = [x \in Root |-> IF x = t THEN "absent" ELSE notices[x]]
    /\ schedules' = [d \in Derived |-> IF schedules[d].task = t
                                       THEN [schedules[d] EXCEPT !.state = "deleted"]
                                       ELSE schedules[d]]
    /\ dependencies' = dependencies \ Rows("task", t, Ref)
    /\ UNCHANGED << evidence, tombstones, gate_jobs, worker, parent, memories,
                    calls, saving, late, expired, restarts, retries >>

-----------------------------------------------------------------------------
(* What running tasks do to the ledger *)

\* an id under which nothing was recorded or planned
Fresh(d) ==
    /\ ~Stored(d) /\ d \notin tombstones
    /\ schedules[d].state = "none"
    /\ ~\E t \in Task : <<t, d>> \in calls \cup saving

\* the rows recordEvidence() adds for event d of task t, whose other rows are R
RecordedRows(t, d, R) ==
    Rows("derived_evidence", d, R \ {<<d, 0>>}) \cup Bound(t, {<<d, 0>>})

\* a tool that reads evidence: it binds what it returns
Bind(t, r) ==
    /\ Runs(t)
    /\ Current(r)
    /\ dependencies' = dependencies \cup Bound(t, {r})
    /\ UNCHANGED << evidence, tombstones, gate_jobs, worker, tasks, parent, memories,
                    notices, schedules, calls, saving, late, expired, restarts, retries >>

\* run(): a tool awaits the runner; its result will be event d
CallRunner(t, d) ==
    /\ Runs(t)
    /\ Fresh(d)
    /\ calls' = calls \cup {<<t, d>>}
    /\ UNCHANGED << evidence, tombstones, gate_jobs, worker, tasks, parent, memories,
                    notices, dependencies, schedules, saving, late, expired, restarts, retries >>

\* recordEvidence(): the sources are those the task has now, whatever became of it.
\* A deleted id is refused by ingest().
Recorded(t, d, by) ==
    /\ IF d \in tombstones
       THEN UNCHANGED << evidence, dependencies, late >>
       ELSE /\ evidence' = [evidence EXCEPT ![d][0] = "final"]
            /\ dependencies' = dependencies \cup RecordedRows(t, d, Refs("task", t))
            /\ late' = IF tasks[t] = "active" THEN late ELSE late \cup {<<d, by>>}
    /\ UNCHANGED << tombstones, gate_jobs, worker, tasks, parent, memories,
                    notices, schedules, expired, restarts, retries >>

\* the runner answered and the signal did not fire: the result is recorded
\* without a look at the task
RecordTool(t, d) ==
    /\ <<t, d>> \in calls
    /\ calls' = calls \ {<<t, d>>}
    /\ Recorded(t, d, "call")
    /\ UNCHANGED saving

\* the call failed, or its result is not evidence
CallEnds(t, d) ==
    /\ <<t, d>> \in calls
    /\ calls' = calls \ {<<t, d>>}
    /\ UNCHANGED << evidence, tombstones, gate_jobs, worker, tasks, parent, memories,
                    notices, dependencies, schedules, saving, late, expired, restarts, retries >>

\* the runner answered with a file; mkdir and writeFile are awaited next
BeginArtifact(t, d) ==
    /\ Artifacts
    /\ <<t, d>> \in calls
    /\ calls' = calls \ {<<t, d>>}
    /\ saving' = saving \cup {<<t, d>>}
    /\ UNCHANGED << evidence, tombstones, gate_jobs, worker, tasks, parent, memories,
                    notices, dependencies, schedules, late, expired, restarts, retries >>

\* the file is written: the evidence is recorded without a look at the signal or
\* the task
SaveArtifact(t, d) ==
    /\ <<t, d>> \in saving
    /\ saving' = saving \ {<<t, d>>}
    /\ Recorded(t, d, "file")
    /\ UNCHANGED calls

\* the tool `remember': bind, a new version of the key, and a receipt event d
Remember(t, m, r, d) ==
    /\ Runs(t)
    /\ Current(r)
    /\ memories[m] = "absent"
    /\ Fresh(d)
    /\ memories' = [x \in Memory |-> IF x = m THEN "active"
                                     ELSE IF memories[x] = "active" THEN "inactive"
                                     ELSE memories[x]]
    /\ evidence' = [evidence EXCEPT ![d][0] = "final"]
    /\ dependencies' = dependencies \cup Bound(t, {r}) \cup Rows("memory", m, {r})
                       \cup RecordedRows(t, d, Refs("task", t) \cup {r})
    /\ UNCHANGED << tombstones, gate_jobs, worker, tasks, parent, notices, schedules,
                    calls, saving, late, expired, restarts, retries >>

\* forget(): every version of the key goes, and the trees that cite its sources stop
Forget(m) ==
    /\ memories[m] = "active"
    /\ Valid(Refs("memory", m))
    /\ CancelFamily({RootOf(t) : t \in {x \in Task :
                            Refs("task", x) \cap Refs("memory", m) # {}}})
    /\ memories' = [x \in Memory |-> IF memories[x] = "active" THEN "inactive" ELSE memories[x]]
    /\ UNCHANGED << evidence, tombstones, gate_jobs, worker, parent, dependencies,
                    schedules, calls, saving, late, expired, restarts, retries >>

\* the tool `schedule_followup'
Followup(t, d, r) ==
    /\ Runs(t)
    /\ Current(r)
    /\ Fresh(d)
    /\ dependencies' = dependencies \cup Bound(t, {r})
    /\ schedules' = [schedules EXCEPT ![d] = [state |-> "pending", task |-> t, refs |-> {r}]]
    /\ UNCHANGED << evidence, tombstones, gate_jobs, worker, tasks, parent, memories,
                    notices, calls, saving, late, expired, restarts, retries >>

\* fireSchedules(): a due follow-up re-enters classification if its sources still hold
FireSchedule(d) ==
    /\ schedules[d].state = "pending"
    /\ d \notin tombstones
    /\ schedules' = [schedules EXCEPT ![d].state = "fired"]
    /\ IF Valid(schedules[d].refs)
       THEN /\ evidence' = [evidence EXCEPT ![d][0] = "final"]
            /\ gate_jobs' = [gate_jobs EXCEPT ![<<d, 0>>] = NewJob]
            /\ dependencies' = dependencies \cup Rows("derived_evidence", d, schedules[d].refs)
       ELSE UNCHANGED << evidence, gate_jobs, dependencies >>
    /\ UNCHANGED << tombstones, worker, tasks, parent, memories, notices, calls, saving, late, expired, restarts, retries >>

\* spawn(): the child starts from the references of its parent
Spawn(t, c) ==
    /\ t \in Root
    /\ Runs(t)
    /\ tasks[c] = "absent"
    /\ Cardinality({x \in Child : parent[x] = t}) < 2
    /\ Valid(Refs("task", t))
    /\ tasks' = [tasks EXCEPT ![c] = "active"]
    /\ parent' = [parent EXCEPT ![c] = t]
    /\ dependencies' = dependencies \cup Rows("task", c, Refs("task", t))
    /\ UNCHANGED << evidence, tombstones, gate_jobs, worker, memories, notices,
                    schedules, calls, saving, late, expired, restarts, retries >>

\* a task ends without a notification, or its deadline interrupts the runner's call;
\* run() then cancels what is left of its tree
EndTask(t) ==
    /\ tasks[t] = "active"
    /\ ~\E d \in Derived : <<t, d>> \in saving
    /\ tasks' = [x \in Task |-> IF x = t THEN "ended"
                                ELSE IF RootOf(x) = t /\ tasks[x] = "active" THEN "cancelled"
                                ELSE tasks[x]]
    /\ calls' = {c \in IF \E x \in Child : RootOf(x) = t /\ tasks[x] = "active"
                       THEN CancelInvalidRuns(tasks') ELSE calls : c[1] # t}
    /\ UNCHANGED << evidence, tombstones, gate_jobs, worker, parent, memories, notices,
                    dependencies, schedules, saving, late, expired, restarts, retries >>

\* `finish' after the delivery review of a text that cites r
Finish(t, r) ==
    /\ t \in Root
    /\ Runs(t)
    /\ \A c \in Child : parent[c] = t => tasks[c] # "active"
    /\ r \in Refs("task", t)
    /\ Valid(Refs("task", t))
    /\ tasks' = [tasks EXCEPT ![t] = "ended"]
    /\ notices' = [notices EXCEPT ![t] = IF @ = "absent" THEN "pending" ELSE @]
    /\ dependencies' = dependencies \cup Rows("notification", t, {r})
    /\ UNCHANGED << evidence, tombstones, gate_jobs, worker, parent, memories,
                    schedules, calls, saving, late, expired, restarts, retries >>

\* the operator, a deadline or cancel_subagent; when a reminder's wake task is
\* cancelled with it, no run is aborted until the next pump
CancelTask(t) ==
    /\ tasks[t] \notin {"absent", "purged"}
    /\ CancelFamily({t})
    /\ calls' \in {CancelInvalidRuns(tasks'), calls}
    /\ UNCHANGED << evidence, tombstones, gate_jobs, worker, parent, memories,
                    dependencies, schedules, saving, late, expired, restarts, retries >>

\* the client acknowledges, or the notification expires
Acknowledge(t) ==
    /\ notices[t] = "pending"
    /\ \E state \in {"acked", "withdrawn"} : notices' = [notices EXCEPT ![t] = state]
    /\ UNCHANGED << evidence, tombstones, gate_jobs, worker, tasks, parent, memories,
                    dependencies, schedules, calls, saving, late, expired, restarts, retries >>
-----------------------------------------------------------------------------
(* The classification worker *)

\* what every step of the worker after the first leaves alone
OutsideGate == << evidence, tombstones, parent, memories, schedules, saving, late, expired,
                  restarts, retries >>

\* nextGate() and the first lines of classify(), up to the call of the classifier.
\* retryGates() may have queued a revision that is no longer the latest.
TakeJob(j) ==
    /\ worker = Idle
    /\ gate_jobs[j].state = "queued" /\ gate_jobs[j].due
    /\ LET latest == Stored(j[1]) /\ IsNewest(j[1], j[2])
       IN  /\ gate_jobs' = [gate_jobs EXCEPT ![j].state = IF latest THEN "running" ELSE "superseded",
                                            ![j].attempts = @ + 1]
           /\ worker' = IF latest THEN [pc |-> "deciding", job |-> j] ELSE Idle
    /\ UNCHANGED << tasks, notices, dependencies, calls >> /\ UNCHANGED OutsideGate

Decided_Unchecked(pcs) == worker.pc \in pcs  \* mutant: no gateCurrent() after the await

\* the answer arrived: the worker holds a decision for a job that is still current
Decided(pcs) == worker.pc \in pcs /\ GateCurrent(worker.job)

\* finishGate()
FinishJob ==
    /\ gate_jobs' = [gate_jobs EXCEPT ![worker.job].state = "done"]
    /\ worker' = Idle
    /\ UNCHANGED OutsideGate

\* route `start' with captureNow: a second await, for the camera
AskCamera ==
    /\ Decided({"deciding"})
    /\ worker' = [worker EXCEPT !.pc = "camera"]
    /\ UNCHANGED << gate_jobs, tasks, notices, dependencies, calls >> /\ UNCHANGED OutsideGate

\* nothing to do, or an update or a cancellation of a task that is not active
DecideObserve ==
    /\ Decided({"deciding", "camera"})
    /\ FinishJob
    /\ UNCHANGED << tasks, notices, dependencies, calls >>

\* createTask(): a task that exists under this id is returned as it is
DecideStart ==
    /\ Decided({"deciding", "camera"})
    /\ Cardinality(ActiveRoots) < MaxActiveRoots
    /\ LET j == worker.job
       IN  IF tasks[j] = "absent"
           THEN /\ tasks' = [tasks EXCEPT ![j] = "active"]
                /\ dependencies' = dependencies \cup Rows("task", j, {j})
           ELSE UNCHANGED << tasks, dependencies >>
    /\ FinishJob
    /\ UNCHANGED << notices, calls >>

\* the new evidence steers an active root task, which from now on rests on it
DecideUpdate(t) ==
    /\ Decided({"deciding"})
    /\ t \in ActiveRoots
    /\ dependencies' = dependencies \cup Rows("task", t, {worker.job})
    /\ FinishJob
    /\ UNCHANGED << tasks, notices, calls >>

DecideCancel(t) ==
    /\ Decided({"deciding"})
    /\ t \in ActiveRoots
    /\ CancelFamily({t})
    /\ calls' = CancelInvalidRuns(tasks')
    /\ FinishJob
    /\ UNCHANGED dependencies

\* the answer came for a revision that is not current any more
DecideStale ==
    /\ worker # Idle
    /\ ~GateCurrent(worker.job)
    /\ worker' = Idle
    /\ UNCHANGED << gate_jobs, tasks, notices, dependencies, calls >> /\ UNCHANGED OutsideGate

DecideFail_Swallowed ==     \* mutant: the error is caught and the job is not put back
    /\ worker # Idle /\ GateCurrent(worker.job)
    /\ worker' = Idle
    /\ UNCHANGED << gate_jobs, tasks, notices, dependencies, calls >> /\ UNCHANGED OutsideGate

\* failGate(): the classifier failed or was aborted, or the task queue is full
DecideFail ==
    /\ \/ Decided({"deciding"})
       \/ Decided({"camera"}) /\ Cardinality(ActiveRoots) >= MaxActiveRoots
    /\ gate_jobs' = [gate_jobs EXCEPT ![worker.job].state =
                          IF gate_jobs[worker.job].attempts >= MaxAttempts
                          THEN "failed" ELSE "queued",
                                     ![worker.job].due = FALSE]
    /\ worker' = Idle
    /\ UNCHANGED << tasks, notices, dependencies, calls >> /\ UNCHANGED OutsideGate

\* due_at passes
BackoffOver(j) ==
    /\ gate_jobs[j].state = "queued" /\ ~gate_jobs[j].due
    /\ gate_jobs' = [gate_jobs EXCEPT ![j].due = TRUE]
    /\ UNCHANGED << worker, tasks, notices, dependencies, calls >> /\ UNCHANGED OutsideGate

RetryGates_Done ==          \* mutant: classified jobs are retried as well
    /\ retries < MaxRetries
    /\ retries' = retries + 1
    /\ \E j \in Ref : gate_jobs[j].state \in {"failed", "done"} /\ j[1] \notin tombstones
    /\ gate_jobs' = [j \in Ref |->
            IF gate_jobs[j].state \in {"failed", "done"} /\ j[1] \notin tombstones
            THEN NewJob ELSE gate_jobs[j]]
    /\ UNCHANGED << evidence, tombstones, worker, tasks, parent, memories, notices, dependencies,
                    schedules, calls, saving, late, expired, restarts >>

\* POST /v1/decisions/retry: every exhausted job whose revision is not deleted
RetryGates ==
    /\ retries < MaxRetries
    /\ retries' = retries + 1
    /\ \E j \in Ref : gate_jobs[j].state = "failed" /\ j[1] \notin tombstones
    /\ gate_jobs' = [j \in Ref |-> IF gate_jobs[j].state = "failed" /\ j[1] \notin tombstones
                                   THEN NewJob ELSE gate_jobs[j]]
    /\ UNCHANGED << evidence, tombstones, worker, tasks, parent, memories, notices, dependencies,
                    schedules, calls, saving, late, expired, restarts >>

Restart_NotRequeued ==      \* mutant: recover() forgets the jobs in flight
    /\ restarts < MaxRestarts
    /\ restarts' = restarts + 1
    /\ worker' = Idle
    /\ calls' = {}
    /\ saving' = {}
    /\ UNCHANGED << evidence, tombstones, gate_jobs, tasks, parent, memories, notices,
                    dependencies, schedules, late, expired, retries >>

\* the process dies and start() calls recover(): jobs in flight are queued again,
\* with the attempt they used
Restart ==
    /\ restarts < MaxRestarts
    /\ restarts' = restarts + 1
    /\ worker' = Idle
    /\ calls' = {}
    /\ saving' = {}
    /\ gate_jobs' = [j \in Ref |-> IF gate_jobs[j].state = "running"
                                   THEN [gate_jobs[j] EXCEPT !.state = "queued"]
                                   ELSE gate_jobs[j]]
    /\ UNCHANGED << evidence, tombstones, tasks, parent, memories, notices, dependencies,
                    schedules, late, expired, retries >>

-----------------------------------------------------------------------------
(* Specification *)

IngestSome ==
    \E e \in Sensed, n \in Revision, content \in {"partial", "final"}, trigger \in BOOLEAN :
        Ingest(e, n, content, trigger)

ToolStep ==
    \E t \in Task :
        \/ \E r \in Ref : Bind(t, r) \/ Finish(t, r)
        \/ \E d \in Derived :
              \/ CallRunner(t, d) \/ CallEnds(t, d)
              \/ RecordTool(t, d) \/ BeginArtifact(t, d) \/ SaveArtifact(t, d)
              \/ \E r \in Ref : Followup(t, d, r) \/ \E m \in Memory : Remember(t, m, r, d)
        \/ \E c \in Child : Spawn(t, c)
        \/ EndTask(t)

WorkerStep ==
    \/ AskCamera \/ DecideObserve \/ DecideStart \/ DecideStale \/ DecideFail
    \/ \E t \in Root : DecideUpdate(t) \/ DecideCancel(t)

OperatorStep ==
    \/ \E e \in Event : DeleteEvidence(e)
    \/ \E m \in Memory : Forget(m)
    \/ \E t \in Task : CancelTask(t)
    \/ \E t \in Root : Acknowledge(t)
    \/ RetryGates

MaintainStep == \E S \in SUBSET Event : Maintain(S)

TimerStep ==
    \/ \E d \in Derived : FireSchedule(d)
    \/ \E j \in Ref : TakeJob(j) \/ BackoffOver(j)
    \/ \E t \in Task : PurgeTask(t)
    \/ AbortInvalidRuns

Next == IngestSome \/ ToolStep \/ WorkerStep \/ OperatorStep \/ MaintainStep
        \/ TimerStep \/ Restart

\* The pump polls every 100 ms, a backoff is at most 30 s, and the classifier
\* answers, fails or is timed out.  Nothing else has to happen.
Fairness ==
    /\ \A j \in Ref : WF_vars(TakeJob(j)) /\ WF_vars(BackoffOver(j))
    /\ WF_vars(WorkerStep)

Spec == Init /\ [][Next]_vars
FairSpec == Spec /\ Fairness

-----------------------------------------------------------------------------
(* Properties *)

\* Corrections and deletions reach everything that rests on them: an active task,
\* an active memory and a pending notification only ever cite revisions that are
\* the latest, final and not deleted - whoever bound them, and however long ago.
ActiveWorkIsCurrent ==
    /\ \A t \in Task : tasks[t] = "active" => \A r \in Refs("task", t) : Current(r)
    /\ \A m \in Memory : memories[m] = "active" => \A r \in Refs("memory", m) : Current(r)
    /\ \A t \in Root : notices[t] = "pending" => \A r \in Refs("notification", t) : Current(r)

\* what may rest on a source that is gone: see DerivedFollowsItsSources
Excused(d, r) ==
    \/ <<d, "file">> \in late
    \/ <<d, "call">> \in late /\ r[1] \in expired

\* Evidence the agent records goes with the sources it was derived from, although the
\* runner, deletions, corrections and expiry take any order: a deletion or correction
\* aborts the calls of the tasks it cancels.  Two things get past: a file that was
\* being written for a task cancelled meanwhile, and a result that came for a task
\* cancelled but not yet aborted, which may rest on sources that retention deleted.
DerivedFollowsItsSources ==
    \A d \in Derived : Stored(d) =>
        \A r \in Refs("derived_evidence", d) : Current(r) \/ Excused(d, r)

\* Evidence the agent recorded never outlives the sources it was derived from.
LiveDerivedIsCurrent ==
    \A d \in Derived : Stored(d) => \A r \in Refs("derived_evidence", d) : Current(r)

\* A job is `running' only while the worker holds it, so no revision is left
\* unclassified by a worker that moved on or a process that died.
RunningJobHasWorker ==
    \A j \in Ref : gate_jobs[j].state = "running" => worker # Idle /\ worker.job = j

\* A verdict is final: what was classified or superseded is never classified again,
\* not by a retry, a restart or a late answer.
VerdictIsFinal ==
    [][\A j \in Ref : gate_jobs[j].state \in {"done", "superseded"}
                       => gate_jobs'[j] = gate_jobs[j]]_vars

\* Retention keeps the source evidence of active memories and tasks
\* (agent/src/store.ts:646): expiry ends neither.
RetentionKeepsActive ==
    [][MaintainStep => /\ \A m \in Memory : memories[m] = "active" => memories'[m] = "active"
                       /\ \A t \in Task : tasks[t] = "active" => tasks'[t] = "active"]_vars

\* Every job that is queued is settled: decided, superseded, or failed for good.
EveryJobSettles ==
    \A j \in Ref : gate_jobs[j].state = "queued"
                   ~> gate_jobs[j].state \in {"done", "superseded", "failed"}
=============================================================================
