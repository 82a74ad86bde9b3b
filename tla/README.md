# Verification of kawk

kawk records what a wearer's camera and microphone perceive, and lets an agent act on it. This
directory holds TLA+ models of the parts of it whose correctness depends on the order in which
things happen, TLC configurations that check them on small instances, and proofs that TLAPS
checks for every instance. Source paths below are relative to the repository.

## The system

| Component | State | Operations | What makes it correct |
|---|---|---|---|
| Evidence ledger (`agent/src/store.ts`) | SQLite: evidence by id and revision, tombstones, dependencies, memories, notifications, schedules | ingest, deleteEvidence, invalidate, remember, forget, notify, ack, maintain | what is active or derived rests only on evidence that is current; what is deleted does not come back |
| Classification worker (`harness.ts`: classify) | `gate_jobs`, one job in memory | nextGate, decide (await), camera (await), finishGate, failGate, retryGates, recover | every finalized revision is decided once, on current evidence |
| Task scheduler (`harness.ts`: pump, run, spawn, cancel) | tasks, messages, receipts; run loops in memory | dispatch, model turn, tool call, child completion, stop, recover | side effects at most once; every task ends; a tree ends together |
| Tool broker (`tools.ts`) | receipts, derived evidence | execute, bind, recordEvidence, subagent tools, finish | a receipt precedes the effect; results are tied to their sources |
| Runner (`runner.ts`) | sessions, processes, the page in the one browser | call, close, reap, dispose | owned processes and pages end with their task |
| Models and Jev (`models.ts`, `process.ts`) | breaker of the primary provider, a process per call | complete, fall back, abort | a failed provider is left alone; a cancelled call starts nothing and leaves nothing behind |
| Reminders (`reminders.ts`) | reminders, wakes | create, fire, cancel, reconcile | one reminder has one outcome |
| Notices and push (`store.ts`, `push.ts`, `server.ts`; client `agentFeed.ts`, `push.ts`, `sw.js`) | notifications, subscriptions, deliveries, banners | notify, stream, ack, expire, flush, enable, disable | at least once until acknowledged, acknowledged only when seen |
| Agent's camera and graph (`capture.ts`, `knowledge.ts`, `face.ts`) | frames, tracks, gallery, relations with their claims | observe, identify, enrol, link, prune, delete | what is derived goes with what it came from |
| Transcript archive, history (`transcripts.ts`, `history.ts`) | versions per hour | flush, search | an exported hour is what the journal says; a search says when it may have missed something |
| Agent page (`web/app.ts`, `speech.ts`) | session, polls, stream; microphone, its socket and the agent's session for it | connect, poll, ack; start, stop | one feed; audio keeps its time; no device left on |
| Agent bridge (`memory/src/agent-bridge.ts`, `agent/src/scene-memory.ts`) | outbox, camera requests | deliver, claim, accept, expire | rows take effect once, in order; a camera request has one photo and one answer |
| Scene memory (`memory/src/pipeline.ts`, `store.ts`, `interpreter.ts`) | captures, packets, notes, projections, index | accept, observe, interpret, commit, supersede, index, reset, retry | notes rest on speech as it is now known; no utterance is lost; every photo is settled |
| Capture page (`memory/client/src`) | a run: photos, face slot, submissions; speech link, revisions, clock; live faces; camera commands | start, stop, draw, submit, forward | a photo has its own faces; revisions go out in order; words keep their time |
| Perception lab (`tools/perception_lab`) | sessions with people, encounters, notes, clips, streams | frames, speech, decisions, notes, clips, delete | a name is of the face it is on; commands mean whom they were said about; what is deleted stays deleted |

The HTTP routes call the components inside one JavaScript process. Components talk through the
SQLite tables and through calls; what runs concurrently are asynchronous functions that interleave
at every `await`, the 100 ms timer of `pump()`, HTTP clients, and a process that can die between
two statements. The agent, the scene memory, the pages and the lab are separate processes that
talk over HTTP and WebSockets, so that between them calls are lost, answered late, or repeated. That is
where the behaviour is hard: state read before an await and used after it,
an answer that arrives for something that was cancelled or corrected, restarts between a receipt
and its result, and cascades through what was derived from deleted evidence. `PROJECT.json` lists
the hazards at their lines.

## Modules

| Module | Models |
|---|---|
| `EvidenceLedger.tla` | the ledger tables, their invalidation, the classification worker, and what tools do to the ledger |
| `EvidenceLedger_proofs.tla` | theorems about it |
| `MCEvidenceLedger.tla` | instances for TLC |
| `TaskScheduler.tla` | `pump()`, `run()`, receipts, messages, subagents, stop and recovery |
| `TaskScheduler_proofs.tla` | theorems about it |
| `MCTaskScheduler.tla` | instances for TLC |
| `SceneMemory.tla`, `MCSceneMemory.tla` | the pipeline of the scene memory on its store |
| `SceneMemory_proofs.tla` | theorems about it |
| `SceneFeed.tla` | what the bridge promises: an abstract specification |
| `AgentBridge.tla`, `AgentBridge_proofs.tla` | the bridge; that it implements `SceneFeed`, checked and proved |
| `CameraRequest.tla` | a fresh photo for the agent: the agent's tool, the memory's request, the page that takes it |
| `CaptureRun.tla`, `LiveFaces.tla`, `SpeechLink.tla`, `SpeechTiming.tla` | the capture page |
| `Notices.tla`, `WebPush.tla` | an update on its way to the wearer: outbox, stream, banner, acknowledgement; the push subscription and its deliveries |
| `Reminders.tla`, `Runner.tla`, `ModelCalls.tla`, `AgentGallery.tla`, `Archive.tla` | further parts of the agent |
| `AgentPage.tla`, `MicStream.tla`, `MCMicStream.tla` | the agent's own page, its microphone |
| `LabFaces.tla`, `LabPresence.tla`, `VoiceDecisions.tla`, `LabNotes.tla`, `Clips.tla`, `LabFrames.tla`, `LabSpeech.tla`, `LabCapture.tla`, `LabFeed.tla` | the perception lab |
| `MCEdges.tla` | the instances of all the modules after `MCSceneMemory`, for TLC |
| `Agent_proofs.tla`, `Capture_proofs.tla`, `Lab_proofs.tla` | theorems about the components of the agent, of the capture page with its microphones and requests, of the lab |
| `Edges_proofs.tla` | theorems about what `MCEdges` runs |

### EvidenceLedger

An event has revisions; each is absent, partial or final. `dependencies` is the table of that name:
rows of a kind, a subject and an event revision. A root task is named by the classification job
that starts it, because the code does so (`gate-<job>`). Every action is one synchronous section of
the code or one SQLite transaction; the awaits between them are the worker's `pc` (`deciding`,
`camera`), `calls` (a tool that asked the runner) and `saving` (a tool that writes an artifact file).
A deletion or a correction aborts the calls of the tasks it cancels; `maintain()` cancels tasks as well and leaves their calls to the next `pump()`
(`AbortInvalidRuns`), so that a result may be recorded for a task that is cancelled already (`RecordTool`).

`invalidate()` and `deleteEvidence()` call each other; `Cascade(X)` is the set of events this
recursion visits, written as the least set that is closed under derivation so that it can be
reasoned about. `Invalidate`, `Erase` and `Superseded` apply the statements of the two functions to
all of these events at once. That is the same result, because every statement is idempotent and
moves a row in one direction only.

Left out: texts, times (any unpinned set of events may be the expired one, any backoff may end),
full-text indexes, graph tables, reminders (and the pins and cancellations they cause), the purge
of old jobs and decisions, `storageBytes`, more than one owner. `remember` and its receipt are one
step: between them only promise callbacks run. Repeated and conflicting deliveries of a revision
are refused by the code without a change, so they are no steps.

### TaskScheduler

`status`, `call`, `receipt`, `inbox`, `inserted` and `steps` are the durable tables; `pc`, `aborted`,
`batch` and `thread` are memory and are lost in a crash. `thread` says who executes: nobody
(`free`), `pump()` in its dispatch loop, or a task's loop in a synchronous section. `pump()` lists
the queued tasks once (`batch`) and starts them one after the other; each runs synchronously up to
its first await, and that is how one can change what the next line of the list assumes. Tools that
await nothing of their own continue in a microtask (`ended`, `save`), before timers and requests
(`MacroTurn`). `call` is the tool call that the last assistant message has pending, `receipt` its row,
and `performed` counts how often the runner was asked for it.

Kinds of calls: `read` (replay-safe, awaits the runner), `act` (not replay-safe), `wait`, `spawn`,
`message`, `cancel` (subagent tools) and `finish`, with or without the awaited delivery review.
Left out: the runtime lease, several calls in one turn, compaction, the token budget (the budget of
turns is there), more than one owner, the limit of 100 rows of `tasks()`.

### SceneMemory

`captures`, `transcripts`, `packets`, `notes`, `superseded`, `projections`, `current` and `outbox` are
tables; `observing`, `reducing`, `readySince`, `indexing` are memory and lost in a restart. A capture
is looked at (`Observe...`), joined with the last words heard into a numbered packet, waits for its
batch, and is interpreted; the commit writes notes and projections if the packet is still the newest,
and otherwise nothing. `PostTranscript` supersedes what rested on a revision that is no longer the
newest and joins new packets; photos that arrive late take their place in source-time order. `Pump`
is the synchronous scheduling that every handler of the code ends with, and is part of each of its
actions. An entity, a face and a text are abstracted to which utterances of which revision a note rests on.

### The bridge

`outbox` and `delivered` are the memory's, `evidence`, `tombs` and `banned` the agent's. `call` is the
request on its way; a request that times out is sent again and may still be executed (`late`). One
action executes a batch (`TakeBatch`): the agent's transaction deletes, then ingests. `SceneFeed` is
the same without calls: rows that are told, and a prefix of them taken in. The refinement mapping
reads `told` as the outbox and `taken` as the number of rows the agent has executed, a history
variable of `AgentBridge`; whatever is lost, late or repeated is a stutter.

### The other components

Each has its own `...Init`, `...Next` and tuple of variables. An action is a handler or the synchronous
section between two awaits; the state before the await is kept in a variable for the call under way
(`handling` in `CameraRequest`, `runnerCall` and `closing` in `Runner`, `round` in `WebPush`, `post` in
`LiveFaces`, `deciding` in `VoiceDecisions`), which is how stale state comes into the models. Devices,
services and networks are actions of the environment: an answer, a failure, an answer that is lost
after the effect, a socket that closes; each is bounded by a constant (`Max...`, `...Faults`,
`...Troubles`). What is measured or recognized - a face, a word, a decision of a model - is a choice
from a small set. The comment before each module's constants and variables names what they stand for.

In every module an operator marked `mutant` is a wrong version of the operator after it. No
specification uses it; it documents which error each property detects.

## Runs

| Run | Instance | What it shows |
|---|---|---|
| `ledger` | one event of two revisions, one derived event, one child, one memory | `TypeOK`, `ActiveWorkIsCurrent`, `DerivedFollowsItsSources` under every interleaving of devices, tools, classifier, operator and retention |
| `gate` | one event of three revisions, two attempts, a restart, a retry, with fairness | no job is lost (`RunningJobHasWorker`), none is decided twice (`VerdictIsFinal`), each is settled (`EveryJobSettles`) |
| `artifacts` | one derived event, awaited artifacts, a restart | `ActiveWorkIsCurrent` holds with artifacts too |
| `late_artifact` | the same | **violated**: `LiveDerivedIsCurrent` (finding 1) |
| `retention` | two derived events, one memory | **violated**: `RetentionKeepsActive` (finding 2) |
| `scheduler` | one root, one child, four turns, two crashes or stops, one cancellation or deadline | `TypeOK` (with the shared budget), `AtMostOnce`, `RunningHasLoop`, `WaitingCanBeWoken`, `VerdictStands` |
| `family` | two roots that share one slot, one child, no restart | `NoOrphans`, `NothingUnreadWhileWaiting` |
| `resurrect` | one root, one child, a restart | **violated**: `CancelledStays` (finding 3) |
| `liveness` | one root, two children, one loop for all, a restart, with fairness | `EveryTaskEnds` |
| `scene` | two photos in either order, a segment with a hypothesis and a correction, one heard before; one failed call, retry, reset or restart | notes that are held rest on current speech (`LiveNotesAreCurrent`), so do projections (`ProjectionsAreCurrent`), every utterance is with a photo (`SpeechIsKept`), the index has what the notes have (`IndexMatchesNotes`), no photo waits for nobody (`WorkHasWorker`), the state shown never goes back in time (`StateKeepsItsTime`), each photo is settled (`EveryCaptureSettles`) |
| `edges` | 24 components, each alone | see below |
| `microphone` | `stop()` while `start()` awaits | **violated**: `StopReleases` (finding 4) |

`edges` is one state space per component: the variable `part` is chosen in the first state, only that
component moves, and the others stand still as they began. It is not a composition: no property of it
relates two components. Where components interact in a way that matters, the interaction is in one
module (`CameraRequest` has agent, memory and page; `AgentBridge` memory and agent; `Notices` agent,
stream, worker and page; `MicStream` page, agent and speech service; `VoiceDecisions` session, route and
bridge; `LabNotes` tabs, sessions and disk). `VIEW PartView` leaves out the variables that stand still,
which is sound because they are the same in all states with the same `part`. A property about one
component holds where another moves because it holds in that component's first state; to see that
it holds where its own component moves is the purpose of the run.

| Property of `edges` | Part | Meaning |
|---|---|---|
| `FeedIsExactlyOnce` | `AgentBridge` | implements `SceneFeed`: rows take effect once and in order |
| `ForgottenStayForgotten` | `AgentBridge` | the agent holds no evidence of a person it was told to forget, but what the answer to a photo request brought afterwards |
| `AnswersAreFinal`, `ShownIsJoined` | `CameraRequest` | a request that was completed or failed stays so; a photo shown as captured is joined with its request |
| `FacesAreItsOwn` | `CaptureRun` | a photo is submitted with the faces of its own frame or with none |
| `RevisionsKeepTheirOrder` | `SpeechLink` | revisions of a segment go out in order, once, nothing after the final one |
| `RemindedOnce` | `Reminders` | no two notifications about a reminder |
| `AckedWasSeen` | `Notices` | an update is acknowledged only after the wearer could see it |
| `PushIsHonest` | `WebPush` | the page says what browser and agent hold; an update is pushed again only when the answer to an earlier push never came |
| `NothingRunsOn` | `Runner` | a closed workspace has left no process and no page |
| `NothingOutlivesItsSource` | `AgentGallery` | names, people and relations go with the evidence they came from, except what was being written when the process died |
| `EverySampleKeepsItsTime` | `MicStream` | audio that is discarded or cut off does not shift the time of later words |
| `StreamsAreHonest` | `LabFrames`, `LabSpeech`, `LabCapture`, `MicStream`, `ModelCalls` | a stream has one owner and ends once, and a failure leaves nothing on |
| `LabIsFaithful` | `Clips`, `LabFaces`, `LabPresence`, `VoiceDecisions`, `LabNotes`, `LabFeed` | what the lab holds of people is theirs |
| `HistoryIsTrue` | `AgentBridge`, `Archive`, `SpeechTiming`, `AgentPage` | nothing accepted is lost; files and searches agree with the journal; words keep their time; one feed |
| `EverythingSettles` | 13 parts | under fair scheduling, nothing taken on is left undone |

The last four group properties of several modules; each of their parts is a definition of its own module
with its own comment. `EverythingSettles` is `[]<>NothingOwed`: as the environment's actions are
bounded, a behaviour ends in states in which what was taken on must have been settled; in `faces` and
`page` the world may go on changing, and what it interrupts is not held against them.

Bounds. Two revisions are enough for a correction that races with what rests on the first, three
for a retry between two corrections. One derived event tied to one sensed event exercises a cascade
of length one, two of them a chain; the proofs cover the rest. One child is the depth that the code
allows; two are its limit per root. `MaxSteps` of three or four (32 in the code) lets a tree spawn,
wait, be woken and finish, and exhaust its budget on the way. Two restarts allow a crash during what
the recovery of the first one does. `MaxRevision`, `MaxRestarts`, `MaxRetries` and `MaxCancels` bound
what the environment may do; `MaxAttempts`, `MaxActiveRoots`, `MaxRunning`, `MaxRoots` and
`MaxSteps` are limits of the code with smaller values.

In `scene` two photos are the least with a late one and a batch of two, the segments end before the
first and before the second photo so that a correction meets packets of both, and one mishap falls
anywhere among the calls. In `edges` the bounds are the least with which the interesting case occurs:
two photos and a queue of one (a frame displaced while another is out), two rows and batches of two (a
call that is repeated after the next row), two reminders due at once with one cancelled, a push that is taken and not
heard of and is tried again, two streams of speech, two workspaces of a task, two calls with a process,
two moments with one clip kept, four frames (two to identify a face, two to
vote on its name), three tracks with two faces before one camera, two finals that are notes, introductions
or something else and a scene event competing
for the decision, one hour with two rows and a crash, two tabs, three model calls with a fallback. Every
bound is a constant in the guard of the action it limits, and named there. Limits of the code with
smaller values are `MaxOpen` (4), `InFlight` (4), `QueueLength` (2), `BusyRetries` (4), `MaxConnections`
(6), `Tries` (3), `Retries` (5), `MaxPushAttempts` (6), `FlushChunks` (16), `QueueMax`, `BatchRows` (32),
`MaxTails`, `MaxKept`, `QueueLimit`, `MaxReconnects`, `Samples` (5) and `Sightings` (3), which are lower in `edges` (2 and 1).
`CHECK_DEADLOCK FALSE` in `edges` and `microphone`: a component whose bounded environment has nothing
more to do stops there.

Fairness. `EvidenceLedger`: the timer polls every 100 ms, so a due job is taken, a backoff ends, and
the classifier's promise settles (requests have a timeout). `TaskScheduler`: the timer runs `pump()`,
the thread finishes what it executes, and a stopped service is started again; weak fairness
suffices for these. What a loop awaits settles because provider, runner and review calls have
timeouts; strong fairness is used there, since other loops take the thread, again and again, between
the moment a promise settles and the moment its continuation runs, and the event loop runs every
settled continuation in the end. Nothing is assumed of clients, crashes or cancellations.
`SceneMemory`: a request that is awaited ends (each has a timeout), a batch wait and the pause of the index
end. The parts of `edges`: timers fire, a loop that polls or flushes goes on, a request that has a
timeout ends, processes that were killed end, and an encoder that is waiting for its turn gets it
(strong fairness, since others take the semaphore in between). Nothing is assumed of the wearer, the
devices, failures or the parts that do not move. `SpeechLink`, `CameraRequest` and the lab's streams claim
no liveness: a call of theirs without a timeout may hang (see the gaps).

### Findings

1. *A late artifact survives the deletion of its source.* `ToolRegistry.run` awaits `mkdir` and
   `writeFile`, then inserts the artifact and records its evidence without another look at the signal
   or the task (`tools.ts:483-513`). If a source of the task is deleted during these awaits, the
   cascade is over when the derived event is stored, and nothing deletes it. `agent/README.md:169`:
   "Delete source and derived content; prevent reimport". A result without a file is recorded behind
   `ctx.signal.throwIfAborted()` (`tools.ts:478`), which stops it when the deletion aborted the run; retention
   does not (`harness.ts:268-273`: a task that is cancelled there is aborted by the next `pump()`), so that such
   a result can rest on sources that have expired. `DerivedFollowsItsSources` allows these two ways (`Excused`,
   with the history variables `late` and `expired`) and its theorem shows that there is no third (the run `ledger` checks it
   without files).
2. *Retention ends active work.* `maintain()` keeps events that an active memory or task cites, not
   the events from which those were derived. When such a source expires, the cascade deletes the
   cited event, deactivates the memory and cancels the task (`store.ts:646-652`).
   `docs/AI_AGENT_HARNESS.md:99`: "Active memories and unfired intentions pin their sources".
3. *A cancelled child is started.* `pump()` sets each task of its list to running without reading it
   again (`harness.ts:252`). After a restart both a parent with a pending `cancel_subagent` and its
   child are in the list: the parent's loop cancels the child in its synchronous part, and the next
   iteration starts the child. `docs/AI_AGENT_HARNESS.md:123`: "Cancellation invalidates the tree".
   `VerdictStands` shows that this is the only way in which the end of a task is undone.
4. *Stop does not stop a microphone that is being acquired.* `Microphone.stop()` releases what `stream`,
   `node`, `context` and `ws` hold; a `start()` that awaits the clock, the permission or the worklet sets
   them afterwards (`web/app.ts`). The page then says that it is stopped and the track is live. The quoted
   line is in `PROJECT.json`. `edges` excludes it (`StopsWhileAsking = FALSE`) so that the rest of the module
   is checked beyond it; with it, `EverySampleKeepsItsTime` fails as well.

Two more observations that no document contradicts. `recover()` fails a parent whose last effect is
uncertain without cancelling its children, and so does a crash between the end of a parent and the
cancellation: such children run until they end by themselves, so `NoOrphans` is checked without
restarts. A `wait_for_subagents` that is replayed after a crash lets its task wait with messages it
has not read, so `NothingUnreadWhileWaiting` is checked without restarts as well.

## Proofs

The theorems are in eight modules. The run of a property shows it on a small instance; its theorem
says it for all sets and bounds that satisfy the assumption of the module, which is named and which
TLC evaluates on every run. Each argument is the same: an invariant that is stronger than the property, a
lemma for the first state, lemmas that say what each action does, one step per action, and PTL for the rest.

`EvidenceLedger_proofs.tla`, for any events, revisions, tasks, children and memories:

- `LedgerTypes`: `Spec => []TypeOK`
- `WorkIsCurrent`: `Spec => []ActiveWorkIsCurrent`
- `DerivedIsCurrent`: `Spec => []DerivedFollowsItsSources`, artifacts included
- `NoJobIsStranded`: `Spec => []RunningJobHasWorker`
- `VerdictsAreFinal`: `Spec => VerdictIsFinal`

`ActiveWorkIsCurrent` is not inductive: a correction cancels the tree of every task that has a row
on the corrected event by way of its root, so a child that has been spawned must have a root that
exists, and a task, memory or event that does not exist yet must have no rows that it would bring
to life. `Tidy` states this, and `Inv == TypeOK /\ Tidy /\ ActiveWorkIsCurrent` is inductive. The
steps are proved one lemma per conjunct and action: `TypeStep`, `TidyStep` and `ActiveStep`. The core of
the argument is that `Invalidate` leaves no active subject with a row on an event of its argument,
and that only those events lose their current revision (`LiveRows`, `CurrentSame`, `InvalidateLive`);
`CancelKeeps`, `InvalidateKeeps` and `RowsRows` are the lemmas about operators. For the derived
evidence, `CascadeClosed` shows that the least closed set is itself closed, so that no live derived
event keeps a row on a deleted one; `DerivedInv` adds what is needed for events that are planned but
not recorded, and `CallInv` that a call under way for a task that is active, or was cancelled by anything
but retention, rests on current evidence, as the others are aborted. For the classification worker
`GateInv` says that a job is of a final revision only, that the job marked running is the worker's and
of the current revision, and that the event of a follow-up has no job before the follow-up fires.

`TaskScheduler_proofs.tla`, for any roots and children and all limits:

- `SchedulerTypes`: `Spec => []TypeOK`, with the budget that a tree shares
- `EffectsAtMostOnce`: `Spec => []AtMostOnce`
- `RunningIsDriven`: `Spec => []RunningHasLoop`
- `WaitingEnds`: `Spec => []WaitingCanBeWoken`
- `EndsAreFinal`: `Spec => VerdictStands`
- `ChildrenEndWithTheirParent`: `Spec => [](restarts = 0 => NoOrphans)`
- `NobodyWaitsWithNews`: `Spec => [](restarts = 0 => NothingUnreadWhileWaiting)`

The invariant has one conjunct per relation. `Receipts`: a call without a receipt was not performed,
and a loop that asks the model has no call pending. `Batches`: nobody else has the thread when
`pump()` has a list, and a task on the list is queued or was cancelled since. `Loops`: a task that is
leaving has ended, a running one has a loop. `Reports`: a completion was sent only for a child that
has ended and is not on the list, so that a child which `pump()` starts again after its cancellation
(finding 3) has not used up its completion; without this, a parent could wait for ever. `MovesStep`
says what a step may do to a status, case by case, and the steps of `Loops`, `Reports`,
`WaitingCanBeWoken` and the action property `VerdictStands` follow from it. The last two theorems hold
while nothing was restarted, which is how the code has it: `recoverTasks` queues a child again without
asking for its parent. Their invariant `FamilyInv` says that a pending call for a subagent is its parent's (`TreeCalls`), where
a loop stands when it has the thread and that a task which waits has no news (`Turns`), and that an
active child of a parent that ended is about to be cancelled, or was started from `pump()`'s list
with no turn left, so that its first check ends it (`Bonds`).

`SceneMemory_proofs.tla`, for any photos and segments, posted in any order, and all limits:

- `SceneTypes`: `Spec => []TypeOK`
- `WorkIsDriven`: `Spec => []WorkHasWorker`
- `NotesAreCurrent`: `Spec => []LiveNotesAreCurrent`
- `ProjectionsHold`: `Spec => []ProjectionsAreCurrent`
- `IndexFollowsNotes`: `Spec => []IndexMatchesNotes`
- `SpeechStaysKept`: `Spec => []SpeechIsKept`
- `StateIsMonotone`: `Spec => StateKeepsItsTime`

The danger is in a commit: the interpretation was made of a packet as it was before the model was
asked. The invariant `Inv` therefore adds that the committed versions of the packets are exactly the
projections (`Told`), that the packet of a photo that is being interpreted is its newest and not
committed yet (`Open`, with the rest of the pipeline's bookkeeping in `Machine`), and that the current state
is of a photo that was accepted (`StateOfStored`). `Pump` and the operators on packets have lemmas of their
own, since every action ends with them. `SpeechIsKept` relates an utterance to the first photo after it, and
that photo changes when an earlier one arrives late. A new first photo is not committed, since only a
commit makes one so (`OnlyCommits`); a correction reopens the first photo of what it says
(`HearPumps`, `PumpCommits`); and when a commit drops the note of an utterance that belongs to another
photo, the note was of a later one, because a speech note is of a single utterance and of a photo that came after it
(`SpeechRests`): that is `TakenOver`.

`AgentBridge_proofs.tla`, for any people, segments, photos and notes, any outbox and any number of
failures:

- `BridgeTypes`: `BridgeSpec => []BridgeTypeOK`
- `NothingIsLost`: `BridgeSpec => []NothingLost`
- `ForgottenHolds`: `BridgeSpec => []ForgottenStayForgotten`
- `BridgeImplementsFeed`: `BridgeSpec => FeedIsExactlyOnce`

`NothingLost` speaks of rows that are marked delivered; the invariant says of every row that was taken in
that its effect stays (`Effects`, `Buried`), and of every call under way or late that it starts at most one
row behind what was taken in (`Calls`). The photos the agent
asks for may show anybody, and the answer to `camera()` is ingested without a look at who was forgotten
(see the gaps). `brought` is what came that way after the person was forgotten; `ForgottenStayForgotten` excepts exactly
it, and the refinement needs no such exception: `SceneFeed` reads from the agent only which rows took effect.

`Agent_proofs.tla`, the agent's further components:

| Theorem | Statement | What the invariant adds |
|---|---|---|
| `RunnerTypes`, `WorkspacesLeaveNothing` | `RunnerSpec => []RunnerTypeOK`, `[]NothingRunsOn` | what each stage of `close()` has established (`CloseStages`), and that only an open or a closing workspace has anything in it (`Bare`) |
| `RemindersTypes`, `OnlyOneReminder` | `RemindersSpec => []RemindersTypeOK`, `[]RemindedOnce` | of tasks that may still bring a notification: a reminder that waits has none (`Cold`), a queued one has a single task (`OneTask`), none ever has two (`OneHot`) |
| `AcksAreOfSeen` | `NoticesSpec => []AckedWasSeen` | what is being acknowledged was seen, and a page that is closed has nothing under way (`NoticesInv`) |
| `PushesAreHonest` | `PushSpec => []PushIsHonest` | the operation that has asked the agent to keep an endpoint is about the one the browser holds (`Controller`), a row is sent exactly when the agent heard of one push that was taken, and a row that waits has attempts left (`DeliveryRows`); what a round is sending waits, and when it was taken the agent has not heard of that, unless the subscription went (`FlushRound`) |
| `NothingStandsWithoutItsSource` | `AgentGallerySpec => []NothingOutlivesItsSource` | what is still to come has left no trace (`StillToCome`), gallery, graph and claims refer to what lives (`Sources`), and every event whose writing was not cut off rests on all that it was written from and on what that rests on (`Labels`) |
| `ThePageHasOneFeed` | `AgentPageSpec => []OneFeed` | a page that asks for a session has no timer that would ask as well (`FeedInv`) |
| `TheArchiveIsTheJournal`, `SearchesTellTheTruth` | `ArchiveSpec => []ExportedIsTheJournal`, `[]SearchTellsTheTruth` | what is being written is the hour as it was at its version, which no export has reached (`WritingHolds`), no export is ahead of the journal (`NeverAhead`), and a search has found what is still the latest up to its cursor (`SearchHolds`) |

`Capture_proofs.tla`, the capture page, its microphones and the photo the agent asks for:

| Theorem | Statement | What the invariant adds |
|---|---|---|
| `CameraTypes`, `ShownPhotosAreJoined`, `AnswersStay` | `CameraSpec => []CameraTypeOK`, `[]ShownIsJoined`, `AnswersAreFinal` | a request has a photo exactly when its state is "captured", and then the memory has stored it (`Joined`, `Uploaded`, `Reported`) |
| `MicTypes`, `WordTimesAreRight`, `StopLetsGo` | `~StopsWhileAsking => (MicSpec => []MicTypeOK)`, `[]EverySampleKeepsItsTime`, `[]StopReleases` | what was sent since the anchor is all that was captured since (`Timed`), because one microphone is live (`MicAsks`, `Holds`); one that is stopped is off (`OffWhenStopped`) |
| `RevisionsStayInOrder` | `TalkSpec => RevisionsKeepTheirOrder` | what is queued, what is posted and what is stored of a segment is one increasing sequence (`TalkOrder`) |
| `WordsAreTimed` | `TimingSpec => []WordsKeepTheirTime` | the runs of audio are contiguous (`Contiguous`), and each is within the tolerance of its own anchor (`RunsKeepTime`) |
| `RunTypes`, `FacesStayWithTheirPhoto` | `RunSpec => []RunTypeOK`, `[]FacesAreItsOwn` | a frame in flight is on the socket of the day, and is all that this socket owes an answer to (`Owes`) |

The hypothesis `~StopsWhileAsking` is the negation of finding 4.

`Lab_proofs.tla`, the perception lab:

| Theorem | Property of | What the invariant adds |
|---|---|---|
| `FailedModelsRest` | `ModelCalls` | in the minute after a failure the breaker is open, and whoever is with the primary provider was so when it failed, until an answer lifts the rest; the first answer to lift it is of one of those (`MinuteRuns`) |
| `DevicesAreKnown` | `LabCapture` | once it has read what is under way the session believes what is on, and a page that has gone has said that all is off (`SessionWillKnow`) |
| `FramesAreTheirs` | `LabFrames` | until an error has freed the slot, the frame in flight is on one of the two queues, once, and no other is (`OneOut`) |
| `SpeechEndsOnce` | `LabSpeech` | a connection is one of an open session, and the connections in a row are the attempts that are counted (`SessionHolds`) |
| `NamesAreTheirs` | `LabFaces` | a wrong name stands for as many frames as the last votes did not confirm (`WrongIsUnconfirmed`); a track that began with an introduction, or an enrollment, keeps that anchor (`IntroducedIsAnchor`, `EnrolledIsAnchor`) |
| `CommandsFindTheirs` | `VoiceDecisions` | segments have numbers in the order they were submitted (`NumbersGrow`), an act is of an event that was executed (`ActsAreDone`), so that it is not at the provider again, where everything is undecided (`HandsArePending`) |
| `TheCardIsTheirs` | `LabPresence` | what the key says of a card is what the card shows (`CardStands`); an object no frame has missed is not older than the silence of its stream (`AbsenceTakesAFrame`) |
| `NotesAreKept` | `LabNotes` | a note is about the same person wherever it is, on disk, in a tab or in a step that is half done (`RowsInv`, `SessionsInv`) |
| `FootageIsKept` | `Clips` | what the job of a moment is at agrees with what is said of its clip, until the session is closed and its footage removed (`Accounted`) |
| `TabsShowTheSession` | `LabFeed` | the messages queued for a tab lead to what the session holds (`Leads`) |

`Edges_proofs.tla` proves of the specification that `edges` runs: `HistoryStaysTrue` (`Spec => []HistoryIsTrue`),
`LabStaysFaithful` (`Spec => []LabIsFaithful`), and, under `~StopsWhileAsking`, `StreamsStayHonest`
(`Spec => []StreamsAreHonest`) and `EdgesTypes` (`Spec => []EdgesTypeOK`). A lemma per component (`BridgeMoves`,
`RunMoves`...) says that a step of the sum is a step of that component or leaves it alone; the invariants of the
components, conjoined (`HistoryInv`, `StreamsInv`, `LabInv`, `CaptureInv`, `AgentInv`, `EdgesInv`), are then inductive.

Model-checked only: the liveness properties (`EveryJobSettles`, `EveryTaskEnds`, `EveryCaptureSettles`,
`EverythingSettles`), which the prover does not reach. Every invariant and every action property that a
passing run checks is stated by a theorem; those of the runs that are violated are refuted.

Proving changed the models in one place: `LabIsFaithful` had the properties of `LabFeed` and `LabNotes` under
each other's part, where both held trivially.

## Not modelled

Components that are left out altogether, and parts of modelled ones:

- *Hub* (first version): not part of the running system. *Deployments, benchmarks and scripts*, the
  experiments of the lab, drawing, lists and forms of the pages: input and output.
- *Task context*, prompts, search and ranking, entity and object matching of the scene memory
  (`scene-memory identity and drafts`), `temporal.ts`: functions of texts and scores. What they decide is a
  choice in the modules.
- *The runtime lease* of two agent processes on one database, the limits of 100 rows (`tasks()`, `notify()`),
  the token budget and several calls in one turn.
- In the bridge: labels of the face clock and the graph, the freshness of backfilled jobs, the limit of a
  batch in bytes, and the routes that only pass a request on.
- In the runner: files, and processes that leave their group. In push: `clearStatus()` of the page.
- Rate limits, telemetry, static files, and the check of tokens.

## Known gaps

What the models show, or what was seen in the code while they were written, beyond the findings. Where a
property would be violated, its module's comment or an assumption names the case.

Bridge and scene memory

- A row that brings an event which the user deleted in the agent is refused, so the feed is blocked for
  good (`memory/src/agent-bridge.ts:15`, `agent/src/server.ts:401`): `Blocked` in `MCEdges`.
- `camera()` ingests what the memory answers without a look at who was forgotten
  (`agent/src/scene-memory.ts:37`), so that a photo that was requested or joined later shows that person to
  the agent again: `brought` in `AgentBridge`, which `ForgottenStayForgotten` excepts.
- An utterance that a later photo told is dropped by that photo's next interpretation when an earlier photo
  arrived meanwhile, and the earlier one is not interpreted again: `TakenOver` in `SceneMemory`.
- The revision of a vision row is always 0. A request that was answered with "expired" may be answered
  with "completed" later.

Capture page

- A transcript whose POST failed is not sent again by itself (`session.ts`); stopping may wait for ever for a
  link that does not answer (`session.ts:271`).
- In the agent's page, the camera, like the microphone, may be acquired after stop; one 401 stops the
  capture; two encodings may pass the guard of one in flight.

Agent

- With more than 100 pending rows `notify()` may return undefined. Of two reminders of one wake,
  cancelling one makes the other wait again; its next wake is then read together with the cancelled task, so
  that it ends as cancelled too.
- A track that is recognized on and off; a frame that stays queued after a failed detection; dependencies
  of an earlier enrolment that stay; a late frame that repeats "People appeared": `AgentGallery` leaves these out.
- A process that dies between the transactions that write an answer of the face service leaves an event about a
  frame, label and all, without the dependencies that belong to it (`capture.ts:223-261`), and deleting the
  introduction does not reach it, although `agent/README.md:169` says "Delete source and derived content":
  `severed` in `AgentGallery`, which `NothingOutlivesItsSource` excepts.
- A push that the push service took and whose answer is late (5 s), lost, or cut off by a restart is sent again
  (`push.ts:128-157`): `unheard` in `WebPush`, which `PushIsHonest` counts.
- An event that is corrected before its row is read is missing from a search without a conflict. An hour
  that always fails blocks the hours after it in the archive.
- The success of an earlier call closes the breaker that a later failure opened (`models.ts:346`):
  `TheBreakerHolds` says that nothing else does (`underWay`, `lifting` in `ModelCalls`). A
  descendant of a codex process that keeps its pipes open keeps the call from ending (`process.ts:60-66`).

Perception lab

- `Clips`: pruning may remove one clip more than needed. A recall uses the foreground of the moment at
  which it is executed (`product.py:965-966`): `CommandsAreMeant` says of its target nothing.
- `LabFaces`: a track that is recognized on and off may enrol the face of another person than the one who
  speaks: `EnrolledBeganTheTrack` says whose face is enrolled, not that it is the speaker's.
- `LabPresence`: the clock runs on for up to 1.5 s of an outage (`product.py:13-16`, `489-491`); an answer card about
  a person who was deleted may stay for 8 s.
- `LabNotes`: notes are written by several routes without a lock of their own (`product_routes.py:500`, `516-519`,
  `product_memory.py:194`, `208`); a tab reconnects for ever to a session that is lost (`v1_provider.js:142-153`); ids
  beyond 512 and 1024 are forgotten.
- `LabFeed`: an answer that is pending at a reconnect is dropped (`store.js:144-147`). `LabCapture`: an
  acknowledgement that times out (`v1_provider.js:275-278`) is left out.
- `LabFrames`: `perception.js:10-11` promises at most one frame in flight, and an error that answers an enrol
  command frees the slot of the frame (`perception.js:243-249`): `OnlyErrorsMixFrames` says that this is the
  only way.
