----------------------------- MODULE SceneMemory -----------------------------
(***************************************************************************)
(* The scene memory's pipeline (memory/src/pipeline.ts) on its evidence    *)
(* store (memory/src/store.ts).                                            *)
(*                                                                         *)
(* Photos are captured, looked at by a vision model, joined with the       *)
(* speech heard up to then into a numbered packet, and interpreted by a    *)
(* language model; the interpretation is committed as notes (observations) *)
(* and projections (state, events, entity descriptions).  Speech arrives   *)
(* late, is revised while any of those calls is awaited, and photos arrive *)
(* out of order; what the memory holds must rest on the speech as it is    *)
(* now known.                                                              *)
(*                                                                         *)
(* One session.  A capture is its place in source-time order; a segment of *)
(* speech is its place in spoken order; entities, faces and texts are left *)
(* out, so two notes of one kind on one utterance always tell the same.    *)
(* An utterance with several notes has one association.                    *)
(***************************************************************************)
EXTENDS Naturals, FiniteSets, Sequences

CONSTANTS
    Capture,      \* captures, numbered by (capturedAt, sequence)
    Requested,    \* the captures that answer a camera request
    Segment,      \* speech segments, numbered by start time
    EndsBy,       \* EndsBy[s]: the first capture time at or after the end of s
    Speech,       \* the transcript revisions that may be posted
    Earlier,      \* those of them that were posted before the first photo
    WindowSize,   \* transcriptWords, counted in segments
    VisionSlots,  \* visionConcurrency
    BatchSize,    \* updateBatchSize
    MaxPending,   \* maxPending
    Reserve,      \* queue places kept for requested captures (4 in the code)
    BatchWait,    \* is batchWaitMs positive?
    MaxClaims,    \* bound on the facts and events the model ever tells
    MaxUploads,   \* bound on simultaneous uploads of one capture
    MaxCalls,     \* bound on the calls of the embedder
    MaxMishaps    \* bound on failed calls, retries, restarts and resets together

VARIABLES
    captures,     \* captures[c]: row of the capture, its vision result, singleUpdate
    uploading,    \* uploading[c]: accepted uploads of c that await the disk
    transcripts,  \* stored transcript revisions
    packets,      \* packets[c]: versions of the joined evidence
    notes,        \* observations not superseded
    superseded,   \* superseded observations
    projections,  \* <<capture, version>> with rows of state, event and entity history
    stale,        \* the superseded ones of them
    current,      \* the current_state row
    cutoff,       \* people_state_reset_before
    outbox,       \* embedding_outbox
    vectors,      \* notes with an embedding
    observing,    \* captures whose vision call is awaited
    reducing,     \* the interpretation in progress
    readySince,   \* captures whose batch wait has begun
    indexing,     \* notes whose embeddings are awaited
    indexPaused,  \* is nextIndexAttemptAt in the future?
    calls,        \* calls of the embedder so far
    mishaps       \* failed calls, retries, restarts and resets so far

ledger == << packets, notes, superseded, projections, stale, current, outbox, vectors >>
budget == << calls, mishaps >>
vars == << captures, uploading, transcripts, ledger, cutoff, observing, reducing,
           readySince, indexing, indexPaused, budget >>

-----------------------------------------------------------------------------
(* Types and null records *)

Revision == [seg : Segment, rev : Nat, final : BOOLEAN]
Ref == { << m.seg, m.rev >> : m \in Speech }
Working == {"queued", "observing", "ready", "reducing"}
CaptureRow == [status : {"absent", "committed", "failed"} \cup Working,
               vision : BOOLEAN, single : BOOLEAN]
Packet == [audio : SUBSET Ref, committed : BOOLEAN]
Note == [packet : Capture, version : Nat, kind : {"visual", "speech", "fact", "event"},
         keys : SUBSET Ref]
Delta == [fact : { k \in SUBSET Ref : Cardinality(k) <= 1 }, event : BOOLEAN]
NoCapture == [status |-> "absent", vision |-> FALSE, single |-> FALSE]
NoState == [packet |-> 0, version |-> 0, pending |-> FALSE]
Idle == [batch |-> {}, stage |-> "idle", fresh |-> TRUE]

ASSUME SceneAssumption ==
    /\ Capture \subseteq Nat \ {0} /\ IsFiniteSet(Capture)
    /\ Segment \subseteq Nat /\ IsFiniteSet(Segment)
    /\ Requested \subseteq Capture
    /\ EndsBy \in [Segment -> Nat]
    /\ Speech \subseteq Revision /\ IsFiniteSet(Speech) /\ Earlier \subseteq Speech
    /\ WindowSize \in Nat \ {0} /\ BatchSize \in Nat \ {0} /\ VisionSlots \in Nat \ {0}
    /\ MaxPending \in Nat \ {0} /\ Reserve \in Nat
    /\ BatchWait \in BOOLEAN
    /\ MaxClaims \in Nat /\ MaxUploads \in Nat /\ MaxCalls \in Nat /\ MaxMishaps \in Nat

-----------------------------------------------------------------------------
(* The transcript window: transcripts.ts *)

Revisions(h, s) == { m \in h : m.seg = s }
Newest(h, s) == CHOOSE m \in Revisions(h, s) : \A o \in Revisions(h, s) : o.rev <= m.rev

\* The newest revision of every segment that is final.
Finals(h) == { << m.seg, m.rev >> : m \in { n \in h : n.final /\ \A o \in h :
                                              o.seg = n.seg => o.rev <= n.rev } }

\* Segments that ended by the time of capture c; the last WindowSize of them.
Heard(h, c) == { s \in Segment : Revisions(h, s) # {} /\ EndsBy[s] <= c }
Window(h, c) == { s \in Heard(h, c) : Cardinality({ t \in Heard(h, c) : t > s }) < WindowSize }

\* audioSignature: the final speech of the window, and only that.
Signature(h, c) == { r \in Finals(h) : r[1] \in Window(h, c) }

\* A failed call, a retry, a restart or a reset uses up the budget of them.
Mishap == mishaps < MaxMishaps /\ mishaps' = mishaps + 1

-----------------------------------------------------------------------------
(* The packets and the queue *)

Version(pk, c) == Len(pk[c])
Last(pk, c) == pk[c][Len(pk[c])]
Committed(pk, c) == { v \in 1 .. Len(pk[c]) : pk[c][v].committed }

\* packet(): an uncommitted packet with the same speech is used again.
WithPacket(pk, h, c) ==
    IF /\ pk[c] # << >> /\ ~ Last(pk, c).committed
       /\ Last(pk, c).audio = Signature(h, c)
    THEN pk[c]
    ELSE Append(pk[c], [audio |-> Signature(h, c), committed |-> FALSE])

Stored(cap) == { c \in Capture : cap[c].status # "absent" }
Pending(cap) == { c \in Capture : cap[c].status \in Working }
Reopened(row) == [row EXCEPT !.status = IF row.vision THEN "ready" ELSE "queued"]

\* finalSpeechAt and saveTranscript's anchor: the first capture after the segment ended.
Anchor(cap, s) == { c \in Stored(cap) : EndsBy[s] <= c /\
                        \A d \in Stored(cap) : EndsBy[s] <= d => c <= d }

-----------------------------------------------------------------------------
(* pump(): fill the vision slots, start the next interpretation, index. *)

\* Requested captures take the next vision slot, then source time decides.
Precedes(c, d) ==
    \/ c \in Requested /\ d \notin Requested
    \/ (c \in Requested <=> d \in Requested) /\ c < d
Queued(cap, obs) == { c \in Capture : cap[c].status = "queued" /\ c \notin obs }
ToObserve(cap, obs) ==
    { c \in Queued(cap, obs) :
        Cardinality(obs) + Cardinality({ d \in Queued(cap, obs) : Precedes(d, c) }) < VisionSlots }

Batchable(cap, pk, c) == ~ cap[c].single /\ Committed(pk, c) = {}

\* Mutant: a capture that corrects a committed interpretation is never batched, nor taken
\* alone.
ToReduce_NoSingles(cap, pk) ==
    LET upTo(c) == { d \in Pending(cap) : d <= c }
    IN  { c \in Pending(cap) : \A d \in upTo(c) : cap[d].status = "ready" /\ Batchable(cap, pk, d) }

\* The first pending capture when it is ready, and the ready ones right behind it
\* when none of them corrects a committed interpretation.
ToReduce(cap, pk) ==
    LET upTo(c) == { d \in Pending(cap) : d <= c }
    IN  { c \in Pending(cap) :
            /\ \A d \in upTo(c) : cap[d].status = "ready"
            /\ upTo(c) = {c} \/ (\A d \in upTo(c) : Batchable(cap, pk, d))
            /\ Cardinality(upTo(c)) <= BatchSize }

\* waitForBatch: only for the adjacent capture that is being observed already.
MayWait(cap, pk, obs, rs) ==
    LET batch == ToReduce(cap, pk)
        next == { c \in Pending(cap) \ batch : \A d \in Pending(cap) \ batch : c <= d }
    IN  /\ BatchWait /\ Cardinality(batch) < BatchSize
        /\ \A c \in batch : (\A d \in batch : c <= d) => c \in rs /\ Batchable(cap, pk, c)
        /\ \E c \in next : Batchable(cap, pk, c) /\ c \in obs

\* index() takes all that waits for an embedding, unless a call is awaited or has just
\* failed.
IndexFree == indexing = {} /\ ~ indexPaused

Pump(cap, pk, h, obs, red, rs, ob, free) ==
    \E wait \in BOOLEAN :
    LET see == ToObserve(cap, obs)
        batch == IF red = Idle /\ ~ wait THEN ToReduce(cap, pk) ELSE {}
    IN  /\ wait => MayWait(cap, pk, obs \cup see, rs)
        /\ observing' = obs \cup see
        /\ captures' = [c \in Capture |-> [cap[c] EXCEPT !.status =
               IF c \in see THEN "observing" ELSE IF c \in batch THEN "reducing" ELSE @]]
        /\ packets' = [c \in Capture |-> IF c \in batch THEN WithPacket(pk, h, c) ELSE pk[c]]
        /\ reducing' = IF batch = {} THEN red
                       ELSE [batch |-> batch, stage |-> "context", fresh |-> TRUE]
        /\ readySince' = rs \ batch
        /\ IF free /\ ob # {} /\ calls < MaxCalls
           THEN indexing' = ob /\ calls' = calls + 1
           ELSE indexing' = (IF free THEN {} ELSE indexing) /\ UNCHANGED calls

-----------------------------------------------------------------------------
(* What a correction takes back: store.ts *)

\* Mutant: only the outbox is cleaned.
Supersede_KeepsVectors(gone, new) ==
    /\ notes' = (notes \ gone) \cup new
    /\ superseded' = superseded \cup gone
    /\ outbox' = (outbox \ gone) \cup new
    /\ UNCHANGED vectors

\* supersedeWhere: a superseded note leaves the index and its outbox.
Supersede(gone, new) ==
    /\ notes' = (notes \ gone) \cup new
    /\ superseded' = superseded \cup gone
    /\ outbox' = (outbox \ gone) \cup new
    /\ vectors' = vectors \ gone

\* currentState(): a state no younger than the last reset is not shown.
Shown == IF current.packet <= cutoff THEN NoState ELSE current

\* Mutant: the history is marked, the current state is not.
Invalidated_HistoryOnly(gone) == current

\* invalidateProjections: the state keeps its place in time and loses its content.
Invalidated(gone) ==
    IF << Shown.packet, Shown.version >> \in gone
    THEN [current EXCEPT !.pending = TRUE] ELSE current

-----------------------------------------------------------------------------
(* Captures: POST /api/captures *)

\* capture(): the checks before the first await.
BeginUpload(c) ==
    /\ captures[c].status = "absent"
    /\ uploading[c] < MaxUploads
    /\ LET accepting == Cardinality({ u \in Capture \X (1 .. MaxUploads) : u[2] <= uploading[u[1]] })
       IN  Cardinality(Pending(captures)) + accepting
               < MaxPending + (IF c \in Requested THEN Reserve ELSE 0)
    /\ uploading' = [uploading EXCEPT ![c] = @ + 1]
    /\ UNCHANGED << captures, transcripts, ledger, cutoff, observing, reducing,
                    readySince, indexing, indexPaused, budget >>

\* The photo is on disk: insertCapture, which a second upload of c finds done, and pump().
EndUpload(c) ==
    /\ uploading[c] > 0
    /\ uploading' = [uploading EXCEPT ![c] = @ - 1]
    /\ LET cap == IF captures[c].status = "absent"
                  THEN [captures EXCEPT ![c].status = "queued"] ELSE captures
       IN  Pump(cap, packets, transcripts, observing, reducing, readySince, outbox, IndexFree)
    /\ UNCHANGED << transcripts, notes, superseded, projections, stale, current, outbox,
                    vectors, cutoff, indexPaused, mishaps >>

\* The disk is full, or the write fails.
FailUpload(c) ==
    /\ uploading[c] > 0 /\ Mishap
    /\ uploading' = [uploading EXCEPT ![c] = @ - 1]
    /\ UNCHANGED << captures, transcripts, ledger, cutoff, observing, reducing,
                    readySince, indexing, indexPaused, calls >>

\* Mutant: the retry does not ask whether the capture is being processed.
Retry_Twice(c) ==
    /\ Mishap
    /\ captures[c].status # "absent"
    /\ Pump([captures EXCEPT ![c] = Reopened(@)], packets, transcripts, observing, reducing,
            readySince, outbox, IndexFree)
    /\ UNCHANGED << uploading, transcripts, notes, superseded, projections, stale, current,
                    outbox, vectors, cutoff, indexPaused >>

\* POST /api/captures/:id/retry
Retry(c) ==
    /\ Mishap
    /\ captures[c].status # "absent"
    /\ c \notin observing \cup reducing.batch
    /\ Pump([captures EXCEPT ![c] = Reopened(@)], packets, transcripts, observing, reducing,
            readySince, outbox, IndexFree)
    /\ UNCHANGED << uploading, transcripts, notes, superseded, projections, stale, current,
                    outbox, vectors, cutoff, indexPaused >>

-----------------------------------------------------------------------------
(* Speech: POST /api/transcripts *)

\* saveTranscript stores m: it is new, and not a hypothesis for a completed segment.
Accepted(h, m) ==
    /\ \A o \in Revisions(h, m.seg) : o.rev # m.rev
    /\ m.final \/ \A o \in Revisions(h, m.seg) : ~ o.final

\* Mutant: only hypotheses can be corrected.
Older_Partials(h, m) ==
    { << o.seg, o.rev >> : o \in { n \in Revisions(h, m.seg) : n.rev < m.rev /\ ~ n.final } }

Older(h, m) == { << o.seg, o.rev >> : o \in { n \in Revisions(h, m.seg) : n.rev < m.rev } }

\* Mutant: packets that were never committed are taken back too.
Consumers_Uncommitted(old) ==
    { p \in Capture \X (1 .. 9) :
        p[2] = Len(packets[p[1]]) /\ packets[p[1]][p[2]].audio \cap old # {} }

\* Interpretations that consumed one of the references: the latest committed versions.
Consumers(old) ==
    { p \in projections :
        /\ packets[p[1]][p[2]].audio \cap old # {}
        /\ \A v \in Committed(packets, p[1]) : v <= p[2] }

\* transcript(): a newest final revision takes back what rests on the older ones, and
\* the captures concerned, with the segment's anchor, are interpreted again.
Hear(m) ==
    /\ Accepted(transcripts, m)
    /\ transcripts' = transcripts \cup {m}
    /\ LET rules == m.final /\ \A o \in Revisions(transcripts, m.seg) : o.rev < m.rev
           old == IF rules THEN Older(transcripts, m) ELSE {}
           gone == { n \in notes : n.keys \cap old # {} }
           consumers == Consumers(old)
           dirty == { n.packet : n \in gone } \cup { p[1] : p \in consumers }
                       \cup (IF rules THEN Anchor(captures, m.seg) ELSE {})
           cap == [c \in Capture |->
                      IF c \in dirty /\ captures[c].status \in {"committed", "failed"}
                      THEN Reopened(captures[c]) ELSE captures[c]]
           corrects == rules /\ Revisions(transcripts, m.seg) # {}
                             /\ Newest(transcripts, m.seg).final
           red == IF corrects /\ reducing # Idle THEN [reducing EXCEPT !.fresh = FALSE]
                  ELSE reducing
       IN  /\ Supersede(gone, {})
           /\ stale' = stale \cup consumers
           /\ current' = Invalidated(consumers)
           /\ IF m.final
              THEN Pump(cap, packets, transcripts', observing, red, readySince, outbox', IndexFree)
              ELSE UNCHANGED << captures, packets, observing, reducing, readySince, indexing,
                                calls >>
    /\ UNCHANGED << uploading, projections, cutoff, indexPaused, mishaps >>

-----------------------------------------------------------------------------
(* Vision: observe() *)

\* saveVision, then the packet, whatever becomes of the interpretation.
Seen(c) ==
    /\ c \in observing
    /\ captures' = [captures EXCEPT ![c].status = "ready", ![c].vision = TRUE]
    /\ packets' = [packets EXCEPT ![c] = WithPacket(packets, transcripts, c)]
    /\ readySince' = readySince \cup {c}
    /\ observing' = observing \ {c}
    /\ UNCHANGED << uploading, transcripts, notes, superseded, projections, stale, current,
                    outbox, vectors, cutoff, reducing, indexing, indexPaused, budget >>

\* fail()
VisionFails(c) ==
    /\ c \in observing /\ Mishap
    /\ captures' = [captures EXCEPT ![c].status = "failed"]
    /\ readySince' = readySince \ {c}
    /\ observing' = observing \ {c}
    /\ UNCHANGED << uploading, transcripts, ledger, cutoff, reducing, indexing, indexPaused,
                    calls >>

-----------------------------------------------------------------------------
(* Interpretation: reduce() *)

\* Give the batch up: requeue(), forceSingleUpdate or fail() for every capture of it.
Release(status, single) ==
    /\ captures' = [c \in Capture |->
           IF c \in reducing.batch
           THEN [captures[c] EXCEPT !.status = status, !.single = @ \/ single]
           ELSE captures[c]]
    /\ reducing' = Idle
    /\ UNCHANGED << uploading, transcripts, ledger, cutoff, observing, indexing,
                    indexPaused, calls >>

\* The speech the batch was prepared with is still what was said.
StillHeard ==
    /\ reducing.fresh
    /\ \A c \in reducing.batch : Last(packets, c).audio = Signature(transcripts, c)

\* The context is there: the model is asked, unless a correction arrived meanwhile.
ContextReady ==
    /\ reducing.stage = "context" /\ reducing.fresh
    /\ reducing' = [reducing EXCEPT !.stage = "model"]
    /\ UNCHANGED << captures, uploading, transcripts, ledger, cutoff, observing, readySince,
                    indexing, indexPaused, budget >>

\* Speech the answer was made with has changed: ask again with the new packet.
Requeue ==
    /\ \/ reducing.stage = "context" /\ ~ reducing.fresh
       \/ reducing.stage = "model" /\ ~ StillHeard
    /\ Release("ready", FALSE)
    /\ UNCHANGED << readySince, mishaps >>

\* The call fails, or its answer: a batch is tried again one by one, when it was the
\* answer that was wrong; otherwise its captures fail.
ModelFails ==
    /\ reducing.stage = "model" /\ Mishap
    /\ \/ /\ Cardinality(reducing.batch) > 1
          /\ Release("ready", TRUE)
          /\ UNCHANGED readySince
       \/ /\ Release("failed", FALSE)
          /\ readySince' = readySince \ reducing.batch

-----------------------------------------------------------------------------
(* commitBatch *)

\* speechAlreadyCovered: another packet's live note of the kind cites the key.
Covered(live, c, kind, key) ==
    \E n \in live : n.packet # c /\ n.kind = kind /\ key \in n.keys

NoteOf(c, kind, keys) ==
    [packet |-> c, version |-> Version(packets, c), kind |-> kind, keys |-> keys]

\* Mutant: only the speech of the packet's window is kept word for word.
SpeechNotes_Window(live, c) ==
    { NoteOf(c, "speech", {r}) : r \in { q \in Last(packets, c).audio :
          c \in Anchor(captures, q[1]) /\ ~ Covered(live, c, "speech", q) } }

\* The notes a row adds: what was seen, at its first commit; every finished utterance
\* whose first capture it is; the model's fact, and its event.
VisualNotes(c) == IF Committed(packets, c) = {} THEN { NoteOf(c, "visual", {}) } ELSE {}
SpeechNotes(live, c) ==
    { NoteOf(c, "speech", {r}) : r \in { q \in Finals(transcripts) :
          c \in Anchor(captures, q[1]) /\ ~ Covered(live, c, "speech", q) } }
FactNotes(live, delta, c) ==
    { NoteOf(c, "fact", {r}) : r \in { q \in delta[c].fact :
          /\ ~ Covered(live, c, "fact", q)
          /\ \A d \in reducing.batch : d < c => q \notin delta[d].fact } }
EventNotes(live, delta, c) ==
    LET keys == Last(packets, c).audio
        told == keys # {} /\ \A r \in keys :
                    \/ Covered(live, c, "event", r)
                    \/ \E d \in reducing.batch : d < c /\ delta[d].event
                                                      /\ r \in Last(packets, d).audio
    IN  IF delta[c].event /\ ~ told THEN { NoteOf(c, "event", keys) } ELSE {}

\* Mutant: the interpretation that is committed last wins.
SavedState_Latest(c, prior) == [packet |-> c, version |-> Version(packets, c), pending |-> FALSE]

\* saveState: the state never moves back in source time.
SavedState(c, prior) ==
    IF c >= Shown.packet
    THEN [packet |-> c, version |-> Version(packets, c), pending |-> FALSE]
    ELSE Invalidated(prior)

\* What the captures of the batch were told to be before.
Prior(batch) ==
    { p \in batch \X UNION { Committed(packets, c) : c \in batch } :
        p[2] \in Committed(packets, p[1]) }

\* A correction keeps what was seen, and replaces what was said and events.
Outdated(batch) ==
    { n \in notes : /\ n.packet \in batch /\ Committed(packets, n.packet) # {}
                    /\ n.keys # {} \/ n.kind = "event" }

NewNotes(live, delta) ==
    UNION { VisualNotes(c) \cup SpeechNotes(live, c) \cup
            FactNotes(live, delta, c) \cup EventNotes(live, delta, c) : c \in reducing.batch }

Claims(told) == { n \in told : n.kind \in {"fact", "event"} }

Commit ==
    /\ reducing.stage = "model" /\ StillHeard
    /\ \A c \in reducing.batch : Last(packets, c).audio \subseteq Finals(transcripts)
    /\ \E delta \in [reducing.batch -> Delta], newest \in reducing.batch :
       LET batch == reducing.batch
           prior == Prior(batch)
           gone == Outdated(batch)
           new == NewNotes(notes \ gone, delta)
       IN  /\ \A c \in batch : c <= newest
           /\ \A c \in batch : delta[c].fact \subseteq Last(packets, c).audio
           /\ Cardinality(Claims(notes \cup superseded \cup new)) <= MaxClaims
           /\ Supersede(gone, new)
           /\ packets' = [c \in Capture |->
                  IF c \in batch THEN [packets[c] EXCEPT ![Len(packets[c])].committed = TRUE]
                  ELSE packets[c]]
           /\ projections' = projections \cup { << c, Version(packets, c) >> : c \in batch }
           /\ stale' = stale \cup prior
           /\ current' = SavedState(newest, prior)
           /\ captures' = [c \in Capture |->
                  IF c \in batch THEN [captures[c] EXCEPT !.status = "committed"]
                  ELSE captures[c]]
           /\ reducing' = Idle
    /\ UNCHANGED << uploading, transcripts, cutoff, observing, readySince, indexing,
                    indexPaused, budget >>

-----------------------------------------------------------------------------
(* The vector index: index(), putEmbedding *)

Indexed ==
    /\ indexing # {}
    /\ vectors' = vectors \cup (indexing \cap notes)
    /\ outbox' = outbox \ indexing
    /\ indexing' = {}
    /\ UNCHANGED << captures, uploading, transcripts, packets, notes, superseded, projections,
                    stale, current, cutoff, observing, reducing, readySince, indexPaused, budget >>

IndexFails ==
    /\ indexing # {} /\ Mishap
    /\ indexing' = {}
    /\ indexPaused' = TRUE
    /\ UNCHANGED << captures, uploading, transcripts, ledger, cutoff, observing, reducing,
                    readySince, calls >>

\* nextIndexAttemptAt has passed.
ResumeIndex ==
    /\ indexPaused
    /\ indexPaused' = FALSE
    /\ UNCHANGED << captures, uploading, transcripts, ledger, cutoff, observing, reducing,
                    readySince, indexing, budget >>

-----------------------------------------------------------------------------
(* The timer, people, restarts *)

\* pump() from the interval of 100 ms, or after a call that ended.
Tick ==
    /\ Pump(captures, packets, transcripts, observing, reducing, readySince, outbox, IndexFree)
    /\ UNCHANGED << uploading, transcripts, notes, superseded, projections, stale, current,
                    outbox, vectors, cutoff, indexPaused, mishaps >>

\* removePeople: the state is dropped, and what comes of photos taken before is not shown.
RemovePeople ==
    /\ Mishap
    /\ \E c \in Stored(captures) : (\A d \in Stored(captures) : d <= c) /\ cutoff' = c
    /\ current' = NoState
    /\ reducing' = IF reducing = Idle THEN Idle ELSE [reducing EXCEPT !.fresh = FALSE]
    /\ UNCHANGED << captures, uploading, transcripts, packets, notes, superseded, projections,
                    stale, outbox, vectors, observing, readySince, indexing, indexPaused, calls >>

\* The process dies and start()s again: interrupted calls are repeated.
Restart ==
    /\ Mishap
    /\ uploading' = [c \in Capture |-> 0]
    /\ LET cap == [c \in Capture |->
                      IF captures[c].status \in {"observing", "reducing"}
                      THEN Reopened(captures[c]) ELSE captures[c]]
       IN  Pump(cap, packets, transcripts, {}, Idle, {}, outbox, TRUE)
    /\ indexPaused' = FALSE
    /\ UNCHANGED << transcripts, notes, superseded, projections, stale, current, outbox,
                    vectors, cutoff >>

-----------------------------------------------------------------------------
(* Specification *)

Init ==
    /\ captures = [c \in Capture |-> NoCapture]
    /\ uploading = [c \in Capture |-> 0]
    /\ transcripts = Earlier
    /\ packets = [c \in Capture |-> << >>]
    /\ notes = {} /\ superseded = {} /\ outbox = {} /\ vectors = {}
    /\ projections = {} /\ stale = {}
    /\ current = NoState /\ cutoff = 0
    /\ observing = {} /\ reducing = Idle /\ readySince = {}
    /\ indexing = {} /\ indexPaused = FALSE
    /\ calls = 0 /\ mishaps = 0

Next ==
    \/ \E c \in Capture : \/ BeginUpload(c) \/ EndUpload(c) \/ FailUpload(c) \/ Retry(c)
                          \/ Seen(c) \/ VisionFails(c)
    \/ \E m \in Speech : Hear(m)
    \/ ContextReady \/ Requeue \/ ModelFails \/ Commit
    \/ Indexed \/ IndexFails \/ ResumeIndex
    \/ Tick \/ RemovePeople \/ Restart

\* Calls to the providers end, by an answer or by their timeout; the timer runs.
Fairness ==
    /\ \A c \in Capture : WF_vars(Seen(c) \/ VisionFails(c))
    /\ WF_vars(ContextReady \/ Requeue \/ ModelFails \/ Commit)
    /\ WF_vars(Tick)

Spec == Init /\ [][Next]_vars /\ Fairness

-----------------------------------------------------------------------------
(* Properties *)

TypeOK ==
    /\ captures \in [Capture -> CaptureRow]
    /\ uploading \in [Capture -> 0 .. MaxUploads]
    /\ transcripts \subseteq Speech
    /\ packets \in [Capture -> Seq(Packet)]
    /\ notes \subseteq Note /\ superseded \subseteq Note
    /\ projections \subseteq Capture \X Nat /\ stale \subseteq projections
    /\ current \in [packet : Capture \cup {0}, version : Nat, pending : BOOLEAN]
    /\ cutoff \in Capture \cup {0}
    /\ outbox \subseteq Note /\ vectors \subseteq Note
    /\ observing \subseteq Capture /\ readySince \subseteq Capture
    /\ reducing \in [batch : SUBSET Capture, stage : {"idle", "context", "model"}, fresh : BOOLEAN]
    /\ indexing \subseteq Note /\ indexPaused \in BOOLEAN
    /\ calls \in 0 .. MaxCalls /\ mishaps \in 0 .. MaxMishaps

\* No live note cites a revision of speech that a newer one has replaced, whatever was
\* in flight when the correction came.
LiveNotesAreCurrent ==
    \A n \in notes : n.keys \subseteq Finals(transcripts)

\* A projection that is not superseded is the capture's latest interpretation and rests on
\* speech as it is now known; so does the state shown, unless it says that it is pending.
ProjectionsAreCurrent ==
    /\ \A p \in projections \ stale :
          /\ packets[p[1]][p[2]].audio \subseteq Finals(transcripts)
          /\ \A v \in Committed(packets, p[1]) : v <= p[2]
    /\ Shown # NoState /\ ~ Shown.pending =>
          << Shown.packet, Shown.version >> \in projections \ stale

\* An earlier photo that arrived late found the utterance told by a later one, whose next
\* interpretation then dropped it: the photo it belongs to is not interpreted again.
TakenOver(r, c) == \E n \in superseded : n.kind = "speech" /\ r \in n.keys /\ n.packet > c

\* A finished utterance is remembered word for word, or its first capture is still to be
\* interpreted, or failed; the one way to lose it is TakenOver.
SpeechIsKept ==
    \A r \in Finals(transcripts) : \A c \in Anchor(captures, r[1]) :
        \/ \E n \in notes : n.kind = "speech" /\ r \in n.keys
        \/ captures[c].status # "committed"
        \/ TakenOver(r, c)

\* Every live note can be searched or waits for its embedding; no superseded one can.
IndexMatchesNotes == notes = vectors \cup outbox

\* A capture marked as in progress is in progress: nothing else would take it up again.
WorkHasWorker ==
    /\ observing = { c \in Capture : captures[c].status = "observing" }
    /\ reducing.batch = { c \in Capture : captures[c].status = "reducing" }

\* A later photo is never replaced as the current scene by an older one, in particular
\* not when an older one is interpreted again; only a reset takes it away.
StateKeepsItsTime ==
    [][current'.packet < current.packet => cutoff' >= current.packet]_vars

\* Every accepted capture is interpreted or fails, through corrections and restarts.
EveryCaptureSettles ==
    \A c \in Capture : captures[c].status # "absent"
                          ~> captures[c].status \in {"committed", "failed"}

=============================================================================
