---------------------------- MODULE AgentGallery ----------------------------
(***************************************************************************)
(* The agent's own camera (capture.ts) and the graph it feeds              *)
(* (knowledge.ts): frames wait for the face service one at a time, two     *)
(* votes put a name on a track, an introduction enrols the face that was   *)
(* there, and whatever was derived goes with the evidence it came from.    *)
(* One wearer and one stream, one person before the camera.  Names for     *)
(* events: <<"said", u>>, <<"faces", f>>, <<"presence", f>>, <<"person", n>>. *)
(***************************************************************************)
EXTENDS Integers, FiniteSets

CONSTANTS
    Spoken,      \* introductions that are heard
    MaxFrames,   \* bound: camera frames
    MaxEnrolls,  \* bound: enrollments
    MaxClaims,   \* bound: relations
    MaxDeletes   \* bound: events the user deletes

ASSUME AgentGalleryAssumption == {MaxFrames, MaxEnrolls, MaxClaims, MaxDeletes} \subseteq Nat \ {0}

VARIABLES
    living,      \* events in the ledger, neither corrected nor deleted
    basis,       \* event -> all events it rests on, directly or not (dependencies)
    frames,      \* frame -> what is known of it (capture_frames)
    lastFrame,   \* the newest frame
    detecting, queued,   \* the frame at the face service, and the pending one
    votedTrack,  \* the track in memory
    said,        \* introduction -> the newest frame when it was heard
    offered,     \* introduction -> the track identify() returned for it
    people,      \* person -> the row of the gallery
    entity,      \* person -> its node's active memory in the graph
    claims,      \* relations: memories about a person
    enrolls,     \* enrollments so far
    deletes,     \* events deleted so far
    learnt,      \* event -> the events it was written from (for the properties)
    severed      \* events whose writing was cut off by the process's death (for the properties)

galleryVars == <<living, basis, frames, lastFrame, detecting, queued, votedTrack, said, offered,
                 people, entity, claims, enrolls, deletes, learnt, severed>>

FrameId == 1..MaxFrames
GalleryPerson == 1..MaxEnrolls
NoTrackYet == [id |-> 0, votes |-> 0, person |-> 0]
NoFrame == [state |-> "none", track |-> 0, person |-> 0]
NoPerson == [refs |-> {}, deps |-> {}]
GalleryEvent == ({"said"} \X Spoken) \cup ({"faces", "presence"} \X FrameId) \cup ({"person"} \X GalleryPerson)

AgentGalleryInit ==
    /\ living = {} /\ basis = [e \in GalleryEvent |-> {}]
    /\ frames = [f \in FrameId |-> NoFrame]
    /\ lastFrame = 0 /\ detecting = 0 /\ queued = 0 /\ votedTrack = NoTrackYet
    /\ said = [u \in Spoken |-> 0] /\ offered = [u \in Spoken |-> 0]
    /\ people = [p \in GalleryPerson |-> NoPerson] /\ entity = [p \in GalleryPerson |-> {}]
    /\ claims = {} /\ enrolls = 0 /\ deletes = 0
    /\ learnt = [e \in GalleryEvent |-> {}] /\ severed = {}

Closure(refs) == refs \cup UNION {basis[e] : e \in refs}
KnownPerson(p) == people[p] # NoPerson /\ people[p].refs \subseteq living

-----------------------------------------------------------------------------
(* Frames: accept() and process(). *)

AcceptFrame ==
    /\ lastFrame < MaxFrames
    /\ lastFrame' = lastFrame + 1
    /\ frames' = [frames EXCEPT ![lastFrame + 1].state = "raw"]
    /\ IF detecting = 0 THEN detecting' = lastFrame + 1 /\ queued' = 0
       ELSE queued' = lastFrame + 1 /\ UNCHANGED detecting
    /\ UNCHANGED <<living, basis, votedTrack, said, offered, people, entity, claims, enrolls, deletes, learnt, severed>>

LabelRefs(p) == IF p = 0 THEN {} ELSE people[p].refs
LabelBasis(p) == Closure(LabelRefs(p))

NextTrack(seen) == IF seen.continues THEN votedTrack.id ELSE votedTrack.id + 1
Votes(seen) == IF seen.continues /\ votedTrack.person = seen.person THEN votedTrack.votes + 1 ELSE 1
Labelled(seen) == IF Votes(seen) >= 2 THEN seen.person ELSE 0

(* The face service answers: an empty picture (one or several faces alike), or a face *)
(* that continues the track or not and looks like a person of the gallery or not.     *)
Seen == [face : {TRUE}, continues : BOOLEAN, person : GalleryPerson \cup {0}]

TakesNext == detecting' = queued /\ queued' = 0

(* The process starts again: what was in memory is gone.  Identifiers of tracks are never used again. *)
MemoryIsLost(track) ==
    /\ detecting' = 0 /\ queued' = 0 /\ votedTrack' = [NoTrackYet EXCEPT !.id = track]
    /\ offered' = [u \in Spoken |-> 0]

(* The frame is updated, and then the event ingested, unless the process dies between the two. *)
NobodyThere ==
    /\ detecting # 0
    /\ frames' = [frames EXCEPT ![detecting].state = IF @ = "raw" THEN "empty" ELSE @]
    /\ \/ living' = living \cup {<<"faces", detecting>>} /\ TakesNext /\ UNCHANGED <<votedTrack, offered>>
       \/ living' = living /\ MemoryIsLost(votedTrack.id)
    /\ learnt' = [learnt EXCEPT ![<<"faces", detecting>>] = {}]
    /\ UNCHANGED <<basis, lastFrame, said, people, entity, claims, enrolls, deletes, severed>>

(* An answer with a face is written in five transactions of one turn, in this order: the   *)
(* frame; the event about its faces; the event about who appeared; that this one rests on  *)
(* the other; and that the event about the faces rests on what the label was learnt from.  *)
AllWrites == 5

AnswerWritten(seen, entering, upto) ==
    LET p == Labelled(seen)
        f == detecting
        faces == <<"faces", f>>
        appeared == <<"presence", f>>
    IN /\ f # 0 /\ (seen.continues => votedTrack.votes # 0) /\ (seen.person # 0 => KnownPerson(seen.person))
       /\ entering => p # 0
       /\ frames' = [frames EXCEPT ![f] = IF @.state # "raw" THEN @
                                          ELSE [state |-> "face", track |-> NextTrack(seen), person |-> p]]
       /\ living' = living \cup (IF upto >= 2 THEN {faces} ELSE {}) \cup (IF entering /\ upto >= 3 THEN {appeared} ELSE {})
       /\ basis' = [basis EXCEPT ![faces] = IF upto = AllWrites THEN LabelBasis(p) ELSE {},
                                 ![appeared] = (IF entering /\ upto >= 4 THEN {faces} ELSE {})
                                               \cup (IF entering /\ upto = AllWrites THEN LabelBasis(p) ELSE {})]
       /\ learnt' = [learnt EXCEPT ![faces] = LabelRefs(p),
                                   ![appeared] = IF entering THEN {faces} \cup LabelRefs(p) ELSE {}]
       /\ UNCHANGED <<lastFrame, said, people, entity, claims, enrolls, deletes>>

Detected(seen, entering) ==
    /\ AnswerWritten(seen, entering, AllWrites)
    /\ votedTrack' = [id |-> NextTrack(seen), votes |-> IF Votes(seen) > 2 THEN 2 ELSE Votes(seen), person |-> seen.person]
    /\ TakesNext
    /\ UNCHANGED <<offered, severed>>

(* The process dies after some of the writes.  None of them is made up for when it starts again. *)
DiesWriting(seen, entering, upto) ==
    /\ upto < AllWrites
    /\ AnswerWritten(seen, entering, upto)
    /\ severed' = severed \cup {<<"faces", detecting>>, <<"presence", detecting>>}
    /\ MemoryIsLost(NextTrack(seen))

(* The call fails: a frame that was waiting stays where it is until another comes. *)
DetectionFails ==
    /\ detecting # 0 /\ detecting' = 0
    /\ UNCHANGED <<living, basis, frames, lastFrame, queued, votedTrack, said, offered, people,
                   entity, claims, enrolls, deletes, learnt, severed>>

(* After two minutes a frame is out of the buffer. *)
Prune ==
    /\ \E f \in FrameId :
         /\ frames[f].state # "none" /\ \A g \in 1..(f - 1) : frames[g].state = "none"
         /\ frames' = [frames EXCEPT ![f] = NoFrame]
    /\ UNCHANGED <<living, basis, lastFrame, detecting, queued, votedTrack, said, offered, people,
                   entity, claims, enrolls, deletes, learnt, severed>>

-----------------------------------------------------------------------------
(* Introductions. *)

Say(u) ==
    /\ said[u] = 0 /\ lastFrame > 0
    /\ said' = [said EXCEPT ![u] = lastFrame]
    /\ living' = living \cup {<<"said", u>>} /\ learnt' = [learnt EXCEPT ![<<"said", u>>] = {}]
    /\ UNCHANGED <<basis, frames, lastFrame, detecting, queued, votedTrack, offered, people,
                   entity, claims, enrolls, deletes, severed>>

(* identify(): two frames or more around the words, one face in each, all one track. *)
Around(u) == {f \in FrameId : frames[f].state \in {"face", "empty"} /\ f \in (said[u] - 1)..(said[u] + 1)}
TracksIn(u) == {frames[f].track : f \in Around(u)}
NamesIn(u) == {frames[f].person : f \in Around(u)} \ {0}

Identified(u) ==
    /\ said[u] # 0 /\ <<"said", u>> \in living /\ Cardinality(Around(u)) >= 2
    /\ \A f \in Around(u) : frames[f].state = "face"
    /\ Cardinality(TracksIn(u)) = 1 /\ Cardinality(NamesIn(u)) <= 1

Candidate(u) == CHOOSE t \in TracksIn(u) : TRUE
SourceRefs(u) == {<<"said", u>>} \cup {<<"faces", f>> : f \in Around(u)}
Gallery(u) == {p \in NamesIn(u) : people[p] # NoPerson}

Identify(u) ==
    /\ Identified(u)
    /\ offered' = [offered EXCEPT ![u] = Candidate(u)]
    /\ UNCHANGED <<living, basis, frames, lastFrame, detecting, queued, votedTrack, said, people,
                   entity, claims, enrolls, deletes, learnt, severed>>

\* Mutant: the frames are read from the buffer and not checked in the ledger.
StillValid_Buffered(refs) == TRUE

(* What was identified may have been deleted while the call was reviewed. *)
StillValid(refs) == refs \subseteq living

Enroll(u) ==
    LET n == enrolls + 1
        e == <<"person", n>>
        p == IF Gallery(u) = {} THEN n ELSE CHOOSE q \in Gallery(u) : TRUE
        refs == SourceRefs(u) \cup {e}
    IN /\ n \in GalleryPerson /\ Identified(u) /\ offered[u] = Candidate(u) /\ StillValid(SourceRefs(u))
       /\ enrolls' = n
       /\ living' = living \cup {e}
       /\ basis' = [basis EXCEPT ![e] = Closure(SourceRefs(u))]
       /\ people' = [people EXCEPT ![p] = [refs |-> refs, deps |-> @.deps \cup refs]]
       /\ entity' = [entity EXCEPT ![p] = refs]
       /\ learnt' = [learnt EXCEPT ![e] = SourceRefs(u)]
       /\ UNCHANGED <<frames, lastFrame, detecting, queued, votedTrack, said, offered, claims, deletes, severed>>

ClaimRefs(p, u) == {<<"said", u>>} \cup entity[p]

(* remember_relation: a claim heard in u about a person of the graph. *)
Relate(p, u) ==
    /\ entity[p] # {} /\ <<"said", u>> \in living /\ Cardinality(claims) < MaxClaims
    /\ claims' = claims \cup {[refs |-> ClaimRefs(p, u), subject |-> entity[p], about |-> p]}
    /\ UNCHANGED <<living, basis, frames, lastFrame, detecting, queued, votedTrack, said, offered,
                   people, entity, enrolls, deletes, learnt, severed>>

(* deleteEvidence(): the event and all that was derived from it. *)
DeleteSource(e) ==
    LET dead == {x \in living : x = e \/ e \in basis[x]}
    IN /\ e \in living /\ deletes < MaxDeletes /\ deletes' = deletes + 1
       /\ living' = living \ dead
       /\ people' = [p \in GalleryPerson |-> IF people[p].deps \cap dead = {} THEN people[p] ELSE NoPerson]
       /\ entity' = [p \in GalleryPerson |-> IF entity[p] \cap dead = {} THEN entity[p] ELSE {}]
       /\ claims' = {c \in claims : c.refs \cap dead = {}}
       /\ UNCHANGED <<basis, frames, lastFrame, detecting, queued, votedTrack, said, offered, enrolls, learnt, severed>>

Restart ==
    /\ MemoryIsLost(votedTrack.id)
    /\ UNCHANGED <<living, basis, frames, lastFrame, said, people, entity, claims, enrolls, deletes, learnt, severed>>

AgentGalleryNext ==
    \/ AcceptFrame \/ NobodyThere \/ DetectionFails \/ Prune \/ Restart
    \/ \E seen \in Seen, entering \in BOOLEAN : Detected(seen, entering)
    \/ \E seen \in Seen, entering \in BOOLEAN, upto \in 1..(AllWrites - 1) : DiesWriting(seen, entering, upto)
    \/ \E u \in Spoken : Say(u) \/ Identify(u) \/ Enroll(u)
    \/ \E p \in GalleryPerson, u \in Spoken : Relate(p, u)
    \/ \E e \in GalleryEvent : DeleteSource(e)

AgentGallerySpec == AgentGalleryInit /\ [][AgentGalleryNext]_galleryVars
-----------------------------------------------------------------------------
AgentGalleryTypeOK ==
    /\ living \subseteq GalleryEvent /\ basis \in [GalleryEvent -> SUBSET GalleryEvent]
    /\ lastFrame \in 0..MaxFrames /\ {detecting, queued} \subseteq 0..MaxFrames /\ enrolls \in 0..MaxEnrolls
    /\ \A p \in GalleryPerson : (people[p].refs \cup entity[p]) \subseteq GalleryEvent
    /\ \A f \in FrameId : frames[f].state \in {"none", "raw", "empty", "face"}

(* When the user deletes something, nothing stands that was learnt from it: neither the  *)
(* person it introduced, nor a claim about the entity made of it, nor what the agent     *)
(* wrote of a later frame with that label - whatever was on its way when it was deleted. *)
(* The exception is what the agent was writing when its process died: an event about a   *)
(* frame may then be in the ledger without the dependencies that belong to it, which     *)
(* nothing makes up for, and a deletion does not find it.                                *)
NothingOutlivesItsSource ==
    /\ \A p \in GalleryPerson : (people[p].refs \cup entity[p]) \subseteq living
    /\ \A c \in claims : c.refs \cup c.subject \subseteq living
    /\ \A e \in living \ severed : learnt[e] \subseteq living
=============================================================================
