------------------------------- MODULE MCEdges -------------------------------
(***************************************************************************)
(* The instances of the components at the edges of the system for TLC:     *)
(* what the agent, the scene memory, their pages and the lab do at their   *)
(* sockets, devices and services. The first state chooses which one moves  *)
(* (part); the others stand still as they began, so this is the sum of     *)
(* their state spaces and no composition. Components whose interaction     *)
(* matters are together in one module.                                     *)
(***************************************************************************)
EXTENDS AgentBridge, CaptureRun, CameraRequest, Reminders, Notices, WebPush,
        LiveFaces, SpeechLink, SpeechTiming, Runner, Clips, LabFaces,
        AgentGallery, VoiceDecisions, Archive, LabPresence, MicStream,
        AgentPage, LabNotes, LabFrames, LabSpeech, LabFeed, LabCapture,
        ModelCalls

VARIABLE part

allVars == <<part, bridgeVars, runVars, cameraVars, reminderVars, noticeVars, pushVars,
             faceVars, talkVars, timingVars, runnerVars, clipVars, facesVars,
             galleryVars, voiceVars, archiveVars, presenceVars, micVars, agentPageVars,
             noteVars, frameVars, speechVars, feedVars, captureVars, modelVars>>

Part == {"bridge", "run", "camera", "reminders", "notices", "push", "faces", "talk",
         "timing", "runner", "clips", "tracks", "gallery", "voice", "archive", "presence",
         "mic", "page", "notes", "frames", "speech", "feed", "capture", "models"}

Init == /\ part \in Part
        /\ BridgeInit
        /\ RunInit
        /\ CameraInit
        /\ RemindersInit
        /\ NoticesInit
        /\ PushInit
        /\ FacesInit
        /\ TalkInit
        /\ TimingInit
        /\ RunnerInit
        /\ ClipsInit
        /\ LabFacesInit
        /\ AgentGalleryInit
        /\ VoiceInit
        /\ ArchiveInit
        /\ PresenceInit
        /\ MicInit
        /\ AgentPageInit
        /\ NotesInit
        /\ FramesInit
        /\ SpeechInit
        /\ FeedInit
        /\ CaptureInit
        /\ ModelInit
        /\ facesShown = CHOOSE k \in FaceSet : TRUE
        /\ part # "notes" => faceGallery = {}
        /\ allVars = allVars   \* TLC evaluates the functions of the first state, before its workers share them

(* Only part p takes a step. *)
Only(p) ==
    /\ part = p /\ part' = part
    /\ p # "bridge" => UNCHANGED bridgeVars
    /\ p # "run" => UNCHANGED runVars
    /\ p # "camera" => UNCHANGED cameraVars
    /\ p # "reminders" => UNCHANGED reminderVars
    /\ p # "notices" => UNCHANGED noticeVars
    /\ p # "push" => UNCHANGED pushVars
    /\ p # "faces" => UNCHANGED faceVars
    /\ p # "talk" => UNCHANGED talkVars
    /\ p # "timing" => UNCHANGED timingVars
    /\ p # "runner" => UNCHANGED runnerVars
    /\ p # "clips" => UNCHANGED clipVars
    /\ p # "tracks" => UNCHANGED facesVars
    /\ p # "gallery" => UNCHANGED galleryVars
    /\ p # "voice" => UNCHANGED voiceVars
    /\ p # "archive" => UNCHANGED archiveVars
    /\ p # "presence" => UNCHANGED presenceVars
    /\ p # "mic" => UNCHANGED micVars
    /\ p # "page" => UNCHANGED agentPageVars
    /\ p # "notes" => UNCHANGED noteVars
    /\ p # "frames" => UNCHANGED frameVars
    /\ p # "speech" => UNCHANGED speechVars
    /\ p # "feed" => UNCHANGED feedVars
    /\ p # "capture" => UNCHANGED captureVars
    /\ p # "models" => UNCHANGED modelVars

Next ==
    \/ Only("bridge") /\ BridgeNext
    \/ Only("run") /\ RunNext
    \/ Only("camera") /\ CameraNext
    \/ Only("reminders") /\ RemindersNext
    \/ Only("notices") /\ NoticesNext
    \/ Only("push") /\ PushNext
    \/ Only("faces") /\ FacesNext
    \/ Only("talk") /\ TalkNext
    \/ Only("timing") /\ TimingNext
    \/ Only("runner") /\ RunnerNext
    \/ Only("clips") /\ ClipsNext
    \/ Only("tracks") /\ LabFacesNext
    \/ Only("gallery") /\ AgentGalleryNext
    \/ Only("voice") /\ VoiceNext
    \/ Only("archive") /\ ArchiveNext
    \/ Only("presence") /\ PresenceNext
    \/ Only("mic") /\ MicNext
    \/ Only("page") /\ AgentPageNext
    \/ Only("notes") /\ NotesNext
    \/ Only("frames") /\ FramesNext
    \/ Only("speech") /\ SpeechNext
    \/ Only("feed") /\ FeedNext
    \/ Only("capture") /\ CaptureNext
    \/ Only("models") /\ ModelNext

Fairness ==
    /\ WF_bridgeVars(part = "bridge" /\ Exchange)
    /\ WF_runVars(part = "run" /\ RunGoesOn)
    /\ WF_reminderVars(part = "reminders" /\ Rounds)
    /\ WF_reminderVars(part = "reminders" /\ TasksEnd)
    /\ WF_noticeVars(part = "notices" /\ Streaming)
    /\ WF_pushVars(part = "push" /\ FlushGoesOn)
    /\ \A d \in Endpoint, n \in Update : WF_pushVars(part = "push" /\ WaitIsOver(d, n))
    /\ WF_faceVars(part = "faces" /\ Offer)
    /\ WF_faceVars(part = "faces" /\ PostAnswered)
    /\ WF_faceVars(part = "faces" /\ BeatComesDue)
    /\ WF_faceVars(part = "faces" /\ HoldEnds)
    /\ WF_runnerVars(part = "runner" /\ CloseSteps)
    /\ WF_runnerVars(part = "runner" /\ OutsideWorld)
    /\ \A j \in Process : WF_runnerVars(part = "runner" /\ ProcessEnds(j))
    /\ \A m \in Moment : WF_clipVars(part = "clips" /\ TailEnds(m))
    /\ \A m \in Moment : SF_clipVars(part = "clips" /\ Encode(m))
    /\ \A m \in Moment : WF_clipVars(part = "clips" /\ EncodeEnds(m))
    /\ \A m \in Moment : WF_clipVars(part = "clips" /\ Interrupted(m))
    /\ \A m \in Moment : WF_clipVars(part = "clips" /\ Cleared(m))
    /\ WF_voiceVars(part = "voice" /\ Decides)
    /\ WF_archiveVars(part = "archive" /\ Archives)
    /\ WF_archiveVars(part = "archive" /\ HourPasses)
    /\ WF_micVars(part = "mic" /\ MicClosing)
    /\ WF_agentPageVars(part = "page" /\ Connects)
    /\ WF_agentPageVars(part = "page" /\ Polls)
    /\ WF_agentPageVars(part = "page" /\ Answers)
    /\ WF_speechVars(part = "speech" /\ FlushEnds)
    /\ WF_speechVars(part = "speech" /\ StopGraceEnds)

Spec == Init /\ [][Next]_allVars /\ Fairness

(* The state of the part that moves has its type; the others are as they began. *)
EdgesTypeOK ==
    CASE part = "bridge" -> BridgeTypeOK
      [] part = "run" -> RunTypeOK
      [] part = "camera" -> CameraTypeOK
      [] part = "reminders" -> RemindersTypeOK
      [] part = "notices" -> NoticesTypeOK
      [] part = "push" -> PushTypeOK
      [] part = "faces" -> FacesTypeOK
      [] part = "talk" -> TalkTypeOK
      [] part = "timing" -> TimingTypeOK
      [] part = "runner" -> RunnerTypeOK
      [] part = "clips" -> ClipsTypeOK
      [] part = "tracks" -> LabFacesTypeOK
      [] part = "gallery" -> AgentGalleryTypeOK
      [] part = "voice" -> VoiceTypeOK
      [] part = "archive" -> ArchiveTypeOK
      [] part = "presence" -> PresenceTypeOK
      [] part = "mic" -> MicTypeOK
      [] part = "page" -> AgentPageTypeOK
      [] part = "notes" -> NotesTypeOK
      [] part = "frames" -> FramesTypeOK
      [] part = "speech" -> SpeechTypeOK
      [] part = "feed" -> FeedTypeOK
      [] part = "capture" -> CaptureTypeOK
      [] part = "models" -> ModelTypeOK

(* The parts that stand still are as they began, so that a state is told by the part that
   moves and its variables. *)
PartView ==
    CASE part = "bridge" -> <<part, bridgeVars>>
      [] part = "run" -> <<part, runVars>>
      [] part = "camera" -> <<part, cameraVars>>
      [] part = "reminders" -> <<part, reminderVars>>
      [] part = "notices" -> <<part, noticeVars>>
      [] part = "push" -> <<part, pushVars>>
      [] part = "faces" -> <<part, faceVars>>
      [] part = "talk" -> <<part, talkVars>>
      [] part = "timing" -> <<part, timingVars>>
      [] part = "runner" -> <<part, runnerVars>>
      [] part = "clips" -> <<part, clipVars>>
      [] part = "tracks" -> <<part, facesVars>>
      [] part = "gallery" -> <<part, galleryVars>>
      [] part = "voice" -> <<part, voiceVars>>
      [] part = "archive" -> <<part, archiveVars>>
      [] part = "presence" -> <<part, presenceVars>>
      [] part = "mic" -> <<part, micVars>>
      [] part = "page" -> <<part, agentPageVars>>
      [] part = "notes" -> <<part, noteVars>>
      [] part = "frames" -> <<part, frameVars>>
      [] part = "speech" -> <<part, speechVars>>
      [] part = "feed" -> <<part, feedVars>>
      [] part = "capture" -> <<part, captureVars>>
      [] part = "models" -> <<part, modelVars>>

CONSTANTS ann, c1, s1, n1, m1, m2, u1, u2, k1, e1, v1, w1, w2, z1, p1, f1, g1, i1
OnePerson == {ann}
OneSegment == {s1}
RequestedPhoto == {c1}
OneNote == {n1}
PhotosShow == [c \in RequestedPhoto |-> {ann}]
AskedPhotos == RequestedPhoto
MayDelete == {<<"speech", s1>>, <<"vision", c1>>}
TwoReminders == {m1, m2}
EachCites == [r \in TwoReminders |-> IF r = m1 THEN u1 ELSE u2]
SomeGaps == {0, 2, 5}
SomeOffsets == {1, 6}
OneLabNote == {i1}
AboutTheOne == [n \in OneLabNote |-> g1]

-----------------------------------------------------------------------------
(* What must not be left as it is. *)

\* The user has deleted an event that a row still to be delivered brings again: the agent refuses every call.
Blocked == \E i \in delivered + 1 .. Len(outbox) :
    outbox[i].kind = "event" /\ outbox[i].of \in tombs /\ ~Known(outbox[i].of)

(* Nothing is left to be done.  In "faces" and "page" the world may always change first:
   then it is not held against them. *)
NothingOwed ==
    CASE part = "bridge" -> Blocked \/ delivered = Len(outbox)
      [] part = "run" -> \A i \in Photos : photo[i].at \in {"accepted", "failed"}
      [] part = "reminders" -> \A r \in Reminder : reminder[r].due => reminder[r].state \notin {"pending", "queued"}
      [] part = "notices" -> \A k \in Notice : notice[k] # "pending" \/ k \in shown \/ page = "closed"
      [] part = "push" -> \A d \in Endpoint, n \in Update :
             update[n] # "pending" \/ d \notin known \/ delivery[d][n].state \in {"sent", "failed"}
      [] part = "faces" -> ~ (facesShown = f1 /\ forwarding) \/ agentFaces = f1
      [] part = "runner" -> taskEnded => workspace.at = "none"
      [] part = "clips" -> \A m \in Moment : moment[m] # "recording"
      [] part = "voice" -> \A s \in {z1, p1} : ~ Undecided(s)
      [] part = "archive" -> version[0] = exported[0]
      [] part = "mic" -> \A i \in 1..2 : micSocket[i].at = "closed" => micSession[i] \notin OpenSession
      [] part = "page" -> ~ reachable \/ (pageState = "connected" /\ listed = PendingMessages)
      [] part = "speech" -> attemptPhase # "stopping"
      [] OTHER -> TRUE

(* What a component has taken on is settled whatever fails, restarts or is answered   *)
(* late: rows reach the agent, photos are accepted or reported, due reminders and     *)
(* pending notices are shown or given up, the workspace of a task that ended is       *)
(* closed, no moment stays in recording, no spoken command in doubt, no hour          *)
(* unexported, no session behind a closed socket; while the world holds still, the    *)
(* agent is told who is before the camera, and the page lists what is pending.        *)
EverythingSettles == []<>NothingOwed

-----------------------------------------------------------------------------
(* A stream of the lab or of the model has one owner: a reply of a service goes to    *)
(* the frame that asked, unless an error freed the slot, and the loop always goes on; *)
(* a speech session ends once, listens through one connection and leaves no cloud     *)
(* connection behind; no device is left on, and the session knows which are; a model  *)
(* that failed is left alone for a minute, unless a call that overlapped brought an   *)
(* answer of it; a cancelled call starts nothing and leaves no process.               *)
StreamsAreHonest ==
    /\ part = "frames" => OnlyErrorsMixFrames /\ StreamGoesOn
    /\ part = "speech" => SessionEndsOnce /\ OnlyTheRunningListens /\ GivesUpInTheEnd /\ NoCloudIsOrphaned
    /\ part = "capture" => NoDeviceIsLeftOn /\ TheSessionKnowsWhatIsOn
    /\ part = "mic" => StopReleases
    /\ part = "models" => TheBreakerHolds /\ CancelledIsNotRetried /\ NothingIsLeftBehind

(* The lab keeps to what it observed: a name on another face lasts two frames, only    *)
(* the face that began its track is enrolled, a command acts once and in its capture,  *)
(* and a note, an identification or an introduction only on the target it was said     *)
(* about, an absence was observed and a card is of who is there, tabs agree on notes,  *)
(* what was deleted stays deleted, and footage has a moment that answers for it.       *)
LabIsFaithful ==
    /\ part = "clips" => FootageIsAccountedFor
    /\ part = "voice" => CommandsAreMeant
    /\ part = "tracks" => WrongNameIsBrief /\ EnrolledBeganTheTrack
    /\ part = "presence" => AbsenceIsObserved /\ TheCardIsOfWhoIsThere
    /\ part = "feed" => TheTabIsTheSession
    /\ part = "notes" => DeletedStaysDeleted /\ RememberedOnce /\ TabsAgree

(* The record is true: what the bridge counts as delivered the agent holds, an        *)
(* exported hour is what the journal says, a search without a conflict found what was *)
(* current, words keep the time they were said at, and the page has one feed.         *)
HistoryIsTrue ==
    /\ part = "bridge" => NothingLost
    /\ part = "archive" => ExportedIsTheJournal /\ SearchTellsTheTruth
    /\ part = "timing" => WordsKeepTheirTime
    /\ part = "page" => OneFeed
=============================================================================
