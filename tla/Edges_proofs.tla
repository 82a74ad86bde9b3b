----------------------------- MODULE Edges_proofs -----------------------------
(***************************************************************************)
(* The sum of the edges' components, of which one moves and the others     *)
(* stand still: its steps are steps of a component, so what is inductive   *)
(* in a component holds in the sum, and the invariants that are stated of  *)
(* several components follow.                                              *)
(***************************************************************************)
EXTENDS MCEdges, AgentBridge_proofs, Capture_proofs, Agent_proofs, Lab_proofs

-----------------------------------------------------------------------------
(* A step of the sum is a step of one component, and the others stand still. *)

LEMMA BridgeMoves == [Next]_allVars => [BridgeNext]_bridgeVars
<1> SUFFICES ASSUME [Next]_allVars PROVE [BridgeNext]_bridgeVars
  OBVIOUS
<1>1. CASE Only("bridge") /\ BridgeNext
  BY <1>1
<1>2. CASE \E q \in Part \ {"bridge"} : Only(q)
  BY <1>2 DEF Only
<1>3. CASE UNCHANGED allVars
  BY <1>3 DEF allVars
<1> QED
  BY <1>1, <1>2, <1>3 DEF Next, Part

LEMMA RunMoves == [Next]_allVars => [RunNext]_runVars
<1> SUFFICES ASSUME [Next]_allVars PROVE [RunNext]_runVars
  OBVIOUS
<1>1. CASE Only("run") /\ RunNext
  BY <1>1
<1>2. CASE \E q \in Part \ {"run"} : Only(q)
  BY <1>2 DEF Only
<1>3. CASE UNCHANGED allVars
  BY <1>3 DEF allVars
<1> QED
  BY <1>1, <1>2, <1>3 DEF Next, Part

LEMMA CameraMoves == [Next]_allVars => [CameraNext]_cameraVars
<1> SUFFICES ASSUME [Next]_allVars PROVE [CameraNext]_cameraVars
  OBVIOUS
<1>1. CASE Only("camera") /\ CameraNext
  BY <1>1
<1>2. CASE \E q \in Part \ {"camera"} : Only(q)
  BY <1>2 DEF Only
<1>3. CASE UNCHANGED allVars
  BY <1>3 DEF allVars
<1> QED
  BY <1>1, <1>2, <1>3 DEF Next, Part

LEMMA RemindersMoves == [Next]_allVars => [RemindersNext]_reminderVars
<1> SUFFICES ASSUME [Next]_allVars PROVE [RemindersNext]_reminderVars
  OBVIOUS
<1>1. CASE Only("reminders") /\ RemindersNext
  BY <1>1
<1>2. CASE \E q \in Part \ {"reminders"} : Only(q)
  BY <1>2 DEF Only
<1>3. CASE UNCHANGED allVars
  BY <1>3 DEF allVars
<1> QED
  BY <1>1, <1>2, <1>3 DEF Next, Part

LEMMA NoticesMoves == [Next]_allVars => [NoticesNext]_noticeVars
<1> SUFFICES ASSUME [Next]_allVars PROVE [NoticesNext]_noticeVars
  OBVIOUS
<1>1. CASE Only("notices") /\ NoticesNext
  BY <1>1
<1>2. CASE \E q \in Part \ {"notices"} : Only(q)
  BY <1>2 DEF Only
<1>3. CASE UNCHANGED allVars
  BY <1>3 DEF allVars
<1> QED
  BY <1>1, <1>2, <1>3 DEF Next, Part

LEMMA PushMoves == [Next]_allVars => [PushNext]_pushVars
<1> SUFFICES ASSUME [Next]_allVars PROVE [PushNext]_pushVars
  OBVIOUS
<1>1. CASE Only("push") /\ PushNext
  BY <1>1
<1>2. CASE \E q \in Part \ {"push"} : Only(q)
  BY <1>2 DEF Only
<1>3. CASE UNCHANGED allVars
  BY <1>3 DEF allVars
<1> QED
  BY <1>1, <1>2, <1>3 DEF Next, Part

LEMMA FacesMoves == [Next]_allVars => [FacesNext]_faceVars
<1> SUFFICES ASSUME [Next]_allVars PROVE [FacesNext]_faceVars
  OBVIOUS
<1>1. CASE Only("faces") /\ FacesNext
  BY <1>1
<1>2. CASE \E q \in Part \ {"faces"} : Only(q)
  BY <1>2 DEF Only
<1>3. CASE UNCHANGED allVars
  BY <1>3 DEF allVars
<1> QED
  BY <1>1, <1>2, <1>3 DEF Next, Part

LEMMA TalkMoves == [Next]_allVars => [TalkNext]_talkVars
<1> SUFFICES ASSUME [Next]_allVars PROVE [TalkNext]_talkVars
  OBVIOUS
<1>1. CASE Only("talk") /\ TalkNext
  BY <1>1
<1>2. CASE \E q \in Part \ {"talk"} : Only(q)
  BY <1>2 DEF Only
<1>3. CASE UNCHANGED allVars
  BY <1>3 DEF allVars
<1> QED
  BY <1>1, <1>2, <1>3 DEF Next, Part

LEMMA TimingMoves == [Next]_allVars => [TimingNext]_timingVars
<1> SUFFICES ASSUME [Next]_allVars PROVE [TimingNext]_timingVars
  OBVIOUS
<1>1. CASE Only("timing") /\ TimingNext
  BY <1>1
<1>2. CASE \E q \in Part \ {"timing"} : Only(q)
  BY <1>2 DEF Only
<1>3. CASE UNCHANGED allVars
  BY <1>3 DEF allVars
<1> QED
  BY <1>1, <1>2, <1>3 DEF Next, Part

LEMMA RunnerMoves == [Next]_allVars => [RunnerNext]_runnerVars
<1> SUFFICES ASSUME [Next]_allVars PROVE [RunnerNext]_runnerVars
  OBVIOUS
<1>1. CASE Only("runner") /\ RunnerNext
  BY <1>1
<1>2. CASE \E q \in Part \ {"runner"} : Only(q)
  BY <1>2 DEF Only
<1>3. CASE UNCHANGED allVars
  BY <1>3 DEF allVars
<1> QED
  BY <1>1, <1>2, <1>3 DEF Next, Part

LEMMA ClipsMoves == [Next]_allVars => [ClipsNext]_clipVars
<1> SUFFICES ASSUME [Next]_allVars PROVE [ClipsNext]_clipVars
  OBVIOUS
<1>1. CASE Only("clips") /\ ClipsNext
  BY <1>1
<1>2. CASE \E q \in Part \ {"clips"} : Only(q)
  BY <1>2 DEF Only
<1>3. CASE UNCHANGED allVars
  BY <1>3 DEF allVars
<1> QED
  BY <1>1, <1>2, <1>3 DEF Next, Part

LEMMA TracksMoves == [Next]_allVars => [LabFacesNext]_facesVars
<1> SUFFICES ASSUME [Next]_allVars PROVE [LabFacesNext]_facesVars
  OBVIOUS
<1>1. CASE Only("tracks") /\ LabFacesNext
  BY <1>1
<1>2. CASE \E q \in Part \ {"tracks"} : Only(q)
  BY <1>2 DEF Only
<1>3. CASE UNCHANGED allVars
  BY <1>3 DEF allVars
<1> QED
  BY <1>1, <1>2, <1>3 DEF Next, Part

LEMMA GalleryMoves == [Next]_allVars => [AgentGalleryNext]_galleryVars
<1> SUFFICES ASSUME [Next]_allVars PROVE [AgentGalleryNext]_galleryVars
  OBVIOUS
<1>1. CASE Only("gallery") /\ AgentGalleryNext
  BY <1>1
<1>2. CASE \E q \in Part \ {"gallery"} : Only(q)
  BY <1>2 DEF Only
<1>3. CASE UNCHANGED allVars
  BY <1>3 DEF allVars
<1> QED
  BY <1>1, <1>2, <1>3 DEF Next, Part

LEMMA VoiceMoves == [Next]_allVars => [VoiceNext]_voiceVars
<1> SUFFICES ASSUME [Next]_allVars PROVE [VoiceNext]_voiceVars
  OBVIOUS
<1>1. CASE Only("voice") /\ VoiceNext
  BY <1>1
<1>2. CASE \E q \in Part \ {"voice"} : Only(q)
  BY <1>2 DEF Only
<1>3. CASE UNCHANGED allVars
  BY <1>3 DEF allVars
<1> QED
  BY <1>1, <1>2, <1>3 DEF Next, Part

LEMMA ArchiveMoves == [Next]_allVars => [ArchiveNext]_archiveVars
<1> SUFFICES ASSUME [Next]_allVars PROVE [ArchiveNext]_archiveVars
  OBVIOUS
<1>1. CASE Only("archive") /\ ArchiveNext
  BY <1>1
<1>2. CASE \E q \in Part \ {"archive"} : Only(q)
  BY <1>2 DEF Only
<1>3. CASE UNCHANGED allVars
  BY <1>3 DEF allVars
<1> QED
  BY <1>1, <1>2, <1>3 DEF Next, Part

LEMMA PresenceMoves == [Next]_allVars => [PresenceNext]_presenceVars
<1> SUFFICES ASSUME [Next]_allVars PROVE [PresenceNext]_presenceVars
  OBVIOUS
<1>1. CASE Only("presence") /\ PresenceNext
  BY <1>1
<1>2. CASE \E q \in Part \ {"presence"} : Only(q)
  BY <1>2 DEF Only
<1>3. CASE UNCHANGED allVars
  BY <1>3 DEF allVars
<1> QED
  BY <1>1, <1>2, <1>3 DEF Next, Part

LEMMA MicMoves == [Next]_allVars => [MicNext]_micVars
<1> SUFFICES ASSUME [Next]_allVars PROVE [MicNext]_micVars
  OBVIOUS
<1>1. CASE Only("mic") /\ MicNext
  BY <1>1
<1>2. CASE \E q \in Part \ {"mic"} : Only(q)
  BY <1>2 DEF Only
<1>3. CASE UNCHANGED allVars
  BY <1>3 DEF allVars
<1> QED
  BY <1>1, <1>2, <1>3 DEF Next, Part

LEMMA PageMoves == [Next]_allVars => [AgentPageNext]_agentPageVars
<1> SUFFICES ASSUME [Next]_allVars PROVE [AgentPageNext]_agentPageVars
  OBVIOUS
<1>1. CASE Only("page") /\ AgentPageNext
  BY <1>1
<1>2. CASE \E q \in Part \ {"page"} : Only(q)
  BY <1>2 DEF Only
<1>3. CASE UNCHANGED allVars
  BY <1>3 DEF allVars
<1> QED
  BY <1>1, <1>2, <1>3 DEF Next, Part

LEMMA NotesMoves == [Next]_allVars => [NotesNext]_noteVars
<1> SUFFICES ASSUME [Next]_allVars PROVE [NotesNext]_noteVars
  OBVIOUS
<1>1. CASE Only("notes") /\ NotesNext
  BY <1>1
<1>2. CASE \E q \in Part \ {"notes"} : Only(q)
  BY <1>2 DEF Only
<1>3. CASE UNCHANGED allVars
  BY <1>3 DEF allVars
<1> QED
  BY <1>1, <1>2, <1>3 DEF Next, Part

LEMMA FramesMoves == [Next]_allVars => [FramesNext]_frameVars
<1> SUFFICES ASSUME [Next]_allVars PROVE [FramesNext]_frameVars
  OBVIOUS
<1>1. CASE Only("frames") /\ FramesNext
  BY <1>1
<1>2. CASE \E q \in Part \ {"frames"} : Only(q)
  BY <1>2 DEF Only
<1>3. CASE UNCHANGED allVars
  BY <1>3 DEF allVars
<1> QED
  BY <1>1, <1>2, <1>3 DEF Next, Part

LEMMA SpeechMoves == [Next]_allVars => [SpeechNext]_speechVars
<1> SUFFICES ASSUME [Next]_allVars PROVE [SpeechNext]_speechVars
  OBVIOUS
<1>1. CASE Only("speech") /\ SpeechNext
  BY <1>1
<1>2. CASE \E q \in Part \ {"speech"} : Only(q)
  BY <1>2 DEF Only
<1>3. CASE UNCHANGED allVars
  BY <1>3 DEF allVars
<1> QED
  BY <1>1, <1>2, <1>3 DEF Next, Part

LEMMA FeedMoves == [Next]_allVars => [FeedNext]_feedVars
<1> SUFFICES ASSUME [Next]_allVars PROVE [FeedNext]_feedVars
  OBVIOUS
<1>1. CASE Only("feed") /\ FeedNext
  BY <1>1
<1>2. CASE \E q \in Part \ {"feed"} : Only(q)
  BY <1>2 DEF Only
<1>3. CASE UNCHANGED allVars
  BY <1>3 DEF allVars
<1> QED
  BY <1>1, <1>2, <1>3 DEF Next, Part

LEMMA CaptureMoves == [Next]_allVars => [CaptureNext]_captureVars
<1> SUFFICES ASSUME [Next]_allVars PROVE [CaptureNext]_captureVars
  OBVIOUS
<1>1. CASE Only("capture") /\ CaptureNext
  BY <1>1
<1>2. CASE \E q \in Part \ {"capture"} : Only(q)
  BY <1>2 DEF Only
<1>3. CASE UNCHANGED allVars
  BY <1>3 DEF allVars
<1> QED
  BY <1>1, <1>2, <1>3 DEF Next, Part

LEMMA ModelsMoves == [Next]_allVars => [ModelNext]_modelVars
<1> SUFFICES ASSUME [Next]_allVars PROVE [ModelNext]_modelVars
  OBVIOUS
<1>1. CASE Only("models") /\ ModelNext
  BY <1>1
<1>2. CASE \E q \in Part \ {"models"} : Only(q)
  BY <1>2 DEF Only
<1>3. CASE UNCHANGED allVars
  BY <1>3 DEF allVars
<1> QED
  BY <1>1, <1>2, <1>3 DEF Next, Part

-----------------------------------------------------------------------------
(* The record is true. *)

HistoryInv == BridgeInv /\ TimingInv /\ FeedInv /\ ArchiveInv

LEMMA HistoryBegins == Init => HistoryInv
BY InitInv, TimingStarts, FeedStarts, ArchiveStarts DEF Init, HistoryInv

LEMMA HistoryStep == HistoryInv /\ [Next]_allVars => HistoryInv'
<1> SUFFICES ASSUME HistoryInv, [Next]_allVars PROVE HistoryInv'
  OBVIOUS
<1>1. BridgeInv'
  BY BridgeMoves, BridgeStep DEF HistoryInv
<1>2. TimingInv'
  BY TimingMoves, TimingStep DEF HistoryInv
<1>3. FeedInv'
  BY PageMoves, FeedStep DEF HistoryInv
<1>4. ArchiveInv'
  BY ArchiveMoves, ArchiveStep DEF HistoryInv
<1> QED
  BY <1>1, <1>2, <1>3, <1>4 DEF HistoryInv

\* Whatever the sum does, what the bridge counts as delivered the agent holds, an hour whose export is
\* recorded is what the journal says of it, a search that reports no conflict found what was current,
\* words keep the time they were said at, and the page has one feed.
THEOREM HistoryStaysTrue == Spec => []HistoryIsTrue
<1>1. Init => HistoryInv
  BY HistoryBegins
<1>2. HistoryInv /\ [Next]_allVars => HistoryInv'
  BY HistoryStep
<1>3. HistoryInv => HistoryIsTrue
  BY DeliveredHolds, TimingMeans, FeedMeans, ArchiveMeans DEF HistoryInv, HistoryIsTrue
<1> QED
  BY <1>1, <1>2, <1>3, PTL DEF Spec

-----------------------------------------------------------------------------
(* The streams are honest. *)

StreamsInv == FramesInv /\ SpeechInv /\ LabCaptureInv /\ MicInv /\ OffWhenStopped /\ ModelInv

LEMMA StreamsBegin == Init => StreamsInv
<1>1. MicInit => OffWhenStopped
  BY DEF MicInit, OffWhenStopped
<1> QED
  BY <1>1, FramesStart, SpeechBegins, CaptureStartsWell, MicBegins, ModelStarts DEF Init, StreamsInv

LEMMA StreamsStep ==
  ASSUME ~StopsWhileAsking
  PROVE  StreamsInv /\ [Next]_allVars => StreamsInv'
<1> SUFFICES ASSUME StreamsInv, [Next]_allVars PROVE StreamsInv'
  OBVIOUS
<1>1. FramesInv'
  BY FramesMoves, FramesStep DEF StreamsInv
<1>2. SpeechInv'
  BY SpeechMoves, SpeechStep DEF StreamsInv
<1>3. LabCaptureInv'
  BY CaptureMoves, LabCaptureStep DEF StreamsInv
<1>4. [MicNext]_micVars
  BY MicMoves
<1>5. MicInv' /\ OffWhenStopped'
  BY <1>4, MicStep, StoppedStaysOff DEF StreamsInv
<1>6. ModelInv'
  BY ModelsMoves, ModelStep DEF StreamsInv
<1> QED
  BY <1>1, <1>2, <1>3, <1>5, <1>6 DEF StreamsInv

\* Whatever the sum does, and unless the user stops the microphone while the browser still asks for it,
\* a reply goes to the frame that asked unless an error freed the slot, a speech session ends once and
\* leaves no cloud connection, no device is left on, and a model that failed is left alone for its minute.
THEOREM StreamsStayHonest == ~StopsWhileAsking => (Spec => []StreamsAreHonest)
<1> SUFFICES ASSUME ~StopsWhileAsking PROVE Spec => []StreamsAreHonest
  OBVIOUS
<1>1. Init => StreamsInv
  BY StreamsBegin
<1>2. StreamsInv /\ [Next]_allVars => StreamsInv'
  BY StreamsStep
<1>3. StreamsInv => StreamsAreHonest
  BY FramesMean, SpeechMeans, LabCaptureMeans, MicMeans, ModelMeans DEF StreamsInv, StreamsAreHonest
<1> QED
  BY <1>1, <1>2, <1>3, PTL DEF Spec

-----------------------------------------------------------------------------
(* What the lab holds of people is theirs. *)

LabInv == ClipsInv /\ VoiceInv /\ FacesLabInv /\ PresenceInv /\ LabFeedInv /\ NotesInv

LEMMA LabBegins == Init => LabInv
BY ClipsStart, VoiceStarts, FacesLabStarts, PresenceStarts, LabFeedStart, NotesStart DEF Init, LabInv

LEMMA LabStep == LabInv /\ [Next]_allVars => LabInv'
<1> SUFFICES ASSUME LabInv, [Next]_allVars PROVE LabInv'
  OBVIOUS
<1>1. ClipsInv'
  BY ClipsMoves, ClipsStep DEF LabInv
<1>2. VoiceInv'
  BY VoiceMoves, VoiceStep DEF LabInv
<1>3. FacesLabInv'
  BY TracksMoves, FacesLabStep DEF LabInv
<1>4. PresenceInv'
  BY PresenceMoves, PresenceStep DEF LabInv
<1>5. LabFeedInv'
  BY FeedMoves, LabFeedStep DEF LabInv
<1>6. NotesInv'
  BY NotesMoves, NotesStep DEF LabInv
<1> QED
  BY <1>1, <1>2, <1>3, <1>4, <1>5, <1>6 DEF LabInv

\* Whatever the sum does, a name stays on a face that is not theirs for two frames at most, who was
\* introduced is who is enrolled, a command acts on whom it was said about, an absence was observed, a
\* card is of who is there, the tabs show the session and agree on the notes, what was deleted stays
\* deleted, and footage has a moment that answers for it.
THEOREM LabStaysFaithful == Spec => []LabIsFaithful
<1>1. Init => LabInv
  BY LabBegins
<1>2. LabInv /\ [Next]_allVars => LabInv'
  BY LabStep
<1>3. LabInv => LabIsFaithful
  BY ClipsMean, VoiceMeans, FacesLabMean, PresenceMeans, LabFeedMeans, NotesMean DEF LabInv, LabIsFaithful
<1> QED
  BY <1>1, <1>2, <1>3, PTL DEF Spec

-----------------------------------------------------------------------------
(* The rest of the capture and of the agent; and the types of the whole. *)

CaptureInv == RunInv /\ CameraInv /\ LiveFacesInv /\ TalkInv /\ TalkBounds /\ ChunksFit
AgentInv == RunnerInv /\ RemindersInv /\ NoticesInv /\ PushInv /\ GalleryInv

LEMMA CaptureBegins == Init => CaptureInv
BY RunStarts, CameraStarts, LiveFacesStart, TalkStarts, TalkBoundsStart, ChunksFitAtFirst DEF Init, CaptureInv

LEMMA CaptureStep == HistoryInv /\ CaptureInv /\ [Next]_allVars => CaptureInv'
<1> SUFFICES ASSUME HistoryInv, CaptureInv, [Next]_allVars PROVE CaptureInv'
  OBVIOUS
<1>1. RunInv'
  BY RunMoves, RunStep DEF CaptureInv
<1>2. CameraInv'
  BY CameraMoves, CameraStep DEF CaptureInv
<1>3. LiveFacesInv'
  BY FacesMoves, LiveFacesStep DEF CaptureInv
<1>4. TalkInv' /\ TalkBounds'
  BY TalkMoves, TalkStep, TalkBoundsStep DEF CaptureInv
<1>5. ChunksFit'
  BY TimingMoves, ChunksFitStill DEF HistoryInv, CaptureInv
<1> QED
  BY <1>1, <1>2, <1>3, <1>4, <1>5 DEF CaptureInv

LEMMA AgentBegins == Init => AgentInv
BY RunnerStarts, RemindersStart, NoticesStart, PushStarts, GalleryStarts DEF Init, AgentInv

LEMMA AgentStep == AgentInv /\ [Next]_allVars => AgentInv'
<1> SUFFICES ASSUME AgentInv, [Next]_allVars PROVE AgentInv'
  OBVIOUS
<1>1. RunnerInv'
  BY RunnerMoves, RunnerStep DEF AgentInv
<1>2. RemindersInv'
  BY RemindersMoves, RemindersStep DEF AgentInv
<1>3. NoticesInv'
  BY NoticesMoves, NoticesStep DEF AgentInv
<1>4. PushInv'
  BY PushMoves, PushStep DEF AgentInv
<1>5. GalleryInv'
  BY GalleryMoves, GalleryStep DEF AgentInv
<1> QED
  BY <1>1, <1>2, <1>3, <1>4, <1>5 DEF AgentInv

\* What every part keeps.
EdgesInv == part \in Part /\ HistoryInv /\ StreamsInv /\ LabInv /\ CaptureInv /\ AgentInv

LEMMA EdgesMean == EdgesInv => EdgesTypeOK
<1> SUFFICES ASSUME EdgesInv PROVE EdgesTypeOK
  OBVIOUS
<1>1. BridgeTypeOK /\ TimingTypeOK /\ AgentPageTypeOK /\ ArchiveTypeOK
  BY TimingTypesMean, FeedMeans, ArchiveMeans DEF EdgesInv, HistoryInv, CaptureInv, BridgeInv
<1>2. FramesTypeOK /\ SpeechTypeOK /\ CaptureTypeOK /\ MicTypeOK /\ ModelTypeOK
  BY FramesMean, SpeechMeans, LabCaptureMeans, MicMeans, ModelMeans DEF EdgesInv, StreamsInv
<1>3. ClipsTypeOK /\ VoiceTypeOK /\ LabFacesTypeOK /\ PresenceTypeOK /\ FeedTypeOK /\ NotesTypeOK
  BY ClipsMean, VoiceMeans, FacesLabMean, PresenceMeans, LabFeedMeans, NotesMean DEF EdgesInv, LabInv
<1>4. RunTypeOK /\ CameraTypeOK /\ FacesTypeOK /\ TalkTypeOK
  BY RunMeans, CameraMeans, LiveFacesMean, TalkMeans DEF EdgesInv, CaptureInv
<1>5. RunnerTypeOK /\ RemindersTypeOK /\ NoticesTypeOK /\ PushTypeOK /\ AgentGalleryTypeOK
  BY RemindersMean, PushMeans, GalleryMeans DEF EdgesInv, AgentInv, RunnerInv, NoticesInv
<1>6. part \in Part
  BY DEF EdgesInv
<1> QED
  BY <1>1, <1>2, <1>3, <1>4, <1>5, <1>6 DEF EdgesTypeOK, Part

\* Whatever the sum does, and unless the user stops the microphone while the browser still asks for it,
\* the state of every part has its type.
THEOREM EdgesTypes == ~StopsWhileAsking => (Spec => []EdgesTypeOK)
<1> SUFFICES ASSUME ~StopsWhileAsking PROVE Spec => []EdgesTypeOK
  OBVIOUS
<1>1. Init => EdgesInv
  BY HistoryBegins, StreamsBegin, LabBegins, CaptureBegins, AgentBegins DEF Init, EdgesInv
<1>2. EdgesInv /\ [Next]_allVars => EdgesInv'
  <2> SUFFICES ASSUME EdgesInv, [Next]_allVars PROVE EdgesInv'
    OBVIOUS
  <2>1. part' = part
    BY DEF Next, Only, allVars
  <2> QED
    BY <2>1, HistoryStep, StreamsStep, LabStep, CaptureStep, AgentStep DEF EdgesInv
<1> QED
  BY <1>1, <1>2, EdgesMean, PTL DEF Spec

=============================================================================
