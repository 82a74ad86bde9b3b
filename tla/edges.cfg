SPECIFICATION Spec
CONSTANTS
 ann = ann
 c1 = c1
 s1 = s1
 n1 = n1
 m1 = m1
 m2 = m2
 u1 = u1
 u2 = u2
 k1 = k1
 e1 = e1
 v1 = v1
 w1 = w1
 w2 = w2
 z1 = z1
 p1 = p1
 f1 = f1
 g1 = g1
 i1 = i1
 Person <- OnePerson
 Segment <- OneSegment
 Photo <- RequestedPhoto
 Note <- OneNote
 Shows <- PhotosShow
 Revisions = {0, 1}
 Asked <- AskedPhotos
 Deletable <- MayDelete
 BatchRows = 2
 MaxRows = 3
 MaxFaults = 1
 MaxPhotos = 2
 QueueLength = 1
 BusyRetries = 1
 MaxConnections = 1
 MaxMishaps = 1
 InFlight = 1
 Tries = 1
 Request = {r1}
 MaxPages = 1
 MaxOpen = 1
 MaxTroubles = 1
 Reminder <- TwoReminders
 Somebody = {"ann"}
 Cites <- EachCites
 MaxWakes = 3
 Notice = {k1}
 MaxBreaks = 1
 Endpoint = {e1}
 Update = {v1}
 MaxPushAttempts = 2
 MaxPushFaults = 1
 FaceSet = {f1, f2}
 MaxFailures = 2
 TalkSegment = {t1}
 MaxStreams = 2
 MaxRevisions = 2
 Retries = 1
 FlushChunks = 1
 QueueMax = 1
 CHUNK = 2
 TOLERANCE = 3
 Gaps <- SomeGaps
 Offsets <- SomeOffsets
 MaxChunks = 4
 RunnerCall = {d1, d2}
 Process = {j1}
 MaxWorkspaces = 2
 Moment = {w1, w2}
 MaxTails = 2
 MaxKept = 1
 Face = {a, b}
 Enrolled = {}
 MaxTracks = 3
 Samples = 2
 Sightings = 1
 Spoken = {y1}
 MaxFrames = 4
 MaxEnrolls = 1
 MaxClaims = 1
 MaxDeletes = 1
 Final = {z1, z2}
 Scene = {p1}
 Someone = {x1}
 MaxGenerations = 1
 Utterance = {q1}
 MaxRevision = 2
 MaxJournal = 2
 MaxHour = 1
 MaxCrashes = 1
 MaxSearches = 1
 LabPerson = {g1}
 Object = {o1}
 CoastTime = 1
 GapTime = 1
 EndTime = 2
 MaxMeetings = 1
 PageMessage = {k1}
 PageTroubles = 2
 MicStarts = 2
 MicChunks = 3
 MicFaults = 1
 StopsWhileAsking = FALSE
 NoteTab = {i1, i2}
 NotePerson = {g1}
 Saying = {l1, l2}
 Overheard = {l1}
 MaxNotes = 2
 NoteTroubles = 1
 FaceStream = TRUE
 FrameStarts = 2
 MaxLabFrames = 3
 FrameCommands = 1
 SpeechStarts = 2
 SpeechConns = 3
 MaxReconnects = 1
 FeedPerson = {g1}
 LabNote <- OneLabNote
 LabMoment = {w1}
 NoteAbout <- AboutTheOne
 NoteVersions = 2
 QueueLimit = 2
 MaxChanges = 3
 MaxLinks = 2
 Device = {x1, x2}
 CaptureStarts = 3
 ControlLinks = 2
 ModelCall = {x1, x2, d1}
 Cooldown = 1
 HasFallback = TRUE
 MaxModelClock = 2
VIEW PartView
INVARIANTS
 EdgesTypeOK
 ForgottenStayForgotten
 FacesAreItsOwn
 RemindedOnce
 AckedWasSeen
 PushIsHonest
 NothingRunsOn
 NothingOutlivesItsSource
 EverySampleKeepsItsTime
 ShownIsJoined
 StreamsAreHonest
 LabIsFaithful
 HistoryIsTrue
PROPERTIES
 FeedIsExactlyOnce
 AnswersAreFinal
 RevisionsKeepTheirOrder
 EverythingSettles
CHECK_DEADLOCK FALSE
