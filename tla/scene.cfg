SPECIFICATION Spec
CONSTANTS
    Capture <- TwoCaptures
    Requested <- SecondRequested
    Segment <- TwoSegments
    EndsBy <- EndsInTurn
    Speech <- Corrected
    Earlier <- Second
    WindowSize = 1
    VisionSlots = 2
    BatchSize = 2
    MaxPending = 1
    Reserve = 1
    BatchWait = TRUE
    MaxClaims = 1
    MaxUploads = 1
    MaxCalls = 1
    MaxMishaps = 1
INVARIANTS TypeOK LiveNotesAreCurrent ProjectionsAreCurrent SpeechIsKept IndexMatchesNotes WorkHasWorker
PROPERTIES StateKeepsItsTime EveryCaptureSettles
