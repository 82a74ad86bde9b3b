----------------------------- MODULE Lab_proofs -----------------------------
(***************************************************************************)
(* Calls of models, the streams of the perception lab and what it holds of *)
(* people, for any number of calls, starts, frames, connections, people,   *)
(* notes and moments.                                                      *)
(*                                                                         *)
(* A model that failed is left alone: the minute runs from the last        *)
(* failure (MinuteRuns).  The session will know of every device: what it   *)
(* believes is on, after what the page has yet to tell it (WillBelieve),   *)
(* is what is on (SessionWillKnow).  Until an error has released the slot, *)
(* the frame in flight is on one of the two queues, once, and no other is  *)
(* (OneOut).  Speech gives up since the connections in a row are as many   *)
(* as the attempts that are counted (SessionHolds).                        *)
(*                                                                         *)
(* A wrong name stands for as many frames as the last votes did not        *)
(* confirm it (WrongIsUnconfirmed), and a track that began with who was    *)
(* introduced keeps that anchor (IntroducedIsAnchor).  A spoken command    *)
(* waits for what it may still be overtaken by (VoiceInv).  A card stands  *)
(* as long as its person is in the foreground and its reminder is due      *)
(* (CardStands).  What a tab holds of notes is what its session was told,  *)
(* and the session what is on disk (SessionsInv, RowsInv).  A clip that is *)
(* shown as saved has its record, its file and no worker; a file has a     *)
(* record, a worker or the retention to answer for it (Accounted).  The    *)
(* messages that wait for a tab lead from what it shows to what the        *)
(* session has, and none of them is stale to it (Leads).                   *)
(***************************************************************************)
EXTENDS ModelCalls, LabCapture, LabFrames, LabSpeech, LabFaces, VoiceDecisions,
        LabPresence, LabNotes, Clips, LabFeed,
        FiniteSetTheorems, FunctionTheorems, SequenceTheorems, TLAPS

-----------------------------------------------------------------------------
(* Calls of the models *)

ModelRows ==
    /\ modelClock \in Nat /\ modelClock <= MaxModelClock /\ unavailableUntil \in Nat
    /\ callPhase \in [ModelCall -> {"idle", "primary", "fallback", "answered", "failed", "cancelled"}]
    /\ callAborted \subseteq ModelCall /\ child \subseteq pipes /\ folders \subseteq ModelCall
    /\ child \subseteq ModelCall

\* The minute runs from the last failure; while nothing has lifted it, who is with the provider was so then.
MinuteRuns ==
    /\ failedAt # NotFailed => failedAt \in Nat /\ HasFallback /\ unavailableUntil <= failedAt + Cooldown
    /\ ItsMinute /\ lifting = {} => unavailableUntil = failedAt + Cooldown /\ WithPrimary \subseteq underWay
    /\ lifting # {} => lifting \cap underWay # {}

ModelInv == ModelRows /\ MinuteRuns /\ tooEarly = {} /\ CancelledIsNotRetried /\ NothingIsLeftBehind

LEMMA ModelBounds == Cooldown \in Nat /\ Cooldown > 0 /\ HasFallback \in BOOLEAN /\ MaxModelClock \in Nat
BY ModelCallsAssumption

\* When nobody comes to the provider, and only time passes, the minute runs on.
LEMMA MinuteGoesOn ==
  ASSUME ModelRows, MinuteRuns, UNCHANGED <<unavailableUntil, failedAt, underWay, lifting>>,
         modelClock' \in Nat, modelClock' >= modelClock, WithPrimary' \subseteq WithPrimary
  PROVE  MinuteRuns'
<1>1. ItsMinute' => ItsMinute
  BY ModelBounds DEF ItsMinute, MinuteRuns, ModelRows
<1> QED
  BY <1>1 DEF MinuteRuns

LEMMA ModelStarts == ModelInit => ModelInv
<1> SUFFICES ASSUME ModelInit PROVE ModelInv
  OBVIOUS
<1>1. modelClock \in Nat /\ modelClock <= MaxModelClock /\ unavailableUntil \in Nat
  BY ModelBounds DEF ModelInit
<1>2. ModelRows
  BY <1>1 DEF ModelInit, ModelRows
<1>3. MinuteRuns /\ tooEarly = {} /\ CancelledIsNotRetried /\ NothingIsLeftBehind
  BY DEF ModelInit, MinuteRuns, ItsMinute, CancelledIsNotRetried, NothingIsLeftBehind
<1> QED
  BY <1>2, <1>3 DEF ModelInv

LEMMA ModelMeans ==
  ModelInv => ModelTypeOK /\ TheBreakerHolds /\ CancelledIsNotRetried /\ NothingIsLeftBehind
<1> SUFFICES ASSUME ModelInv PROVE ModelTypeOK /\ TheBreakerHolds
  BY DEF ModelInv
<1>1. ModelTypeOK
  <2>1. modelClock \in 0..MaxModelClock
    BY ModelBounds DEF ModelInv, ModelRows
  <2> QED
    BY <2>1 DEF ModelInv, ModelRows, ModelTypeOK
<1>2. TheBreakerHolds
  <2>1. failedAt # NotFailed /\ ~ItsMinute => modelClock >= unavailableUntil
    BY ModelBounds DEF ModelInv, ModelRows, MinuteRuns, ItsMinute
  <2> QED
    BY <2>1 DEF ModelInv, MinuteRuns, TheBreakerHolds, PrimaryIsTried
<1> QED
  BY <1>1, <1>2

LEMMA BeginKeeps ==
  ASSUME ModelInv, NEW c \in ModelCall, BeginCall(c)
  PROVE  ModelInv'
<1>i. ModelRows /\ MinuteRuns /\ tooEarly = {} /\ CancelledIsNotRetried /\ NothingIsLeftBehind
  BY DEF ModelInv
<1>u. UNCHANGED <<modelClock, unavailableUntil, callAborted, failedAt, underWay, lifting, lateFallback>>
  BY DEF BeginCall
<1>1. CancelledIsNotRetried'
  BY <1>i, <1>u DEF CancelledIsNotRetried
<1>2. CASE PrimaryIsTried
  <2>1. /\ callPhase' = [callPhase EXCEPT ![c] = "primary"] /\ folders' = folders \cup {c}
        /\ child' = child \cup {c} /\ pipes' = pipes \cup {c}
        /\ tooEarly' = IF ItsMinute /\ lifting = {} THEN tooEarly \cup {c} ELSE tooEarly
    BY <1>2 DEF BeginCall, Goes
  <2>2. ~(ItsMinute /\ lifting = {})
    <3>1. modelClock \in Nat /\ unavailableUntil \in Nat
      BY <1>i DEF ModelRows
    <3> QED
      BY <1>2, <1>i, <3>1, ModelBounds DEF PrimaryIsTried, MinuteRuns, ItsMinute
  <2>3. tooEarly' = {}
    BY <1>i, <2>1, <2>2
  <2>4. ModelRows'
    BY <1>i, <1>u, <2>1 DEF ModelRows
  <2>5. NothingIsLeftBehind'
    BY <1>i, <2>1 DEF NothingIsLeftBehind, ModelRows
  <2>6. MinuteRuns'
    BY <1>i, <1>u, <2>2 DEF MinuteRuns, ItsMinute
  <2> QED
    BY <1>1, <2>3, <2>4, <2>5, <2>6 DEF ModelInv
<1>3. CASE ~PrimaryIsTried
  <2>1. callPhase' = [callPhase EXCEPT ![c] = "fallback"] /\ UNCHANGED <<folders, child, pipes, tooEarly>>
    BY <1>3 DEF BeginCall, Goes
  <2>2. ModelRows'
    BY <1>i, <1>u, <2>1 DEF ModelRows
  <2>3. NothingIsLeftBehind'
    <3>1. callPhase[c] = "idle"
      BY DEF BeginCall
    <3> QED
      BY <1>i, <2>1, <3>1 DEF NothingIsLeftBehind, ModelRows
  <2>4. WithPrimary' \subseteq WithPrimary
    BY <1>i, <2>1 DEF WithPrimary, ModelRows
  <2>5. MinuteRuns'
    BY <1>i, <1>u, <2>4, MinuteGoesOn DEF ModelRows
  <2> QED
    BY <1>1, <1>i, <2>1, <2>2, <2>3, <2>5 DEF ModelInv
<1> QED
  BY <1>2, <1>3

LEMMA PrimaryEndsKeeps ==
  ASSUME ModelInv, NEW c \in ModelCall, PrimaryAnswers(c) \/ PrimaryFails(c)
  PROVE  ModelInv'
<1>i. ModelRows /\ MinuteRuns /\ tooEarly = {} /\ CancelledIsNotRetried /\ NothingIsLeftBehind
  BY DEF ModelInv
<1>u. /\ UNCHANGED <<modelClock, callAborted, tooEarly>> /\ child' = child \ {c} /\ folders' = folders \ {c}
      /\ c \notin pipes' /\ pipes \ {c} \subseteq pipes'
      /\ \E p \in {"answered", "failed", "cancelled", "fallback"} : callPhase' = [callPhase EXCEPT ![c] = p]
  BY DEF PrimaryAnswers, PrimaryFails, Goes, CleanUp, Killed
<1>p. callPhase[c] = "primary" /\ WithPrimary' = WithPrimary \ {c}
  <2>1. callPhase[c] = "primary"
    BY DEF PrimaryAnswers, PrimaryFails
  <2>2. \A d \in ModelCall \ {c} : callPhase'[d] = callPhase[d]
    BY <1>u, <1>i DEF ModelRows
  <2>3. callPhase'[c] # "primary"
    BY <1>u, <1>i DEF ModelRows
  <2> QED
    BY <2>1, <2>2, <2>3 DEF WithPrimary
<1>2. MinuteRuns' /\ unavailableUntil' \in Nat
  <2>1. CASE PrimaryAnswers(c)
    <3>1. /\ unavailableUntil' = 0 /\ lifting' = IF ItsMinute THEN lifting \cup {c} ELSE lifting
          /\ UNCHANGED <<modelClock, failedAt, underWay>>
      BY <2>1 DEF PrimaryAnswers
    <3>2. ItsMinute' = ItsMinute
      BY <3>1 DEF ItsMinute
    <3>3. failedAt # NotFailed => failedAt \in Nat /\ HasFallback /\ 0 <= failedAt + Cooldown
      BY <1>i, ModelBounds DEF MinuteRuns
    <3>4. ItsMinute => lifting' # {} /\ lifting' \cap underWay # {}
      <4>1. CASE lifting = {}
        BY <4>1, <3>1, <1>p, <1>i DEF MinuteRuns, WithPrimary
      <4>2. CASE lifting # {}
        BY <4>2, <3>1, <1>i DEF MinuteRuns
      <4> QED
        BY <4>1, <4>2
    <3> QED
      BY <3>1, <3>2, <3>3, <3>4, <1>i DEF MinuteRuns
  <2>2. CASE UNCHANGED <<unavailableUntil, failedAt, underWay, lifting>>
    <3>1. modelClock' \in Nat /\ modelClock' >= modelClock
      BY <1>u, <1>i DEF ModelRows
    <3> QED
      BY <2>2, <3>1, <1>p, <1>i, MinuteGoesOn DEF ModelRows
  <2>3. CASE /\ HasFallback /\ unavailableUntil' = modelClock + Cooldown /\ failedAt' = modelClock
             /\ underWay' = WithPrimary \ {c} /\ lifting' = {}
    <3>1. modelClock \in Nat /\ failedAt' \in Nat /\ unavailableUntil' = failedAt' + Cooldown
      BY <2>3, <1>i DEF ModelRows
    <3> QED
      BY <2>3, <3>1, <1>p, ModelBounds DEF MinuteRuns
  <2> QED
    BY <2>1, <2>2, <2>3, ModelBounds DEF PrimaryFails, OpenUntil
<1>3. CancelledIsNotRetried'
  BY <1>i DEF PrimaryAnswers, PrimaryFails, CallsOff, CancelledIsNotRetried
<1>4. ModelRows'
  BY <1>2, <1>i, <1>u DEF ModelRows
<1>5. NothingIsLeftBehind'
  BY <1>i, <1>u DEF NothingIsLeftBehind, ModelRows
<1> QED
  BY <1>2, <1>3, <1>4, <1>5, <1>i, <1>u DEF ModelInv

LEMMA ModelStep == ModelInv /\ [ModelNext]_modelVars => ModelInv'
<1> SUFFICES ASSUME ModelInv, [ModelNext]_modelVars PROVE ModelInv'
  OBVIOUS
<1>i. ModelRows /\ MinuteRuns /\ tooEarly = {} /\ CancelledIsNotRetried /\ NothingIsLeftBehind
  BY DEF ModelInv
<1>1. CASE ModelTick
  <2>1. modelClock' \in Nat /\ modelClock' <= MaxModelClock
    BY <1>1, <1>i, ModelBounds DEF ModelTick, ModelRows
  <2>2. MinuteRuns'
    BY <1>1, <1>i, <2>1, MinuteGoesOn DEF ModelTick, ModelRows, WithPrimary
  <2> QED
    BY <1>1, <1>i, <2>1, <2>2 DEF ModelTick, ModelInv, ModelRows, CancelledIsNotRetried, NothingIsLeftBehind
<1>2. ASSUME NEW c \in ModelCall, AbortModelCall(c) \/ ChildExits(c) \/ PipesClose(c)
      PROVE  ModelInv'
  <2>1. UNCHANGED <<modelClock, unavailableUntil, callPhase, folders, failedAt, underWay, lifting, tooEarly, lateFallback>>
    BY <1>2 DEF AbortModelCall, ChildExits, PipesClose
  <2>2. callAborted' \subseteq ModelCall /\ child' \subseteq child /\ child' \subseteq pipes'
    BY <1>2, <1>i DEF AbortModelCall, ChildExits, PipesClose, ModelRows
  <2>3. MinuteRuns'
    BY <1>i, <2>1 DEF MinuteRuns, ItsMinute, WithPrimary
  <2> QED
    BY <1>i, <2>1, <2>2, <2>3 DEF ModelInv, ModelRows, CancelledIsNotRetried, NothingIsLeftBehind
<1>3. ASSUME NEW c \in ModelCall, NEW answered \in BOOLEAN, FallbackEnds(c, answered)
      PROVE  ModelInv'
  <2>1. /\ UNCHANGED <<modelClock, unavailableUntil, callAborted, child, pipes, folders, failedAt, underWay, lifting, tooEarly, lateFallback>>
        /\ callPhase[c] = "fallback"
        /\ \E p \in {"answered", "failed", "cancelled"} : callPhase' = [callPhase EXCEPT ![c] = p]
    BY <1>3 DEF FallbackEnds, Goes
  <2>2. WithPrimary' \subseteq WithPrimary
    BY <1>i, <2>1 DEF WithPrimary, ModelRows
  <2>3. MinuteRuns'
    BY <1>i, <2>1, <2>2, MinuteGoesOn DEF ModelRows
  <2> QED
    BY <1>i, <2>1, <2>3 DEF ModelInv, ModelRows, CancelledIsNotRetried, NothingIsLeftBehind
<1>4. CASE UNCHANGED modelVars
  BY <1>4, <1>i DEF modelVars, ModelInv, ModelRows, MinuteRuns, ItsMinute, WithPrimary, CancelledIsNotRetried, NothingIsLeftBehind
<1> QED
  BY <1>1, <1>2, <1>3, <1>4, BeginKeeps, PrimaryEndsKeeps DEF ModelNext

\* In the minute after the primary provider failed no call begins with it, unless it has answered
\* since, which a call that was under way when it failed has done first; after the minute it is tried
\* again; a cancelled call starts nothing, and what is not being asked has no process and no folder:
\* for any number of calls at a time (models.ts).
THEOREM FailedModelsRest == ModelSpec => [](TheBreakerHolds /\ CancelledIsNotRetried /\ NothingIsLeftBehind)
<1> QED
  BY ModelStarts, ModelStep, ModelMeans, PTL DEF ModelSpec

-----------------------------------------------------------------------------
(* The devices of the lab *)

CaptureRows ==
    /\ captureGen \in Nat /\ captureGen <= CaptureStarts
    /\ startPhase \in {"idle", "asking", "telling", "capturing"}
    /\ asking \in [CaptureGens -> SUBSET Device] /\ liveTracks \subseteq CaptureGens \X Device
    /\ control \in {"none", "open"} /\ toSession \in Seq(SUBSET Device) /\ ackDue \in {"none", "coming", "here"}
    /\ believedLive \subseteq Device /\ doubted \in BOOLEAN

\* What the session will believe when it has read what is on its way.
WillBelieve == IF toSession = <<>> THEN believedLive ELSE toSession[Len(toSession)]

\* The start that goes on owns all that is live, and has been given all it asked for when it tells.
StartOwns ==
    /\ NoDeviceIsLeftOn
    /\ startPhase # "idle" => captureGen \in CaptureGens
    /\ startPhase \in {"telling", "capturing"} => asking[captureGen] = {} /\ control = "open" /\ LiveDevices # {}

\* A page that does not tell has said that all is off; a session without a page believes it.
SessionWillKnow ==
    /\ control = "none" => toSession = <<>>
    /\ control = "open" => serves
    /\ control = "none" /\ ~serves => believedLive = {}
    /\ control = "open" /\ ~doubted =>
          WillBelieve = IF startPhase \in {"telling", "capturing"} THEN LiveDevices ELSE {}

LabCaptureInv == CaptureRows /\ StartOwns /\ SessionWillKnow

LEMMA CaptureBounds == CaptureStarts \in Nat
BY LabCaptureAssumption

LEMMA CaptureStartsWell == CaptureInit => LabCaptureInv
<1> SUFFICES ASSUME CaptureInit PROVE LabCaptureInv
  OBVIOUS
<1>1. captureGen \in Nat /\ captureGen <= CaptureStarts
  BY CaptureBounds DEF CaptureInit
<1>2. toSession \in Seq(SUBSET Device)
  BY EmptySeq DEF CaptureInit
<1> QED
  BY <1>1, <1>2 DEF CaptureInit, LabCaptureInv, CaptureRows, StartOwns, SessionWillKnow, NoDeviceIsLeftOn, WillBelieve

LEMMA LabCaptureMeans == LabCaptureInv => CaptureTypeOK /\ NoDeviceIsLeftOn /\ TheSessionKnowsWhatIsOn
<1> SUFFICES ASSUME LabCaptureInv PROVE CaptureTypeOK /\ NoDeviceIsLeftOn /\ TheSessionKnowsWhatIsOn
  OBVIOUS
<1>1. captureGen \in 0..CaptureStarts
  BY CaptureBounds DEF LabCaptureInv, CaptureRows
<1>2. startPhase = "idle" => LiveDevices = {}
  BY DEF LabCaptureInv, StartOwns, NoDeviceIsLeftOn, LiveDevices
<1>3. TheSessionKnowsWhatIsOn
  BY <1>2 DEF LabCaptureInv, CaptureRows, StartOwns, SessionWillKnow, WillBelieve, TheSessionKnowsWhatIsOn
<1> QED
  BY <1>1, <1>3 DEF LabCaptureInv, CaptureRows, StartOwns, CaptureTypeOK

LEMMA IsTold ==
  ASSUME CaptureRows, NEW ds \in SUBSET Device, Tell(ds), UNCHANGED control
  PROVE  /\ toSession' \in Seq(SUBSET Device)
         /\ control = "open" => WillBelieve' = ds
         /\ control # "open" => UNCHANGED toSession
<1>1. CASE control = "open"
  <2>1. toSession \in Seq(SUBSET Device) /\ toSession' = Append(toSession, ds)
    BY <1>1 DEF Tell, CaptureRows
  <2>2. /\ toSession' \in Seq(SUBSET Device) /\ toSession' # <<>> /\ Len(toSession') = Len(toSession) + 1
        /\ toSession'[Len(toSession) + 1] = ds
    BY <2>1, AppendProperties
  <2> QED
    BY <1>1, <2>2 DEF WillBelieve
<1>2. CASE control # "open"
  BY <1>2 DEF Tell, CaptureRows
<1> QED
  BY <1>1, <1>2

LEMMA UserStopKeeps ==
  ASSUME LabCaptureInv, UserStops
  PROVE  LabCaptureInv'
<1>i. CaptureRows /\ StartOwns /\ SessionWillKnow
  BY DEF LabCaptureInv
<1>1. /\ startPhase' = "idle" /\ liveTracks' = {} /\ ackDue' = "none" /\ Tell({}) /\ doubted' = FALSE
      /\ UNCHANGED <<captureGen, asking, control, controlLinks, serves, believedLive>>
  BY DEF UserStops, EndCapture
<1>2. /\ toSession' \in Seq(SUBSET Device)
      /\ control = "open" => WillBelieve' = {}
      /\ control # "open" => UNCHANGED toSession
  BY <1>1, <1>i, IsTold
<1>3. CaptureRows'
  BY <1>1, <1>2, <1>i DEF CaptureRows
<1>4. StartOwns'
  BY <1>1 DEF StartOwns, NoDeviceIsLeftOn
<1>5. SessionWillKnow'
  BY <1>1, <1>2, <1>i DEF SessionWillKnow, CaptureRows
<1> QED
  BY <1>3, <1>4, <1>5 DEF LabCaptureInv

LEMMA RequestKeeps ==
  ASSUME LabCaptureInv, NEW wants \in SUBSET Device, RequestCapture(wants)
  PROVE  LabCaptureInv'
<1>i. CaptureRows /\ StartOwns /\ SessionWillKnow
  BY DEF LabCaptureInv
<1>1. /\ startPhase = "idle" /\ captureGen < CaptureStarts
      /\ captureGen' = captureGen + 1 /\ startPhase' = "asking"
      /\ asking' = [asking EXCEPT ![captureGen + 1] = wants]
      /\ UNCHANGED <<liveTracks, control, controlLinks, toSession, ackDue, serves, believedLive, doubted>>
  BY DEF RequestCapture
<1>2. captureGen' \in Nat /\ captureGen' <= CaptureStarts /\ captureGen' \in CaptureGens
  BY <1>1, <1>i, CaptureBounds DEF CaptureRows, CaptureGens
<1>3. liveTracks = {}
  BY <1>1, <1>i DEF StartOwns, NoDeviceIsLeftOn
<1>4. CaptureRows'
  BY <1>1, <1>2, <1>i DEF CaptureRows
<1>5. StartOwns'
  BY <1>1, <1>2, <1>3 DEF StartOwns, NoDeviceIsLeftOn
<1>6. SessionWillKnow'
  BY <1>1, <1>i DEF SessionWillKnow, WillBelieve
<1> QED
  BY <1>4, <1>5, <1>6 DEF LabCaptureInv

LEMMA DeviceKeeps ==
  ASSUME LabCaptureInv, NEW g \in CaptureGens, NEW d \in Device, NEW granted \in BOOLEAN, DeviceAnswers(g, d, granted)
  PROVE  LabCaptureInv'
<1>i. CaptureRows /\ StartOwns /\ SessionWillKnow
  BY DEF LabCaptureInv
<1>1. /\ d \in asking[g] /\ asking' = [asking EXCEPT ![g] = asking[g] \ {d}]
      /\ liveTracks' = IF granted /\ StillCurrent(g) THEN liveTracks \cup {<<g, d>>} ELSE liveTracks
      /\ UNCHANGED <<captureGen, startPhase, control, controlLinks, toSession, ackDue, serves, believedLive, doubted>>
  BY DEF DeviceAnswers
<1>2. CaptureRows'
  BY <1>1, <1>i DEF CaptureRows
<1>3. startPhase \in {"telling", "capturing"} => ~StillCurrent(g) /\ liveTracks' = liveTracks
  BY <1>1, <1>i DEF StartOwns, StillCurrent
<1>4. NoDeviceIsLeftOn'
  BY <1>1, <1>i DEF StartOwns, NoDeviceIsLeftOn, StillCurrent
<1>5. startPhase # "idle" /\ asking[captureGen] = {} => asking'[captureGen] = {}
  BY <1>1, <1>i DEF StartOwns, CaptureRows
<1>6. StartOwns'
  BY <1>1, <1>3, <1>4, <1>5, <1>i DEF StartOwns, LiveDevices
<1>7. SessionWillKnow'
  BY <1>1, <1>3, <1>i DEF SessionWillKnow, WillBelieve, LiveDevices
<1> QED
  BY <1>2, <1>6, <1>7 DEF LabCaptureInv

LEMMA GrantedKeeps ==
  ASSUME LabCaptureInv, Granted
  PROVE  LabCaptureInv'
<1>i. CaptureRows /\ StartOwns /\ SessionWillKnow
  BY DEF LabCaptureInv
<1>u. /\ startPhase = "asking" /\ asking[captureGen] = {}
      /\ UNCHANGED <<captureGen, asking, control, controlLinks, serves, believedLive, doubted>>
  BY DEF Granted
<1>1. CASE LiveDevices = {} \/ control # "open"
  <2>1. startPhase' = "idle" /\ liveTracks' = {} /\ ackDue' = "none" /\ UNCHANGED toSession
    BY <1>1 DEF Granted, EndCapture
  <2>2. CaptureRows'
    BY <1>i, <1>u, <2>1 DEF CaptureRows
  <2> QED
    BY <1>i, <1>u, <2>1, <2>2 DEF LabCaptureInv, StartOwns, NoDeviceIsLeftOn, SessionWillKnow, WillBelieve
<1>2. CASE ~(LiveDevices = {} \/ control # "open")
  <2>1. startPhase' = "telling" /\ Tell(LiveDevices) /\ ackDue' = "coming" /\ UNCHANGED liveTracks
    BY <1>2 DEF Granted
  <2>2. LiveDevices \in SUBSET Device /\ LiveDevices' = LiveDevices
    BY <1>u, <2>1 DEF LiveDevices
  <2>3. /\ toSession' \in Seq(SUBSET Device)
        /\ WillBelieve' = LiveDevices
    BY <1>2, <1>i, <1>u, <2>1, <2>2, IsTold
  <2>4. CaptureRows'
    BY <1>i, <1>u, <2>1, <2>3 DEF CaptureRows
  <2>5. StartOwns'
    <3>1. control' = "open" /\ LiveDevices' # {} /\ asking'[captureGen'] = {}
      BY <1>2, <1>u, <2>2
    <3>2. NoDeviceIsLeftOn' /\ captureGen' \in CaptureGens
      BY <1>i, <1>u, <2>1 DEF StartOwns, NoDeviceIsLeftOn
    <3> QED
      BY <3>1, <3>2 DEF StartOwns
  <2>6. SessionWillKnow'
    BY <1>2, <1>i, <1>u, <2>1, <2>2, <2>3 DEF SessionWillKnow
  <2> QED
    BY <2>4, <2>5, <2>6 DEF LabCaptureInv
<1> QED
  BY <1>1, <1>2

LEMMA HearsKeeps ==
  ASSUME LabCaptureInv, SessionHears
  PROVE  LabCaptureInv'
<1>i. CaptureRows /\ StartOwns /\ SessionWillKnow
  BY DEF LabCaptureInv
<1>1. /\ toSession # <<>> /\ toSession' = Tail(toSession) /\ believedLive' = Head(toSession)
      /\ UNCHANGED <<captureGen, startPhase, asking, liveTracks, control, controlLinks, serves, doubted>>
      /\ ackDue' \in {ackDue, "here"}
  BY DEF SessionHears
<1>2. toSession \in Seq(SUBSET Device)
  BY <1>i DEF CaptureRows
<1>3. /\ toSession' \in Seq(SUBSET Device) /\ Len(toSession') = Len(toSession) - 1 /\ Len(toSession) \in Nat
      /\ believedLive' \in SUBSET Device /\ believedLive' = toSession[1]
      /\ \A i \in 1..Len(toSession') : toSession'[i] = toSession[i + 1]
  <2>1. Len(toSession) \in Nat /\ Len(toSession) >= 1
    BY <1>1, <1>2, EmptySeq
  <2> QED
    BY <1>1, <1>2, <2>1, HeadTailProperties, ElementOfSeq
<1>4. WillBelieve' = WillBelieve
  <2>1. CASE Len(toSession) = 1
    <3>1. toSession' = <<>>
      BY <1>3, <2>1, EmptySeq
    <3>2. WillBelieve' = believedLive'
      BY <3>1 DEF WillBelieve
    <3>3. WillBelieve = toSession[1]
      BY <1>1, <2>1 DEF WillBelieve
    <3> QED
      BY <1>3, <3>2, <3>3
  <2>2. CASE Len(toSession) # 1
    <3>1. Len(toSession') \in 1..Len(toSession') /\ toSession' # <<>> /\ Len(toSession') + 1 = Len(toSession)
      <4>1. Len(toSession) \in Nat /\ Len(toSession) # 0
        BY <1>1, <1>2, EmptySeq
      <4>2. Len(toSession') \in Nat /\ Len(toSession') >= 1 /\ Len(toSession') + 1 = Len(toSession)
        BY <1>3, <2>2, <4>1
      <4> QED
        BY <4>2
    <3> QED
      BY <1>1, <1>3, <3>1 DEF WillBelieve
  <2> QED
    BY <2>1, <2>2
<1>5. CaptureRows'
  BY <1>1, <1>3, <1>i DEF CaptureRows
<1>6. StartOwns'
  BY <1>1, <1>i DEF StartOwns, NoDeviceIsLeftOn, LiveDevices
<1>7. SessionWillKnow'
  BY <1>1, <1>4, <1>i DEF SessionWillKnow, LiveDevices, CaptureRows
<1> QED
  BY <1>5, <1>6, <1>7 DEF LabCaptureInv

LEMMA LabCaptureStep == LabCaptureInv /\ [CaptureNext]_captureVars => LabCaptureInv'
<1> SUFFICES ASSUME LabCaptureInv, [CaptureNext]_captureVars PROVE LabCaptureInv'
  OBVIOUS
<1>i. CaptureRows /\ StartOwns /\ SessionWillKnow
  BY DEF LabCaptureInv
<1>1. CASE CaptureOn
  BY <1>1, <1>i DEF CaptureOn, LabCaptureInv, CaptureRows, StartOwns, NoDeviceIsLeftOn, LiveDevices, SessionWillKnow, WillBelieve
<1>2. CASE AckTimeout
  BY <1>2, <1>i DEF AckTimeout, EndCapture, LabCaptureInv, CaptureRows, StartOwns, NoDeviceIsLeftOn, SessionWillKnow
<1>3. CASE ControlLost
  <2>1. toSession' \in Seq(SUBSET Device)
    BY <1>3, EmptySeq DEF ControlLost
  <2>2. /\ control' = "none" /\ toSession' = <<>> /\ doubted' = FALSE /\ control = "open"
        /\ UNCHANGED <<captureGen, asking, controlLinks, serves, believedLive>>
    BY <1>3 DEF ControlLost
  <2>7. serves
    BY <1>i, <2>2 DEF SessionWillKnow
  <2>4. SessionWillKnow'
    BY <2>2, <2>7 DEF SessionWillKnow
  <2>3. CASE startPhase \in {"telling", "capturing"}
    <3>1. startPhase' = "idle" /\ liveTracks' = {} /\ ackDue' = "none"
      BY <1>3, <2>3 DEF ControlLost, EndCapture
    <3>2. CaptureRows'
      BY <1>i, <2>1, <2>2, <3>1 DEF CaptureRows
    <3>3. StartOwns'
      BY <3>1 DEF StartOwns, NoDeviceIsLeftOn
    <3> QED
      BY <2>4, <3>2, <3>3 DEF LabCaptureInv
  <2>5. CASE startPhase \notin {"telling", "capturing"}
    <3>1. UNCHANGED <<startPhase, liveTracks, ackDue>>
      BY <1>3, <2>5 DEF ControlLost
    <3>2. CaptureRows'
      BY <1>i, <2>1, <2>2, <3>1 DEF CaptureRows
    <3>3. StartOwns'
      BY <1>i, <2>2, <2>5, <3>1 DEF StartOwns, NoDeviceIsLeftOn
    <3> QED
      BY <2>4, <3>2, <3>3 DEF LabCaptureInv
  <2> QED
    BY <2>3, <2>5
<1>4. CASE ControlOpens
  BY <1>4, <1>i DEF ControlOpens, LabCaptureInv, CaptureRows, StartOwns, NoDeviceIsLeftOn, LiveDevices, SessionWillKnow, WillBelieve
<1>5. CASE SessionPauses
  BY <1>5, <1>i DEF SessionPauses, Paused, LabCaptureInv, CaptureRows, StartOwns, NoDeviceIsLeftOn, LiveDevices, SessionWillKnow
<1>6. CASE UNCHANGED captureVars
  BY <1>6, <1>i DEF captureVars, LabCaptureInv, CaptureRows, StartOwns, NoDeviceIsLeftOn, LiveDevices, SessionWillKnow, WillBelieve
<1> QED
  BY <1>1, <1>2, <1>3, <1>4, <1>5, <1>6, UserStopKeeps, RequestKeeps, DeviceKeeps, GrantedKeeps, HearsKeeps
     DEF CaptureNext, TrackEnds

\* No device is live but for the start that goes on, and a session that has read what the page has
\* said knows which are, for any number of devices, starts and connections (capture.ts, app.ts).
THEOREM DevicesAreKnown == CaptureSpec => [](NoDeviceIsLeftOn /\ TheSessionKnowsWhatIsOn)
<1> QED
  BY CaptureStartsWell, LabCaptureStep, LabCaptureMeans, PTL DEF CaptureSpec

-----------------------------------------------------------------------------
(* Frames of the lab *)

LabMsg == FrameReply \cup {ReadyMsg}
LabSent == {CommandMsg} \cup Frames

FrameRows ==
    /\ frameRun \in Nat /\ frameRun <= FrameStarts /\ framePhase \in {"idle", "connecting", "running"}
    /\ grabbing \in [FrameRuns -> Nat] /\ inFlight \in Nat /\ inFlight <= MaxLabFrames
    /\ toService \in Seq(LabSent) /\ fromService \in Seq(LabMsg)
    /\ tickDue \in BOOLEAN /\ socketShut \in BOOLEAN /\ freed \in BOOLEAN
    /\ sentFrames \in Nat /\ sentFrames <= MaxLabFrames
    /\ frameEnds \in [FrameRuns -> Nat]

\* A frame that was answered, with busy or with what it shows, is named by the answer.
AnswersName == \A i \in 1..Len(fromService) : fromService[i].type \in {"frame", "busy"} => fromService[i].of # 0

CreditedTyped == credited \subseteq Frames \X (0..MaxLabFrames)

\* Until an error has released the slot, the frame in flight is on one of the two queues, once,
\* and no other is: what was answered is no longer on its way.
OneOut == ~freed =>
    /\ \A i \in 1..Len(toService) : toService[i] # CommandMsg => toService[i] = inFlight
    /\ \A i \in 1..Len(fromService) : fromService[i].of # 0 => fromService[i].of = inFlight
    /\ \A i, j \in 1..Len(toService) : toService[i] # CommandMsg /\ toService[j] # CommandMsg => i = j
    /\ \A i, j \in 1..Len(fromService) : fromService[i].of # 0 /\ fromService[j].of # 0 => i = j
    /\ \A i \in 1..Len(toService), j \in 1..Len(fromService) : toService[i] # CommandMsg => fromService[j].of = 0
    /\ \A c \in credited : c[1] = c[2]

\* Of the runs there were, each has ended once but the one that goes on.
RunsEnd ==
    /\ framePhase # "idle" => frameRun \in FrameRuns
    /\ \A r \in FrameRuns : frameEnds[r] = IF r < frameRun \/ (r = frameRun /\ framePhase = "idle") THEN 1 ELSE 0

LoopGoesOn == framePhase = "running" => tickDue \/ grabbing[frameRun] > 0 \/ inFlight # 0 \/ socketShut

FramesInv == FrameRows /\ AnswersName /\ CreditedTyped /\ OneOut /\ RunsEnd /\ LoopGoesOn

LEMMA FrameBounds == FrameStarts \in Nat /\ MaxLabFrames \in Nat /\ FrameCommands \in Nat /\ FaceStream \in BOOLEAN
BY LabFramesAssumption

LEMMA MsgIs ==
  ASSUME NEW m \in LabMsg
  PROVE  m.type \in {"ready", "frame", "busy", "error"} /\ m.of \in Nat /\ m.of <= MaxLabFrames
<1>1. CASE m \in FrameReply
  <2>1. m.type \in {"frame", "busy", "error"} /\ m.of \in 0..MaxLabFrames
    BY <1>1 DEF FrameReply
  <2> QED
    BY <2>1, FrameBounds
<1>2. CASE m = ReadyMsg
  BY <1>2, FrameBounds DEF ReadyMsg
<1> QED
  BY <1>1, <1>2 DEF LabMsg

LEMMA MsgsAre ==
  /\ ReadyMsg \in LabMsg /\ ReadyMsg.of = 0 /\ ReadyMsg.type = "ready"
  /\ [type |-> "error", of |-> 0] \in LabMsg
  /\ \A t \in {"frame", "busy", "error"}, x \in Frames : [type |-> t, of |-> x] \in LabMsg
<1>1. 0 \in 0..MaxLabFrames /\ \A x \in Frames : x \in 0..MaxLabFrames
  BY FrameBounds DEF Frames
<1> QED
  BY <1>1 DEF LabMsg, FrameReply, ReadyMsg

LEMMA FramesAre == \A x : x \in LabSent <=> x \in Nat /\ x <= MaxLabFrames
<1>1. \A x : x \in Frames <=> x \in Nat /\ x >= 1 /\ x <= MaxLabFrames
  BY FrameBounds DEF Frames
<1> QED
  BY <1>1, FrameBounds DEF LabSent, CommandMsg

LEMMA FramesStart == FramesInit => FramesInv
<1> SUFFICES ASSUME FramesInit PROVE FramesInv
  OBVIOUS
<1>1. /\ frameRun \in Nat /\ frameRun <= FrameStarts /\ inFlight \in Nat /\ inFlight <= MaxLabFrames
      /\ sentFrames \in Nat /\ sentFrames <= MaxLabFrames
  BY FrameBounds DEF FramesInit
<1>2. toService \in Seq(LabSent) /\ fromService \in Seq(LabMsg) /\ Len(toService) = 0 /\ Len(fromService) = 0
  BY EmptySeq DEF FramesInit
<1>3. FrameRows
  BY <1>1, <1>2 DEF FramesInit, FrameRows
<1>4. AnswersName /\ CreditedTyped /\ OneOut /\ LoopGoesOn
  BY <1>2 DEF FramesInit, AnswersName, CreditedTyped, OneOut, LoopGoesOn
<1>5. RunsEnd
  BY FrameBounds DEF FramesInit, RunsEnd, FrameRuns
<1> QED
  BY <1>3, <1>4, <1>5 DEF FramesInv

LEMMA FramesMean == FramesInv => FramesTypeOK /\ OnlyErrorsMixFrames /\ StreamGoesOn
<1> SUFFICES ASSUME FramesInv PROVE FramesTypeOK /\ OnlyErrorsMixFrames /\ StreamGoesOn
  OBVIOUS
<1>r. FrameRows /\ CreditedTyped /\ OneOut /\ RunsEnd /\ LoopGoesOn
  BY DEF FramesInv
<1>1. frameRun \in 0..FrameStarts /\ inFlight \in 0..MaxLabFrames
  BY <1>r, FrameBounds DEF FrameRows
<1>2. FramesTypeOK
  BY <1>1, <1>r DEF FrameRows, CreditedTyped, FramesTypeOK, LabMsg, LabSent
<1>3. ASSUME ~freed
      PROVE  FramesOut \subseteq {inFlight}
  <2> SUFFICES ASSUME NEW f \in FramesOut PROVE f = inFlight
    OBVIOUS
  <2>0. f # 0 /\ f # CommandMsg
    BY FrameBounds DEF FramesOut, Frames, CommandMsg
  <2>l. /\ DOMAIN toService = 1..Len(toService) /\ DOMAIN fromService = 1..Len(fromService)
    BY <1>r, LenProperties DEF FrameRows
  <2>1. CASE f \in Range(toService)
    BY <1>3, <1>r, <2>0, <2>1, <2>l DEF OneOut, Range
  <2>2. CASE \E m \in Range(fromService) : m.of = f
    BY <1>3, <1>r, <2>0, <2>2, <2>l DEF OneOut, Range
  <2> QED
    BY <2>1, <2>2 DEF FramesOut
<1>4. ASSUME ~freed
      PROVE  ~(Cardinality(FramesOut) > 1)
  <2>1. FramesOut = {} \/ FramesOut = {inFlight}
    BY <1>3, <1>4
  <2>2. Cardinality(FramesOut) = 0 \/ Cardinality(FramesOut) = 1
    BY <2>1, FS_EmptySet, FS_Singleton
  <2> QED
    BY <2>2
<1>5. OnlyErrorsMixFrames
  BY <1>4, <1>r DEF OnlyErrorsMixFrames, OneOut
<1> QED
  BY <1>2, <1>5, <1>r DEF StreamGoesOn, RunsEnd, LoopGoesOn

LEMMA EndsAreCounted ==
  ASSUME NEW E \in [FrameRuns -> Nat], NEW r
  PROVE  [E EXCEPT ![r] = E[r] + 1] \in [FrameRuns -> Nat]
<1>1. ASSUME NEW q \in FrameRuns PROVE [E EXCEPT ![r] = E[r] + 1][q] \in Nat
  <2>1. E[q] \in Nat
    OBVIOUS
  <2> QED
    BY <2>1
<1> QED
  BY <1>1

\* The queues are emptied when a run is over.
LEMMA OverKeeps ==
  ASSUME FramesInv, StopFrames
  PROVE  FramesInv'
<1>r. FrameRows /\ CreditedTyped /\ OneOut /\ RunsEnd
  BY DEF FramesInv
<1>1. /\ framePhase # "idle" /\ framePhase' = "idle" /\ tickDue' = FALSE /\ inFlight' = 0
      /\ toService' = <<>> /\ fromService' = <<>> /\ socketShut' = FALSE
      /\ frameEnds' = [frameEnds EXCEPT ![frameRun] = frameEnds[frameRun] + 1]
      /\ UNCHANGED <<frameRun, grabbing, sentFrames, sentCommands, credited, freed>>
  BY DEF StopFrames, RunOver
<1>2. toService' \in Seq(LabSent) /\ fromService' \in Seq(LabMsg) /\ Len(toService') = 0 /\ Len(fromService') = 0
  BY <1>1, EmptySeq
<1>3. frameEnds' \in [FrameRuns -> Nat]
  BY <1>1, <1>r, EndsAreCounted DEF FrameRows
<1>u. /\ framePhase' = "idle" /\ tickDue' = FALSE /\ inFlight' = 0 /\ socketShut' = FALSE
      /\ UNCHANGED <<frameRun, grabbing, sentFrames, freed>>
  BY <1>1
<1>4. FrameRows'
  <2>1. frameRun' \in Nat /\ frameRun' <= FrameStarts /\ inFlight' \in Nat /\ inFlight' <= MaxLabFrames
        /\ sentFrames' \in Nat /\ sentFrames' <= MaxLabFrames
    BY <1>u, <1>r, FrameBounds DEF FrameRows
  <2>2. framePhase' \in {"idle", "connecting", "running"} /\ tickDue' \in BOOLEAN /\ socketShut' \in BOOLEAN
        /\ freed' \in BOOLEAN
    BY <1>u, <1>r DEF FrameRows
  <2>3. grabbing' \in [FrameRuns -> Nat]
    BY <1>u, <1>r DEF FrameRows
  <2> QED
    BY <2>1, <2>2, <2>3, <1>2, <1>3 DEF FrameRows
<1>5. AnswersName' /\ CreditedTyped' /\ OneOut' /\ LoopGoesOn'
  BY <1>1, <1>2, <1>r DEF AnswersName, CreditedTyped, OneOut, LoopGoesOn
<1>6. RunsEnd'
  <2> SUFFICES ASSUME NEW r \in FrameRuns
               PROVE  frameEnds'[r] = IF r < frameRun \/ r = frameRun THEN 1 ELSE 0
    BY <1>1 DEF RunsEnd
  <2>1. frameEnds[r] \in Nat /\ r \in Nat /\ frameRun \in Nat /\ frameRun \in FrameRuns
    BY <1>1, <1>r, FrameBounds DEF FrameRows, FrameRuns, RunsEnd
  <2>2. frameEnds[r] = IF r < frameRun THEN 1 ELSE 0
    BY <1>1, <1>r, <2>1 DEF RunsEnd
  <2>3. frameEnds'[r] = IF r = frameRun THEN frameEnds[r] + 1 ELSE frameEnds[r]
    BY <1>1, <1>r DEF FrameRows
  <2> QED
    BY <2>1, <2>2, <2>3
<1> QED
  BY <1>4, <1>5, <1>6 DEF FramesInv

LEMMA StartKeeps ==
  ASSUME FramesInv, StartFrames
  PROVE  FramesInv'
<1>r. FrameRows /\ CreditedTyped /\ OneOut /\ RunsEnd
  BY DEF FramesInv
<1>1. /\ frameRun < FrameStarts /\ frameRun' = frameRun + 1
      /\ framePhase' = "connecting" /\ tickDue' = FALSE /\ inFlight' = 0
      /\ toService' = <<>> /\ fromService' = <<ReadyMsg>> /\ socketShut' = FALSE
      /\ credited' = {} /\ freed' = FALSE
      /\ frameEnds' = IF framePhase = "idle" THEN frameEnds ELSE [frameEnds EXCEPT ![frameRun] = frameEnds[frameRun] + 1]
      /\ UNCHANGED <<grabbing, sentFrames, sentCommands>>
  BY DEF StartFrames
<1>2. toService' \in Seq(LabSent) /\ fromService' \in Seq(LabMsg) /\ Len(toService') = 0 /\ Len(fromService') = 1
      /\ fromService'[1] = ReadyMsg
  <2>1. ReadyMsg \in LabMsg
    BY MsgsAre
  <2> QED
    BY <1>1, <2>1, EmptySeq
<1>3. frameEnds' \in [FrameRuns -> Nat]
  BY <1>1, <1>r, EndsAreCounted DEF FrameRows
<1>n. frameRun' \in Nat /\ frameRun' <= FrameStarts /\ frameRun' \in FrameRuns
  BY <1>1, <1>r, FrameBounds DEF FrameRows, FrameRuns
<1>u. /\ framePhase' = "connecting" /\ tickDue' = FALSE /\ inFlight' = 0 /\ socketShut' = FALSE /\ freed' = FALSE
      /\ UNCHANGED <<grabbing, sentFrames>>
  BY <1>1
<1>4. FrameRows'
  <2>1. frameRun' \in Nat /\ frameRun' <= FrameStarts /\ inFlight' \in Nat /\ inFlight' <= MaxLabFrames
        /\ sentFrames' \in Nat /\ sentFrames' <= MaxLabFrames
    BY <1>u, <1>n, <1>r, FrameBounds DEF FrameRows
  <2>2. framePhase' \in {"idle", "connecting", "running"} /\ tickDue' \in BOOLEAN /\ socketShut' \in BOOLEAN
        /\ freed' \in BOOLEAN
    BY <1>u, <1>r DEF FrameRows
  <2>3. grabbing' \in [FrameRuns -> Nat]
    BY <1>u, <1>r DEF FrameRows
  <2> QED
    BY <2>1, <2>2, <2>3, <1>2, <1>3 DEF FrameRows
<1>5. AnswersName' /\ CreditedTyped' /\ OneOut' /\ LoopGoesOn'
  <2>1. ReadyMsg.of = 0 /\ ReadyMsg.type = "ready"
    BY MsgsAre
  <2>2. \A i \in 1..Len(fromService') : fromService'[i] = ReadyMsg
    BY <1>2
  <2>3. 1..Len(toService') = {}
    BY <1>2
  <2> QED
    BY <1>1, <2>1, <2>2, <2>3 DEF AnswersName, CreditedTyped, OneOut, LoopGoesOn
<1>6. RunsEnd'
  <2> SUFFICES ASSUME NEW r \in FrameRuns
               PROVE  frameEnds'[r] = IF r < frameRun + 1 THEN 1 ELSE 0
    BY <1>1, <1>n DEF RunsEnd
  <2>1. frameEnds[r] \in Nat /\ r \in Nat /\ frameRun \in Nat
    BY <1>1, <1>r, FrameBounds DEF FrameRows, FrameRuns
  <2>2. frameEnds[r] = IF r < frameRun \/ (r = frameRun /\ framePhase = "idle") THEN 1 ELSE 0
    BY <1>r DEF RunsEnd
  <2>3. frameEnds'[r] = IF r = frameRun /\ framePhase # "idle" THEN frameEnds[r] + 1 ELSE frameEnds[r]
    BY <1>1, <1>r DEF FrameRows
  <2> QED
    BY <2>1, <2>2, <2>3
<1> QED
  BY <1>4, <1>5, <1>6 DEF FramesInv

LEMMA TickKeeps ==
  ASSUME FramesInv, Tick
  PROVE  FramesInv'
<1>r. FrameRows /\ AnswersName /\ CreditedTyped /\ OneOut /\ RunsEnd /\ LoopGoesOn
  BY DEF FramesInv
<1>1. /\ tickDue' = FALSE
      /\ grabbing' = IF FrameSocketOpen /\ inFlight = 0 THEN [grabbing EXCEPT ![frameRun] = grabbing[frameRun] + 1] ELSE grabbing
      /\ UNCHANGED <<frameRun, framePhase, inFlight, toService, fromService, socketShut, sentFrames, sentCommands,
                     credited, frameEnds, freed>>
  BY DEF Tick
<1>2. FrameSocketOpen => frameRun \in FrameRuns /\ grabbing[frameRun] \in Nat
  BY <1>r DEF FrameSocketOpen, RunsEnd, FrameRows
<1>3. grabbing' \in [FrameRuns -> Nat]
  BY <1>1, <1>2, <1>r DEF FrameRows
<1>4. FrameSocketOpen /\ inFlight = 0 => grabbing'[frameRun] > 0
  BY <1>1, <1>2, <1>r DEF FrameRows
<1>5. FrameRows'
  BY <1>1, <1>3, <1>r DEF FrameRows
<1>6. AnswersName' /\ CreditedTyped' /\ OneOut' /\ RunsEnd'
  BY <1>1, <1>r DEF AnswersName, CreditedTyped, OneOut, RunsEnd
<1>7. LoopGoesOn'
  BY <1>1, <1>4 DEF LoopGoesOn, FrameSocketOpen
<1> QED
  BY <1>5, <1>6, <1>7 DEF FramesInv

LEMMA GrabKeeps ==
  ASSUME FramesInv, NEW r \in FrameRuns, NEW picture \in BOOLEAN, Grabbed(r, picture)
  PROVE  FramesInv'
<1>r. FrameRows /\ AnswersName /\ CreditedTyped /\ OneOut /\ RunsEnd /\ LoopGoesOn
  BY DEF FramesInv
<1>1. /\ grabbing[r] > 0 /\ grabbing' = [grabbing EXCEPT ![r] = grabbing[r] - 1]
      /\ UNCHANGED <<frameRun, framePhase, fromService, socketShut, sentCommands, credited, frameEnds, freed>>
  BY DEF Grabbed
<1>2. grabbing' \in [FrameRuns -> Nat] /\ (frameRun # r => grabbing'[frameRun] = grabbing[frameRun])
  <2>1. grabbing[r] - 1 \in Nat /\ grabbing \in [FrameRuns -> Nat]
    BY <1>1, <1>r DEF FrameRows
  <2> QED
    BY <1>1, <2>1
<1>3. CASE picture /\ MaySend(r)
  <2>1. /\ sentFrames < MaxLabFrames /\ sentFrames' = sentFrames + 1
        /\ inFlight' = sentFrames + 1 /\ toService' = Append(toService, sentFrames + 1) /\ UNCHANGED tickDue
        /\ inFlight = 0
    BY <1>3 DEF Grabbed, MaySend
  <2>2. sentFrames + 1 \in Nat /\ sentFrames + 1 <= MaxLabFrames /\ sentFrames + 1 # 0
    BY <1>r, <2>1, FrameBounds DEF FrameRows
  <2>3. sentFrames + 1 \in LabSent /\ toService \in Seq(LabSent)
    BY <1>r, <2>2, FramesAre DEF FrameRows
  <2>4. /\ toService' \in Seq(LabSent) /\ Len(toService') = Len(toService) + 1 /\ Len(toService) \in Nat
        /\ \A i \in 1..Len(toService) : toService'[i] = toService[i]
        /\ toService'[Len(toService) + 1] = inFlight'
    BY <2>1, <2>3, AppendProperties, LenProperties
  <2>5. FrameRows'
    BY <1>1, <1>2, <1>r, <2>1, <2>2, <2>4 DEF FrameRows
  <2>6. AnswersName' /\ CreditedTyped' /\ RunsEnd'
    BY <1>1, <1>r DEF AnswersName, CreditedTyped, RunsEnd
  <2>7. LoopGoesOn'
    BY <2>1, <2>2 DEF LoopGoesOn
  <2>8. OneOut'
    <3> SUFFICES ASSUME ~freed PROVE OneOut'
      BY <1>1 DEF OneOut
    <3>1. \A i \in 1..Len(toService) : toService[i] = CommandMsg
      BY <1>r, <2>1 DEF OneOut, CommandMsg
    <3>2. \A i \in 1..Len(fromService) : fromService[i].of = 0
      BY <1>r, <2>1 DEF OneOut
    <3>3. \A i \in 1..Len(toService') : toService'[i] # CommandMsg => i = Len(toService) + 1 /\ toService'[i] = inFlight'
      BY <2>4, <3>1
    <3>4. \A c \in credited : c[1] = c[2]
      BY <1>r DEF OneOut
    <3> QED
      BY <1>1, <3>2, <3>3, <3>4 DEF OneOut
  <2> QED
    BY <2>5, <2>6, <2>7, <2>8 DEF FramesInv
<1>4. CASE ~(picture /\ MaySend(r))
  <2>1. tickDue' = (tickDue \/ StillOurs(r)) /\ UNCHANGED <<inFlight, toService, sentFrames>>
    BY <1>4 DEF Grabbed
  <2>2. FrameRows'
    <3>1. tickDue' \in BOOLEAN
      BY <1>r, <2>1 DEF FrameRows, StillOurs
    <3> QED
      BY <1>1, <1>2, <1>r, <2>1, <3>1 DEF FrameRows
  <2>3. AnswersName' /\ CreditedTyped' /\ RunsEnd' /\ OneOut'
    BY <1>1, <1>r, <2>1 DEF AnswersName, CreditedTyped, RunsEnd, OneOut
  <2>4. LoopGoesOn'
    BY <1>1, <1>2, <1>r, <2>1 DEF LoopGoesOn, StillOurs
  <2> QED
    BY <2>2, <2>3, <2>4 DEF FramesInv
<1> QED
  BY <1>3, <1>4

LEMMA CommandKeeps ==
  ASSUME FramesInv, SendCommand
  PROVE  FramesInv'
<1>r. FrameRows /\ AnswersName /\ CreditedTyped /\ OneOut /\ RunsEnd /\ LoopGoesOn
  BY DEF FramesInv
<1>1. /\ toService' = Append(toService, CommandMsg)
      /\ UNCHANGED <<frameRun, framePhase, tickDue, grabbing, inFlight, fromService, socketShut, sentFrames, credited,
                     frameEnds, freed>>
  BY DEF SendCommand
<1>2. CommandMsg \in LabSent /\ toService \in Seq(LabSent)
  BY <1>r DEF FrameRows, LabSent
<1>3. /\ toService' \in Seq(LabSent) /\ Len(toService') = Len(toService) + 1 /\ Len(toService) \in Nat
      /\ \A i \in 1..Len(toService) : toService'[i] = toService[i]
      /\ toService'[Len(toService) + 1] = CommandMsg
  BY <1>1, <1>2, AppendProperties, LenProperties
<1>4. FrameRows'
  BY <1>1, <1>3, <1>r DEF FrameRows
<1>5. AnswersName' /\ CreditedTyped' /\ RunsEnd' /\ LoopGoesOn'
  BY <1>1, <1>r DEF AnswersName, CreditedTyped, RunsEnd, LoopGoesOn
<1>6. \A i \in 1..Len(toService') : toService'[i] # CommandMsg => i \in 1..Len(toService) /\ toService'[i] = toService[i]
  BY <1>3
<1>7. OneOut'
  BY <1>1, <1>6, <1>r DEF OneOut
<1> QED
  BY <1>4, <1>5, <1>7 DEF FramesInv

\* An answer of no frame is added, or none.
LEMMA SaysKeeps ==
  ASSUME FrameRows, AnswersName, OneOut, NEW m \in LabMsg, m.of = 0, m.type \notin {"frame", "busy"},
         fromService' \in {fromService, Append(fromService, m)},
         UNCHANGED <<inFlight, toService, credited, freed>>
  PROVE  fromService' \in Seq(LabMsg) /\ AnswersName' /\ OneOut'
<1>1. CASE fromService' = fromService
  BY <1>1 DEF FrameRows, AnswersName, OneOut
<1>2. CASE fromService' = Append(fromService, m)
  <2>1. fromService \in Seq(LabMsg)
    BY DEF FrameRows
  <2>2. /\ fromService' \in Seq(LabMsg) /\ Len(fromService') = Len(fromService) + 1 /\ Len(fromService) \in Nat
        /\ \A i \in 1..Len(fromService) : fromService'[i] = fromService[i]
        /\ fromService'[Len(fromService) + 1] = m
    BY <1>2, <2>1, AppendProperties, LenProperties
  <2>3. \A i \in 1..Len(fromService') :
           \/ i \in 1..Len(fromService) /\ fromService'[i] = fromService[i]
           \/ fromService'[i] = m
    BY <2>2
  <2>4. AnswersName'
    BY <2>3 DEF AnswersName
  <2>5. \A i \in 1..Len(fromService') : fromService'[i].of # 0 => i \in 1..Len(fromService) /\ fromService'[i] = fromService[i]
    BY <2>3
  <2>6. OneOut'
    BY <2>3, <2>5 DEF OneOut
  <2> QED
    BY <2>2, <2>4, <2>6
<1> QED
  BY <1>1, <1>2

LEMMA ClosesKeeps ==
  ASSUME FramesInv, ServiceCloses
  PROVE  FramesInv'
<1>r. FrameRows /\ AnswersName /\ CreditedTyped /\ OneOut /\ RunsEnd /\ LoopGoesOn
  BY DEF FramesInv
<1> DEFINE m == [type |-> "error", of |-> 0]
<1>1. /\ socketShut' = TRUE /\ fromService' \in {fromService, Append(fromService, m)}
      /\ UNCHANGED <<frameRun, framePhase, tickDue, grabbing, inFlight, toService, sentFrames, sentCommands, credited,
                     frameEnds, freed>>
  BY DEF ServiceCloses
<1>2. m \in LabMsg /\ m.of = 0 /\ m.type \notin {"frame", "busy"}
  BY MsgsAre
<1> HIDE DEF m
<1>3. fromService' \in Seq(LabMsg) /\ AnswersName' /\ OneOut'
  BY <1>1, <1>2, <1>r, SaysKeeps
<1>4. FrameRows' /\ CreditedTyped' /\ RunsEnd' /\ LoopGoesOn'
  BY <1>1, <1>3, <1>r DEF FrameRows, CreditedTyped, RunsEnd, LoopGoesOn
<1> QED
  BY <1>3, <1>4 DEF FramesInv

LEMMA ServeKeeps ==
  ASSUME FramesInv, Serve
  PROVE  FramesInv'
<1>r. FrameRows /\ AnswersName /\ CreditedTyped /\ OneOut /\ RunsEnd /\ LoopGoesOn
  BY DEF FramesInv
<1> DEFINE x == Head(toService)
           m == [type |-> "error", of |-> 0]
<1>1. /\ toService # <<>> /\ toService' = Tail(toService)
      /\ UNCHANGED <<frameRun, framePhase, tickDue, grabbing, inFlight, socketShut, sentFrames, sentCommands, credited,
                     frameEnds, freed>>
      /\ x = CommandMsg => fromService' \in {fromService, Append(fromService, m)}
      /\ x # CommandMsg => \E t \in {"frame", "busy", "error"} : fromService' = Append(fromService, [type |-> t, of |-> x])
  BY DEF Serve
<1>2. /\ toService' \in Seq(LabSent) /\ Len(toService') = Len(toService) - 1 /\ Len(toService) \in Nat /\ Len(toService) >= 1
      /\ x \in LabSent /\ x = toService[1]
      /\ \A i \in 1..Len(toService') : toService'[i] = toService[i + 1]
  <2>1. toService \in Seq(LabSent)
    BY <1>r DEF FrameRows
  <2>2. Len(toService) \in Nat /\ Len(toService) >= 1
    BY <1>1, <2>1, EmptySeq
  <2> QED
    BY <1>1, <2>1, <2>2, HeadTailProperties, ElementOfSeq
<1> HIDE DEF x
<1>p. \A i \in 1..Len(toService') : i + 1 \in 1..Len(toService) /\ i + 1 # 1
  BY <1>2
<1>3. CASE x = CommandMsg
  <2>1. m \in LabMsg /\ m.of = 0 /\ m.type \notin {"frame", "busy"}
    BY MsgsAre
  <2> HIDE DEF m
  <2>2. fromService' \in {fromService, Append(fromService, m)}
    BY <1>1, <1>3
  <2>3. CASE fromService' = fromService
    <3>1. OneOut'
      BY <1>1, <1>2, <1>p, <1>r, <2>3 DEF OneOut
    <3>2. FrameRows' /\ AnswersName' /\ CreditedTyped' /\ RunsEnd' /\ LoopGoesOn'
      BY <1>1, <1>2, <1>r, <2>3 DEF FrameRows, AnswersName, CreditedTyped, RunsEnd, LoopGoesOn
    <3> QED
      BY <3>1, <3>2 DEF FramesInv
  <2>4. CASE fromService' = Append(fromService, m)
    <3>1. fromService \in Seq(LabMsg)
      BY <1>r DEF FrameRows
    <3>2. /\ fromService' \in Seq(LabMsg) /\ Len(fromService') = Len(fromService) + 1 /\ Len(fromService) \in Nat
          /\ \A i \in 1..Len(fromService) : fromService'[i] = fromService[i]
          /\ fromService'[Len(fromService) + 1] = m
      BY <2>1, <2>4, <3>1, AppendProperties, LenProperties
    <3>3. \A i \in 1..Len(fromService') :
             \/ i \in 1..Len(fromService) /\ fromService'[i] = fromService[i]
             \/ fromService'[i] = m
      BY <3>2
    <3>4. AnswersName'
      BY <1>r, <2>1, <3>3 DEF AnswersName
    <3>5. \A i \in 1..Len(fromService') : fromService'[i].of # 0 => i \in 1..Len(fromService) /\ fromService'[i] = fromService[i]
      <4> SUFFICES ASSUME NEW i \in 1..Len(fromService'), fromService'[i].of # 0
                   PROVE  i \in 1..Len(fromService) /\ fromService'[i] = fromService[i]
        OBVIOUS
      <4>1. fromService'[i] # m
        BY <2>1
      <4> QED
        BY <4>1, <3>3
    <3>6. OneOut'
      <4> SUFFICES ASSUME ~freed PROVE OneOut'
        BY <1>1 DEF OneOut
      <4>1. \A i \in 1..Len(fromService') : fromService'[i].of # 0 => i \in 1..Len(fromService) /\ fromService[i].of # 0
                                           /\ fromService'[i].of = fromService[i].of
        BY <3>5
      <4>2. /\ \A i \in 1..Len(fromService') : fromService'[i].of # 0 => fromService'[i].of = inFlight
            /\ \A i, j \in 1..Len(fromService') : fromService'[i].of # 0 /\ fromService'[j].of # 0 => i = j
        BY <4>1, <1>r DEF OneOut
      <4>3. /\ \A i \in 1..Len(toService') : toService'[i] # CommandMsg => toService'[i] = inFlight
            /\ \A i, j \in 1..Len(toService') : toService'[i] # CommandMsg /\ toService'[j] # CommandMsg => i = j
        BY <1>2, <1>p, <1>r DEF OneOut
      <4>4. \A i \in 1..Len(toService'), j \in 1..Len(fromService') : toService'[i] # CommandMsg => fromService'[j].of = 0
        BY <4>1, <1>2, <1>p, <1>r DEF OneOut
      <4> QED
        BY <4>2, <4>3, <4>4, <1>1, <1>r DEF OneOut
    <3>7. FrameRows' /\ CreditedTyped' /\ RunsEnd' /\ LoopGoesOn'
      BY <1>1, <1>2, <1>r, <3>2 DEF FrameRows, CreditedTyped, RunsEnd, LoopGoesOn
    <3> QED
      BY <3>4, <3>6, <3>7 DEF FramesInv
  <2> QED
    BY <2>2, <2>3, <2>4
<1>4. CASE x # CommandMsg
  <2>1. PICK t \in {"frame", "busy", "error"} : fromService' = Append(fromService, [type |-> t, of |-> x])
    BY <1>1, <1>4
  <2> DEFINE a == [type |-> t, of |-> x]
  <2>2. a \in LabMsg /\ a.of = x /\ x # 0
    BY <1>2, <1>4, MsgsAre DEF LabSent, CommandMsg
  <2> HIDE DEF a
  <2>3. fromService \in Seq(LabMsg) /\ fromService' = Append(fromService, a)
    BY <1>r, <2>1 DEF FrameRows, a
  <2>4. /\ fromService' \in Seq(LabMsg) /\ Len(fromService') = Len(fromService) + 1 /\ Len(fromService) \in Nat
        /\ \A i \in 1..Len(fromService) : fromService'[i] = fromService[i]
        /\ fromService'[Len(fromService) + 1] = a
    BY <2>2, <2>3, AppendProperties, LenProperties
  <2>5. \A i \in 1..Len(fromService') :
           \/ i \in 1..Len(fromService) /\ fromService'[i] = fromService[i]
           \/ i = Len(fromService) + 1 /\ fromService'[i] = a
    BY <2>4
  <2>6. AnswersName'
    BY <1>r, <2>2, <2>5 DEF AnswersName
  <2>7. OneOut'
    <3> SUFFICES ASSUME ~freed PROVE OneOut'
      BY <1>1 DEF OneOut
    <3>1. 1 \in 1..Len(toService) /\ toService[1] # CommandMsg
      BY <1>2, <1>4
    <3>2. x = inFlight
      BY <1>2, <1>r, <3>1 DEF OneOut
    <3>3. \A i \in 1..Len(toService') : toService'[i] = CommandMsg
      BY <1>2, <1>p, <1>r, <3>1 DEF OneOut
    <3>4. \A i \in 1..Len(fromService) : fromService[i].of = 0
      BY <1>r, <3>1 DEF OneOut
    <3>5. \A i \in 1..Len(fromService') : fromService'[i].of # 0 => i = Len(fromService) + 1 /\ fromService'[i].of = inFlight
      BY <2>2, <2>5, <3>2, <3>4
    <3>6. \A c \in credited : c[1] = c[2]
      BY <1>r DEF OneOut
    <3> QED
      BY <1>1, <3>3, <3>5, <3>6 DEF OneOut
  <2>8. FrameRows' /\ CreditedTyped' /\ RunsEnd' /\ LoopGoesOn'
    BY <1>1, <1>2, <1>r, <2>4 DEF FrameRows, CreditedTyped, RunsEnd, LoopGoesOn
  <2> QED
    BY <2>6, <2>7, <2>8 DEF FramesInv
<1> QED
  BY <1>3, <1>4

LEMMA ReplyKeeps ==
  ASSUME FramesInv, ReceiveReply
  PROVE  FramesInv'
<1>r. FrameRows /\ AnswersName /\ CreditedTyped /\ OneOut /\ RunsEnd /\ LoopGoesOn
  BY DEF FramesInv
<1> DEFINE m == Head(fromService)
           ignored == m.type = "frame" /\ ~Attributed(m)
<1>1. /\ framePhase # "idle" /\ fromService # <<>> /\ fromService' = Tail(fromService)
      /\ framePhase' = IF m.type = "ready" THEN "running" ELSE framePhase
      /\ credited' = IF Attributed(m) THEN credited \cup {<<m.of, inFlight>>} ELSE credited
      /\ inFlight' = IF ignored THEN inFlight ELSE 0
      /\ tickDue' = (tickDue \/ (GoesOnAfter(m) /\ ~ignored))
      /\ freed' = (freed \/ (inFlight # 0 /\ m.of # inFlight))
      /\ UNCHANGED <<frameRun, grabbing, toService, socketShut, sentFrames, sentCommands, frameEnds>>
  BY DEF ReceiveReply
<1>2. /\ fromService' \in Seq(LabMsg) /\ Len(fromService') = Len(fromService) - 1 /\ Len(fromService) \in Nat /\ Len(fromService) >= 1
      /\ m \in LabMsg /\ m = fromService[1]
      /\ \A i \in 1..Len(fromService') : fromService'[i] = fromService[i + 1]
  <2>1. fromService \in Seq(LabMsg)
    BY <1>r DEF FrameRows
  <2>2. Len(fromService) \in Nat /\ Len(fromService) >= 1
    BY <1>1, <2>1, EmptySeq
  <2> QED
    BY <1>1, <2>1, <2>2, HeadTailProperties, ElementOfSeq
<1>a. Attributed(m) <=> m.type = "frame" /\ (inFlight # 0 \/ ~FaceStream)
  BY DEF Attributed
<1> HIDE DEF m
<1>p. \A i \in 1..Len(fromService') : i + 1 \in 1..Len(fromService) /\ i + 1 # 1
  BY <1>2
<1>m. m.type \in {"ready", "frame", "busy", "error"} /\ m.of \in Nat /\ m.of <= MaxLabFrames
  BY <1>2, MsgIs
<1>g. GoesOnAfter(m)
  BY <1>m DEF GoesOnAfter
<1>n. 1 \in 1..Len(fromService)
  BY <1>2
<1>f. m.type \in {"frame", "busy"} => m.of # 0
  BY <1>2, <1>n, <1>r DEF AnswersName
<1>3. FrameRows'
  <2>1. framePhase' \in {"idle", "connecting", "running"} /\ tickDue' \in BOOLEAN /\ freed' \in BOOLEAN
    BY <1>1, <1>g, <1>r DEF FrameRows, Attributed
  <2>2. inFlight' \in Nat /\ inFlight' <= MaxLabFrames
    BY <1>1, <1>r, FrameBounds DEF FrameRows
  <2> QED
    BY <1>1, <1>2, <1>r, <2>1, <2>2 DEF FrameRows
<1>4. AnswersName'
  BY <1>2, <1>p, <1>r DEF AnswersName
<1>5. CreditedTyped'
  <2>1. CASE Attributed(m)
    <3>1. m.of \in Frames
      BY <1>a, <1>f, <1>m, <2>1, FrameBounds DEF Frames
    <3>2. inFlight \in 0..MaxLabFrames
      BY <1>r, FrameBounds DEF FrameRows
    <3> QED
      BY <1>1, <1>r, <2>1, <3>1, <3>2 DEF CreditedTyped
  <2>2. CASE ~Attributed(m)
    BY <1>1, <1>r, <2>2 DEF CreditedTyped
  <2> QED
    BY <2>1, <2>2
<1>6. RunsEnd'
  BY <1>1, <1>r DEF RunsEnd
<1>7. LoopGoesOn'
  <2>1. CASE ignored
    BY <1>1, <1>r, <2>1 DEF LoopGoesOn
  <2>2. CASE ~ignored
    BY <1>1, <1>g, <2>2 DEF LoopGoesOn
  <2> QED
    BY <2>1, <2>2
<1>8. OneOut'
  <2> SUFFICES ASSUME ~freed' PROVE OneOut'
    BY DEF OneOut
  <2>1. ~freed /\ (inFlight = 0 \/ m.of = inFlight)
    BY <1>1
  <2>2. CASE inFlight = 0
    <3>1. m.of = 0
      BY <1>2, <1>n, <1>r, <2>1, <2>2 DEF OneOut
    <3>2. m.type # "frame" /\ inFlight' = inFlight /\ credited' = credited
      BY <1>1, <1>a, <1>f, <2>2, <3>1
    <3> HIDE DEF ignored
    <3> QED
      BY <1>1, <1>2, <1>p, <1>r, <2>1, <3>2 DEF OneOut
  <2>3. CASE inFlight # 0 /\ m.of = inFlight
    <3>1. m.of # 0 /\ inFlight' = 0
      BY <1>1, <1>a, <2>3
    <3>2. \A i \in 1..Len(toService) : toService[i] = CommandMsg
      BY <1>2, <1>n, <1>r, <2>1, <3>1 DEF OneOut
    <3>3. \A i \in 1..Len(fromService') : fromService'[i].of = 0
      BY <1>2, <1>n, <1>p, <1>r, <2>1, <3>1 DEF OneOut
    <3>4. \A c \in credited' : c[1] = c[2]
      BY <1>1, <1>r, <2>1, <2>3 DEF OneOut
    <3> QED
      BY <1>1, <3>2, <3>3, <3>4 DEF OneOut
  <2> QED
    BY <2>1, <2>2, <2>3
<1> QED
  BY <1>3, <1>4, <1>5, <1>6, <1>7, <1>8 DEF FramesInv

LEMMA FramesStep == FramesInv /\ [FramesNext]_frameVars => FramesInv'
<1>1. ASSUME FramesInv, UNCHANGED frameVars PROVE FramesInv'
  BY <1>1 DEF frameVars, FramesInv, FrameRows, AnswersName, CreditedTyped, OneOut, RunsEnd, LoopGoesOn
<1> QED
  BY <1>1, OverKeeps, StartKeeps, TickKeeps, GrabKeeps, CommandKeeps, ServeKeeps, ClosesKeeps, ReplyKeeps
     DEF FramesNext, ReplyTimeout, FrameSocketCloses

\* A reply is taken for the frame it is of, and one frame at most is out, unless an error that
\* answers something else has released the slot; a stream that runs goes on, and every run that
\* is over has said so once: for any number of runs, frames and commands (faceClient.ts).
THEOREM FramesAreTheirs == FramesSpec => [](OnlyErrorsMixFrames /\ StreamGoesOn)
<1> QED
  BY FramesStart, FramesStep, FramesMean, PTL DEF FramesSpec

-----------------------------------------------------------------------------
(* Speech of the lab *)

SessRec == [open : BOOLEAN, active : BOOLEAN, attempt : Nat, retryDue : BOOLEAN, ranLong : BOOLEAN,
            permanent : BOOLEAN, flushed : BOOLEAN]

HeardRows ==
    /\ heardSession \in Nat /\ heardSession <= SpeechStarts /\ speechConns \in Nat /\ speechConns <= SpeechConns
    /\ attemptPhase \in {"none", "connecting", "running", "stopping"} /\ inARow \in Nat
    /\ sess \in SessRec
    /\ relay \in [Conns -> {"none", "opening", "streaming", "over"}]
    /\ cloud \in [Conns -> {"none", "opening", "open", "failed", "closed"}]
    /\ pageSide \in [Conns -> {"open", "stop", "gone"}]

\* A connection is one of a session that is open, and the one to come of a session that is active; the
\* connections in a row are as many as the attempts that are counted.
SessionHolds ==
    /\ attemptPhase # "none" => sess.open /\ speechConns >= 1
    /\ sess.open => heardSession >= 1
    /\ sess.retryDue => sess.active /\ sess.open /\ attemptPhase = "none"
    /\ sess.attempt <= MaxReconnects /\ inARow <= MaxReconnects + 1
    /\ sess.open => inARow <= sess.attempt + (IF sess.retryDue THEN 0 ELSE 1)
    /\ reopened = FALSE

SpeechSessionsEnd ==
    /\ speechEnds \in [1..SpeechStarts -> Nat]
    /\ \A s \in 1..SpeechStarts : speechEnds[s] = IF s < heardSession \/ (s = heardSession /\ ~sess.open) THEN 1 ELSE 0

\* What a relay has left to say is short, and nothing before it is there.
RelaySaid(c) ==
    /\ fromRelay[c] \in Seq(RelayMsgs)
    /\ relay[c] \in {"none", "opening"} => Len(fromRelay[c]) = 0
    /\ relay[c] = "streaming" => Len(fromRelay[c]) <= 1
    /\ Len(fromRelay[c]) <= 3
RelaySpeaks ==
    /\ fromRelay \in [Conns -> Seq(RelayMsgs)]
    /\ \A c \in Conns : RelaySaid(c)
    /\ \A c \in Conns : c > speechConns => relay[c] = "none"

SpeechInv == HeardRows /\ SessionHolds /\ SpeechSessionsEnd /\ RelaySpeaks /\ OnlyTheRunningListens /\ NoCloudIsOrphaned

LEMMA SpeechBounds == SpeechStarts \in Nat /\ SpeechConns \in Nat /\ MaxReconnects \in Nat
BY LabSpeechAssumption

LEMMA SessIs ==
  ASSUME NEW r \in SessRec
  PROVE  /\ r.open \in BOOLEAN /\ r.active \in BOOLEAN /\ r.attempt \in Nat /\ r.retryDue \in BOOLEAN
         /\ r.ranLong \in BOOLEAN
BY DEF SessRec

LEMMA NoSessIs == NoSess \in SessRec /\ NoSess.open = FALSE /\ NoSess.retryDue = FALSE /\ NoSess.attempt = 0
BY DEF SessRec, NoSess

LEMMA SessStarts ==
  ASSUME NEW r, r = [NoSess EXCEPT !.open = TRUE, !.active = TRUE]
  PROVE  r \in SessRec /\ r.open = TRUE /\ r.active = TRUE /\ r.retryDue = FALSE /\ r.attempt = 0
BY DEF SessRec, NoSess

LEMMA SessRetries ==
  ASSUME NEW n \in Nat, NEW r, r = [NoSess EXCEPT !.open = TRUE, !.active = TRUE, !.retryDue = TRUE, !.attempt = n]
  PROVE  r \in SessRec /\ r.open = TRUE /\ r.active = TRUE /\ r.retryDue = TRUE /\ r.attempt = n
BY DEF SessRec, NoSess

LEMMA SessStops ==
  ASSUME NEW q \in SessRec, NEW r, r = [q EXCEPT !.active = FALSE, !.retryDue = FALSE]
  PROVE  r \in SessRec /\ r.open = q.open /\ r.active = FALSE /\ r.retryDue = FALSE /\ r.attempt = q.attempt
BY DEF SessRec

LEMMA SessConnects ==
  ASSUME NEW q \in SessRec, NEW r, r = [q EXCEPT !.retryDue = FALSE]
  PROVE  r \in SessRec /\ r.open = q.open /\ r.active = q.active /\ r.retryDue = FALSE /\ r.attempt = q.attempt
BY DEF SessRec

\* A mark on the session leaves what the invariant is about alone.
SameSession(r, q) == r \in SessRec /\ r.open = q.open /\ r.active = q.active /\ r.retryDue = q.retryDue /\ r.attempt = q.attempt
LEMMA SessMarks ==
  ASSUME NEW q \in SessRec, NEW r,
         r \in {[q EXCEPT !.flushed = TRUE], [q EXCEPT !.ranLong = TRUE], [q EXCEPT !.permanent = TRUE]}
  PROVE  SameSession(r, q)
BY DEF SessRec, SameSession

LEMMA SpeechBegins == SpeechInit => SpeechInv
<1> SUFFICES ASSUME SpeechInit PROVE SpeechInv
  OBVIOUS
<1>1. HeardRows
  BY SpeechBounds, NoSessIs DEF SpeechInit, HeardRows
<1>2. SessionHolds
  BY SpeechBounds, NoSessIs DEF SpeechInit, SessionHolds
<1>3. SpeechSessionsEnd
  BY SpeechBounds, NoSessIs DEF SpeechInit, SpeechSessionsEnd
<1>4. RelaySpeaks
  <2>1. <<>> \in Seq(RelayMsgs) /\ Len(<<>>) = 0
    BY EmptySeq
  <2> QED
    BY <2>1 DEF SpeechInit, RelaySpeaks, RelaySaid
<1>5. OnlyTheRunningListens /\ NoCloudIsOrphaned
  BY DEF SpeechInit, OnlyTheRunningListens, NoCloudIsOrphaned
<1> QED
  BY <1>1, <1>2, <1>3, <1>4, <1>5 DEF SpeechInv

LEMMA SpeechMeans == SpeechInv => /\ SpeechTypeOK /\ SessionEndsOnce /\ OnlyTheRunningListens /\ GivesUpInTheEnd
                                  /\ NoCloudIsOrphaned
<1> SUFFICES ASSUME SpeechInv
             PROVE  SpeechTypeOK /\ SessionEndsOnce /\ OnlyTheRunningListens /\ GivesUpInTheEnd /\ NoCloudIsOrphaned
  OBVIOUS
<1>r. HeardRows /\ SessionHolds /\ SpeechSessionsEnd /\ RelaySpeaks /\ OnlyTheRunningListens /\ NoCloudIsOrphaned
  BY DEF SpeechInv
<1>1. heardSession \in 0..SpeechStarts /\ speechConns \in 0..SpeechConns /\ sess.attempt \in 0..MaxReconnects
  <2>1. sess.attempt \in Nat
    BY <1>r, SessIs DEF HeardRows
  <2> QED
    BY <2>1, <1>r, SpeechBounds DEF HeardRows, SessionHolds
<1>2. subscribed \subseteq Conns
  BY <1>r, SpeechBounds DEF HeardRows, SessionHolds, OnlyTheRunningListens, Conns, cur
<1>3. SpeechTypeOK
  BY <1>1, <1>2, <1>r DEF SpeechTypeOK, HeardRows, RelaySpeaks, RelaySaid
<1> QED
  BY <1>3, <1>r DEF SessionEndsOnce, GivesUpInTheEnd, SessionHolds, SpeechSessionsEnd

-----------------------------------------------------------------------------
\* Of a connection that is over nothing is read.
LEMMA NothingSaid ==
  ASSUME NEW c \in Conns, fromRelay'[c] = <<>>
  PROVE  RelaySaid(c)'
<1>1. fromRelay'[c] \in Seq(RelayMsgs) /\ Len(fromRelay'[c]) = 0
  BY EmptySeq
<1> QED
  BY <1>1 DEF RelaySaid

\* The handlers of the connection are detached.
LEMMA HangsUp ==
  ASSUME SpeechInv, HangUp, UNCHANGED relay
  PROVE  /\ pageSide' \in [Conns -> {"open", "stop", "gone"}]
         /\ fromRelay' \in [Conns -> Seq(RelayMsgs)]
         /\ \A c \in Conns : RelaySaid(c)'
<1>r. HeardRows /\ RelaySpeaks
  BY DEF SpeechInv
<1>1. pageSide' \in [Conns -> {"open", "stop", "gone"}]
  BY <1>r DEF HeardRows, HangUp
<1>e. <<>> \in Seq(RelayMsgs) /\ Len(<<>>) = 0
  BY EmptySeq
<1>2. fromRelay' \in [Conns -> Seq(RelayMsgs)]
  BY <1>r, <1>e DEF RelaySpeaks, HangUp
<1>3. ASSUME NEW c \in Conns PROVE fromRelay'[c] = fromRelay[c] \/ fromRelay'[c] = <<>>
  BY <1>r DEF RelaySpeaks, HangUp
<1>4. ASSUME NEW c \in Conns PROVE RelaySaid(c)'
  <2>1. RelaySaid(c)
    BY <1>r DEF RelaySpeaks
  <2>2. CASE fromRelay'[c] = fromRelay[c]
    BY <2>1, <2>2 DEF RelaySaid
  <2>3. CASE fromRelay'[c] = <<>>
    BY <2>3, NothingSaid
  <2> QED
    BY <1>3, <2>2, <2>3
<1> QED
  BY <1>1, <1>2, <1>4

\* The end of a session, however it comes.
LEMMA FinishKeeps ==
  ASSUME SpeechInv, sess.open, Finish,
         UNCHANGED <<heardSession, speechConns, relay, cloud, inARow, reopened>>
  PROVE  SpeechInv'
<1>r. HeardRows /\ SessionHolds /\ SpeechSessionsEnd /\ RelaySpeaks /\ OnlyTheRunningListens /\ NoCloudIsOrphaned
  BY DEF SpeechInv
<1>1. sess' = NoSess /\ attemptPhase' = "none" /\ subscribed' = Unsubscribed /\ HangUp
      /\ speechEnds' = [speechEnds EXCEPT ![heardSession] = speechEnds[heardSession] + 1]
      /\ UNCHANGED <<heardSession, speechConns, relay, cloud, inARow, reopened>>
  BY DEF Finish
<1>h. /\ pageSide' \in [Conns -> {"open", "stop", "gone"}] /\ fromRelay' \in [Conns -> Seq(RelayMsgs)]
      /\ \A c \in Conns : RelaySaid(c)'
  BY <1>1, HangsUp
<1>s. sess' \in SessRec /\ sess'.open = FALSE /\ sess'.retryDue = FALSE /\ sess'.attempt = 0
  BY <1>1, NoSessIs
<1>2. HeardRows'
  BY <1>1, <1>h, <1>s, <1>r DEF HeardRows
<1>3. SessionHolds'
  BY <1>1, <1>s, <1>r, SpeechBounds DEF SessionHolds, HeardRows
<1>4. SpeechSessionsEnd'
  <2>1. heardSession \in 1..SpeechStarts
    BY <1>r, SpeechBounds DEF HeardRows, SessionHolds
  <2>2. ASSUME NEW s \in 1..SpeechStarts
        PROVE  /\ speechEnds'[s] = IF s < heardSession \/ s = heardSession THEN 1 ELSE 0
               /\ speechEnds'[s] \in Nat
    <3>1. speechEnds[s] \in Nat /\ s \in Nat /\ heardSession \in Nat
      BY <1>r, <2>1 DEF SpeechSessionsEnd
    <3>2. speechEnds[s] = IF s < heardSession THEN 1 ELSE 0
      BY <1>r, <3>1 DEF SpeechSessionsEnd
    <3>3. speechEnds'[s] = IF s = heardSession THEN speechEnds[s] + 1 ELSE speechEnds[s]
      BY <1>1, <1>r DEF SpeechSessionsEnd
    <3> QED
      BY <3>1, <3>2, <3>3
  <2>3. speechEnds' \in [1..SpeechStarts -> Nat]
    <3>1. speechEnds' = [s \in 1..SpeechStarts |-> speechEnds'[s]]
      BY <1>1, <1>r DEF SpeechSessionsEnd
    <3> QED
      BY <3>1, <2>2
  <2> QED
    BY <2>2, <2>3, <1>1, <1>s DEF SpeechSessionsEnd
<1>5. RelaySpeaks'
  BY <1>1, <1>h, <1>r DEF RelaySpeaks
<1>6. OnlyTheRunningListens' /\ NoCloudIsOrphaned'
  BY <1>1, <1>r DEF OnlyTheRunningListens, NoCloudIsOrphaned, Unsubscribed, cur
<1> QED
  BY <1>2, <1>3, <1>4, <1>5, <1>6 DEF SpeechInv

\* A connection that failed is tried again, or the session ends.
LEMMA FailsKeeps ==
  ASSUME SpeechInv, attemptPhase # "none", ConnFails,
         UNCHANGED <<heardSession, speechConns, relay, cloud, reopened>>
  PROVE  SpeechInv'
<1>r. HeardRows /\ SessionHolds /\ SpeechSessionsEnd /\ RelaySpeaks /\ OnlyTheRunningListens /\ NoCloudIsOrphaned
  BY DEF SpeechInv
<1>o. sess.open
  BY <1>r DEF SessionHolds
<1>1. CASE ~sess.active \/ sess.permanent \/ Attempts >= MaxReconnects
  BY <1>1, <1>o, FinishKeeps DEF ConnFails
<1>2. CASE ~(~sess.active \/ sess.permanent \/ Attempts >= MaxReconnects)
  <2>1. /\ sess' = [NoSess EXCEPT !.open = TRUE, !.active = TRUE, !.retryDue = TRUE, !.attempt = Attempts + 1]
        /\ attemptPhase' = "none" /\ subscribed' = Unsubscribed /\ HangUp
        /\ inARow' = (IF sess.ranLong THEN 0 ELSE inARow)
        /\ UNCHANGED <<speechEnds, heardSession, speechConns, relay, cloud, reopened>>
    BY <1>2 DEF ConnFails
  <2>t. sess.attempt \in Nat /\ sess.ranLong \in BOOLEAN /\ sess.retryDue \in BOOLEAN
    BY <1>r, SessIs DEF HeardRows
  <2>2. Attempts \in Nat /\ Attempts < MaxReconnects /\ (~sess.ranLong => Attempts = sess.attempt)
    BY <1>2, <2>t, SpeechBounds DEF Attempts
  <2>3. sess' \in SessRec /\ sess'.open = TRUE /\ sess'.active = TRUE /\ sess'.retryDue = TRUE /\ sess'.attempt = Attempts + 1
    <3>1. Attempts + 1 \in Nat
      BY <2>2
    <3> QED
      BY <3>1, <2>1, SessRetries
  <2>4. inARow' \in Nat /\ inARow' <= Attempts + 1
    <3>1. inARow \in Nat /\ inARow <= sess.attempt + 1
      BY <1>r, <1>o, <2>t DEF SessionHolds, HeardRows
    <3> QED
      BY <3>1, <2>1, <2>2, <2>t
  <2>h. /\ pageSide' \in [Conns -> {"open", "stop", "gone"}] /\ fromRelay' \in [Conns -> Seq(RelayMsgs)]
        /\ \A c \in Conns : RelaySaid(c)'
    BY <2>1, HangsUp
  <2>5. HeardRows'
    BY <2>1, <2>3, <2>4, <2>h, <1>r DEF HeardRows
  <2>6. SessionHolds'
    <3>1. sess'.attempt <= MaxReconnects /\ inARow' <= MaxReconnects + 1 /\ inARow' <= sess'.attempt + 0
      BY <2>2, <2>3, <2>4, SpeechBounds
    <3>2. heardSession >= 1 /\ reopened = FALSE
      BY <1>r, <1>o DEF SessionHolds
    <3> QED
      BY <3>1, <3>2, <2>1, <2>3 DEF SessionHolds
  <2>7. SpeechSessionsEnd'
    BY <2>1, <2>3, <1>r, <1>o DEF SpeechSessionsEnd
  <2>8. RelaySpeaks'
    BY <2>1, <2>h, <1>r DEF RelaySpeaks
  <2>9. OnlyTheRunningListens' /\ NoCloudIsOrphaned'
    BY <2>1, <1>r DEF OnlyTheRunningListens, NoCloudIsOrphaned, Unsubscribed, cur
  <2> QED
    BY <2>5, <2>6, <2>7, <2>8, <2>9 DEF SpeechInv
<1> QED
  BY <1>1, <1>2

\* The connection that is opened is the next one, and nothing has been heard of it.
LEMMA ConnectionOpens ==
  ASSUME SpeechInv, NEW row, Connect(row)
  PROVE  /\ speechConns' = speechConns + 1 /\ speechConns' \in Nat /\ speechConns' <= SpeechConns
         /\ relay' \in [Conns -> {"none", "opening", "streaming", "over"}]
         /\ cloud' \in [Conns -> {"none", "opening", "open", "failed", "closed"}]
         /\ \A c \in Conns : c > speechConns' => relay'[c] = "none"
         /\ \A c \in Conns : relay'[c] = relay[c] \/ (relay[c] = "none" /\ relay'[c] = "opening")
         /\ NoCloudIsOrphaned'
<1>r. HeardRows /\ RelaySpeaks /\ NoCloudIsOrphaned
  BY DEF SpeechInv
<1>1. /\ speechConns < SpeechConns /\ speechConns' = speechConns + 1
      /\ relay' = [relay EXCEPT ![speechConns + 1] = "opening"] /\ cloud' = [cloud EXCEPT ![speechConns + 1] = "opening"]
  BY DEF Connect
<1>2. speechConns' \in Nat /\ speechConns' <= SpeechConns /\ speechConns + 1 \in Conns /\ speechConns + 1 > speechConns
      /\ \A c \in Conns : c \in Int /\ (c > speechConns + 1 => c > speechConns /\ c # speechConns + 1)
  BY <1>1, <1>r, SpeechBounds DEF HeardRows, Conns
<1>3. relay[speechConns + 1] = "none"
  BY <1>2, <1>r DEF RelaySpeaks
<1>4. /\ relay' \in [Conns -> {"none", "opening", "streaming", "over"}]
      /\ cloud' \in [Conns -> {"none", "opening", "open", "failed", "closed"}]
  BY <1>1, <1>r DEF HeardRows
<1>5. \A c \in Conns : /\ relay'[c] = IF c = speechConns + 1 THEN "opening" ELSE relay[c]
                       /\ cloud'[c] = IF c = speechConns + 1 THEN "opening" ELSE cloud[c]
  BY <1>1, <1>r DEF HeardRows
<1>6. \A c \in Conns : c > speechConns' => relay'[c] = "none"
  BY <1>1, <1>2, <1>5, <1>r DEF RelaySpeaks
<1>7. NoCloudIsOrphaned'
  BY <1>5, <1>r DEF NoCloudIsOrphaned
<1> QED
  BY <1>1, <1>2, <1>3, <1>4, <1>5, <1>6, <1>7

LEMMA StartSpeechKeeps ==
  ASSUME SpeechInv, SpeechStart
  PROVE  SpeechInv'
<1>r. HeardRows /\ SessionHolds /\ SpeechSessionsEnd /\ RelaySpeaks /\ OnlyTheRunningListens /\ NoCloudIsOrphaned
  BY DEF SpeechInv
<1>1. /\ heardSession < SpeechStarts /\ heardSession' = heardSession + 1
      /\ Connect(1) /\ sess' = [NoSess EXCEPT !.open = TRUE, !.active = TRUE] /\ subscribed' = Unsubscribed
      /\ speechEnds' = IF sess.open THEN [speechEnds EXCEPT ![heardSession] = speechEnds[heardSession] + 1] ELSE speechEnds
      /\ HangUp /\ reopened' = reopened /\ attemptPhase' = "connecting" /\ inARow' = 1
  BY DEF SpeechStart, Connect
<1>c. /\ speechConns' = speechConns + 1 /\ speechConns' \in Nat /\ speechConns' <= SpeechConns
      /\ relay' \in [Conns -> {"none", "opening", "streaming", "over"}]
      /\ cloud' \in [Conns -> {"none", "opening", "open", "failed", "closed"}]
      /\ \A c \in Conns : c > speechConns' => relay'[c] = "none"
      /\ \A c \in Conns : relay'[c] = relay[c] \/ (relay[c] = "none" /\ relay'[c] = "opening")
      /\ NoCloudIsOrphaned'
  BY <1>1, ConnectionOpens
<1>s. sess' \in SessRec /\ sess'.open = TRUE /\ sess'.active = TRUE /\ sess'.retryDue = FALSE /\ sess'.attempt = 0
  BY <1>1, SessStarts
<1>e. <<>> \in Seq(RelayMsgs) /\ Len(<<>>) = 0
  BY EmptySeq
<1>p. pageSide' \in [Conns -> {"open", "stop", "gone"}]
  BY <1>1, <1>r DEF HeardRows, HangUp
<1>f. fromRelay' \in [Conns -> Seq(RelayMsgs)]
  BY <1>1, <1>r, <1>e DEF RelaySpeaks, HangUp
<1>g. \A c \in Conns : fromRelay'[c] = fromRelay[c] \/ fromRelay'[c] = <<>>
  BY <1>1, <1>r DEF RelaySpeaks, HangUp
<1>n. heardSession' \in Nat /\ heardSession' <= SpeechStarts /\ heardSession' >= 1
  BY <1>1, <1>r, SpeechBounds DEF HeardRows
<1>2. HeardRows'
  BY <1>1, <1>c, <1>s, <1>p, <1>n DEF HeardRows
<1>3. SessionHolds'
  <2>1. speechConns' >= 1
    BY <1>c, <1>r DEF HeardRows
  <2> QED
    BY <1>1, <1>s, <1>n, <2>1, <1>r, SpeechBounds DEF SessionHolds
<1>4. SpeechSessionsEnd'
  <2>1. sess.open => heardSession \in 1..SpeechStarts
    BY <1>r, SpeechBounds DEF HeardRows, SessionHolds
  <2>b. sess.open \in BOOLEAN
    BY <1>r, SessIs DEF HeardRows
  <2>2. ASSUME NEW s \in 1..SpeechStarts
        PROVE  /\ speechEnds'[s] = IF s < heardSession + 1 THEN 1 ELSE 0
               /\ speechEnds'[s] \in Nat
    <3>1. speechEnds[s] \in Nat /\ s \in Nat /\ heardSession \in Nat
      BY <1>r, SpeechBounds DEF SpeechSessionsEnd, HeardRows
    <3>2. speechEnds[s] = IF s < heardSession \/ (s = heardSession /\ ~sess.open) THEN 1 ELSE 0
      BY <1>r DEF SpeechSessionsEnd
    <3>3. speechEnds'[s] = IF s = heardSession /\ sess.open THEN speechEnds[s] + 1 ELSE speechEnds[s]
      BY <1>1, <1>r, <2>b DEF SpeechSessionsEnd
    <3> QED
      BY <3>1, <3>2, <3>3, <2>b
  <2>3. speechEnds' \in [1..SpeechStarts -> Nat]
    <3>1. speechEnds' = [s \in 1..SpeechStarts |-> speechEnds'[s]]
      BY <1>1, <1>r DEF SpeechSessionsEnd
    <3> QED
      BY <3>1, <2>2
  <2>4. \A s \in 1..SpeechStarts : s < heardSession' \/ (s = heardSession' /\ ~sess'.open) <=> s < heardSession + 1
    BY <1>1, <1>s
  <2> QED
    BY <2>2, <2>3, <2>4 DEF SpeechSessionsEnd
<1>5. RelaySpeaks'
  <2>1. ASSUME NEW c \in Conns PROVE RelaySaid(c)'
    <3>1. RelaySaid(c)
      BY <1>r DEF RelaySpeaks
    <3> QED
      <4>1. CASE fromRelay'[c] = fromRelay[c]
        BY <3>1, <4>1, <1>c DEF RelaySaid
      <4>2. CASE fromRelay'[c] = <<>>
        BY <4>2, NothingSaid
      <4> QED
        BY <4>1, <4>2, <1>g
  <2> QED
    BY <2>1, <1>f, <1>c DEF RelaySpeaks
<1>6. OnlyTheRunningListens'
  BY <1>1, <1>r DEF OnlyTheRunningListens, Unsubscribed, cur
<1> QED
  BY <1>2, <1>3, <1>4, <1>5, <1>6, <1>c DEF SpeechInv

LEMMA RetryKeeps ==
  ASSUME SpeechInv, RetryTimer
  PROVE  SpeechInv'
<1>r. HeardRows /\ SessionHolds /\ SpeechSessionsEnd /\ RelaySpeaks /\ OnlyTheRunningListens /\ NoCloudIsOrphaned
  BY DEF SpeechInv
<1>1. /\ sess.retryDue /\ sess' = [sess EXCEPT !.retryDue = FALSE] /\ Connect(inARow + 1)
      /\ reopened' = (reopened \/ ~sess.active) /\ attemptPhase' = "connecting" /\ inARow' = inARow + 1
      /\ UNCHANGED <<heardSession, subscribed, fromRelay, pageSide, speechEnds>>
  BY DEF RetryTimer, Connect
<1>c. /\ speechConns' = speechConns + 1 /\ speechConns' \in Nat /\ speechConns' <= SpeechConns
      /\ relay' \in [Conns -> {"none", "opening", "streaming", "over"}]
      /\ cloud' \in [Conns -> {"none", "opening", "open", "failed", "closed"}]
      /\ \A c \in Conns : c > speechConns' => relay'[c] = "none"
      /\ \A c \in Conns : relay'[c] = relay[c] \/ (relay[c] = "none" /\ relay'[c] = "opening")
      /\ NoCloudIsOrphaned'
  BY <1>1, ConnectionOpens
<1>h. sess.active /\ sess.open /\ attemptPhase = "none" /\ reopened = FALSE
  BY <1>1, <1>r DEF SessionHolds
<1>s. sess' \in SessRec /\ sess'.open = sess.open /\ sess'.active = sess.active /\ sess'.retryDue = FALSE
      /\ sess'.attempt = sess.attempt
  BY <1>1, <1>r, SessConnects DEF HeardRows
<1>n. /\ sess.attempt \in Nat /\ inARow \in Nat /\ inARow <= sess.attempt /\ sess.attempt <= MaxReconnects
      /\ heardSession >= 1
  <2>1. sess.attempt \in Nat
    BY <1>r, SessIs DEF HeardRows
  <2>2. inARow \in Nat /\ inARow <= sess.attempt + 0 /\ sess.attempt <= MaxReconnects /\ heardSession >= 1
    BY <1>1, <1>h, <1>r DEF HeardRows, SessionHolds
  <2> QED
    BY <2>1, <2>2
<1>2. HeardRows'
  <2>1. inARow' \in Nat
    BY <1>1, <1>n
  <2> QED
    BY <2>1, <1>1, <1>c, <1>s, <1>r DEF HeardRows
<1>3. SessionHolds'
  <2>1. speechConns' >= 1 /\ inARow' <= MaxReconnects + 1 /\ inARow' <= sess'.attempt + 1 /\ sess'.attempt <= MaxReconnects
    BY <1>1, <1>c, <1>s, <1>n, <1>r, SpeechBounds DEF HeardRows
  <2>2. reopened' = FALSE
    BY <1>1, <1>h
  <2> QED
    BY <2>1, <2>2, <1>1, <1>s, <1>n, <1>h DEF SessionHolds
<1>4. SpeechSessionsEnd'
  BY <1>1, <1>s, <1>r DEF SpeechSessionsEnd
<1>5. RelaySpeaks'
  <2>1. ASSUME NEW c \in Conns PROVE RelaySaid(c)'
    <3>1. RelaySaid(c)
      BY <1>r DEF RelaySpeaks
    <3> QED
      BY <3>1, <1>1, <1>c DEF RelaySaid
  <2> QED
    BY <2>1, <1>1, <1>r, <1>c DEF RelaySpeaks
<1>6. OnlyTheRunningListens'
  BY <1>1, <1>h, <1>r DEF OnlyTheRunningListens
<1> QED
  BY <1>2, <1>3, <1>4, <1>5, <1>6, <1>c DEF SpeechInv

\* Nothing that the session rests on moves: a mark is set, the audio goes another way.
LEMMA MarksKeep ==
  ASSUME SpeechInv, SameSession(sess', sess), HeardRows', RelaySpeaks', OnlyTheRunningListens', NoCloudIsOrphaned',
         attemptPhase' = "none" <=> attemptPhase = "none",
         UNCHANGED <<heardSession, speechConns, speechEnds, inARow, reopened>>
  PROVE  SpeechInv'
<1>r. HeardRows /\ SessionHolds /\ SpeechSessionsEnd
  BY DEF SpeechInv
<1>1. sess'.open = sess.open /\ sess'.active = sess.active /\ sess'.retryDue = sess.retryDue /\ sess'.attempt = sess.attempt
  BY DEF SameSession
<1>2. SessionHolds'
  BY <1>1, <1>r DEF SessionHolds
<1>3. SpeechSessionsEnd'
  BY <1>1, <1>r DEF SpeechSessionsEnd
<1> QED
  BY <1>2, <1>3 DEF SpeechInv

LEMMA StopSpeechKeeps ==
  ASSUME SpeechInv, SpeechStop
  PROVE  SpeechInv'
<1>r. HeardRows /\ SessionHolds /\ SpeechSessionsEnd /\ RelaySpeaks /\ OnlyTheRunningListens /\ NoCloudIsOrphaned
  BY DEF SpeechInv
<1>1. CASE attemptPhase # "running"
  BY <1>1, FinishKeeps DEF SpeechStop
<1>2. CASE attemptPhase = "running"
  <2>1. /\ sess' = [sess EXCEPT !.active = FALSE, !.retryDue = FALSE] /\ attemptPhase' = "stopping"
        /\ subscribed' = Unsubscribed /\ sess.open
        /\ UNCHANGED <<speechEnds, pageSide, fromRelay, heardSession, speechConns, relay, cloud, inARow, reopened>>
    BY <1>2 DEF SpeechStop
  <2>2. sess' \in SessRec /\ sess'.open = sess.open /\ sess'.active = FALSE /\ sess'.retryDue = FALSE
        /\ sess'.attempt = sess.attempt
    BY <2>1, <1>r, SessStops DEF HeardRows
  <2>3. ~sess.retryDue
    BY <1>2, <1>r DEF SessionHolds
  <2>4. HeardRows'
    BY <2>1, <2>2, <1>r DEF HeardRows
  <2>5. SessionHolds'
    BY <2>1, <2>2, <2>3, <1>2, <1>r DEF SessionHolds
  <2>6. SpeechSessionsEnd'
    BY <2>1, <2>2, <1>r DEF SpeechSessionsEnd
  <2>7. RelaySpeaks'
    BY <2>1, <1>r DEF RelaySpeaks, RelaySaid
  <2>8. OnlyTheRunningListens' /\ NoCloudIsOrphaned'
    BY <2>1, <1>r DEF OnlyTheRunningListens, NoCloudIsOrphaned, Unsubscribed, cur
  <2> QED
    BY <2>4, <2>5, <2>6, <2>7, <2>8 DEF SpeechInv
<1> QED
  BY <1>1, <1>2

LEMMA RelaySaysKeeps ==
  ASSUME SpeechInv, NEW m, RelaySays(m)
  PROVE  SpeechInv'
<1>r. HeardRows /\ SessionHolds /\ SpeechSessionsEnd /\ RelaySpeaks /\ OnlyTheRunningListens /\ NoCloudIsOrphaned
  BY DEF SpeechInv
<1>1. attemptPhase # "none" /\ fromRelay[cur] # <<>>
      /\ UNCHANGED <<heardSession, speechConns, relay, cloud, reopened>>
  BY DEF RelaySays, PageListens
<1>c. cur \in Conns /\ sess.open
  BY <1>1, <1>r, SpeechBounds DEF cur, Conns, HeardRows, SessionHolds
<1>2. CASE m = "closed"
  <2>1. SpeechClosed
    BY <1>2 DEF RelaySays
  <2>2. CASE attemptPhase = "stopping"
    BY <1>1, <1>c, <2>1, <2>2, FinishKeeps DEF SpeechClosed
  <2>3. CASE attemptPhase # "stopping"
    BY <1>1, <2>1, <2>3, FailsKeeps DEF SpeechClosed
  <2> QED
    BY <2>2, <2>3
<1>3. CASE m # "closed"
  <2>1. fromRelay' = [fromRelay EXCEPT ![cur] = Tail(fromRelay[cur])] /\ UNCHANGED <<pageSide, speechEnds, inARow>>
    <3>1. fromRelay' = [fromRelay EXCEPT ![cur] = Tail(fromRelay[cur])]
      BY <1>3 DEF RelaySays
    <3>2. UNCHANGED <<pageSide, speechEnds, inARow>>
      BY <1>3 DEF RelaySays
    <3> QED
      BY <3>1, <3>2
  <2>2. RelaySpeaks'
    <3>1. Tail(fromRelay[cur]) \in Seq(RelayMsgs) /\ Len(Tail(fromRelay[cur])) = Len(fromRelay[cur]) - 1
          /\ Len(fromRelay[cur]) \in Nat /\ Len(fromRelay[cur]) # 0
      <4>1. fromRelay[cur] \in Seq(RelayMsgs)
        BY <1>c, <1>r DEF RelaySpeaks
      <4> QED
        BY <4>1, <1>1, EmptySeq, HeadTailProperties, LenProperties
    <3>2. fromRelay' \in [Conns -> Seq(RelayMsgs)]
      BY <2>1, <3>1, <1>r DEF RelaySpeaks
    <3>3. ASSUME NEW c \in Conns PROVE RelaySaid(c)'
      <4>1. RelaySaid(c) /\ RelaySaid(cur)
        BY <1>c, <1>r DEF RelaySpeaks
      <4>2. fromRelay'[c] = IF c = cur THEN Tail(fromRelay[cur]) ELSE fromRelay[c]
        BY <2>1, <1>r DEF RelaySpeaks
      <4> QED
        BY <1>1, <3>1, <4>1, <4>2 DEF RelaySaid
    <3> QED
      BY <3>2, <3>3, <1>1, <1>r DEF RelaySpeaks
  <2>m. SameSession(sess, sess)
    BY <1>r DEF SameSession, HeardRows
  <2>3. CASE m = "ready" /\ attemptPhase = "connecting"
    <3>1. attemptPhase' = "running" /\ subscribed' = Unsubscribed \cup {cur} /\ sess' = sess
      BY <2>3 DEF RelaySays
    <3>2. HeardRows'
      BY <3>1, <2>1, <1>1, <1>r DEF HeardRows
    <3>3. OnlyTheRunningListens' /\ NoCloudIsOrphaned'
      BY <3>1, <1>1, <1>r DEF OnlyTheRunningListens, NoCloudIsOrphaned, Unsubscribed, cur
    <3> QED
      BY <3>1, <3>2, <3>3, <2>1, <2>2, <2>m, <1>1, MarksKeep
  <2>4. CASE ~(m = "ready" /\ attemptPhase = "connecting")
    <3>1. UNCHANGED <<attemptPhase, subscribed>> /\ (sess' = sess \/ sess' = [sess EXCEPT !.permanent = TRUE])
      <4>1. CASE m = "refusal"
        BY <4>1, <1>3 DEF RelaySays
      <4>2. CASE m # "refusal"
        BY <4>2, <2>4, <1>3 DEF RelaySays
      <4> QED
        BY <4>1, <4>2
    <3>2. SameSession(sess', sess)
      BY <3>1, <2>m, <1>r, SessMarks DEF HeardRows
    <3>3. HeardRows'
      BY <3>1, <3>2, <2>1, <1>1, <1>r DEF HeardRows, SameSession
    <3>4. OnlyTheRunningListens' /\ NoCloudIsOrphaned'
      BY <3>1, <1>1, <1>r DEF OnlyTheRunningListens, NoCloudIsOrphaned, cur
    <3> QED
      BY <3>1, <3>2, <3>3, <3>4, <2>1, <2>2, <1>1, MarksKeep
  <2> QED
    BY <2>3, <2>4
<1> QED
  BY <1>2, <1>3

LEMMA OneWord ==
  ASSUME NEW m \in RelayMsgs
  PROVE  <<m>> \in Seq(RelayMsgs) /\ Len(<<m>>) = 1
OBVIOUS

\* What the relay and the cloud do leaves the session alone.
LEMMA RelayKeeps ==
  ASSUME SpeechInv, NEW c \in Conns, CloudChanges(c) \/ RelayReady(c) \/ RelayOver(c)
  PROVE  SpeechInv'
<1>r. HeardRows /\ SessionHolds /\ SpeechSessionsEnd /\ RelaySpeaks /\ OnlyTheRunningListens /\ NoCloudIsOrphaned
  BY DEF SpeechInv
<1>u. UNCHANGED <<heardSession, sess, attemptPhase, speechConns, subscribed, pageSide, speechEnds, inARow, reopened>>
  <2>1. CASE CloudChanges(c)
    BY <2>1 DEF CloudChanges
  <2>2. CASE RelayReady(c)
    BY <2>2 DEF RelayReady
  <2>3. CASE RelayOver(c)
    BY <2>3 DEF RelayOver, RelayEnds
  <2> QED
    BY <2>1, <2>2, <2>3
<1>m. SameSession(sess', sess) /\ OnlyTheRunningListens'
  BY <1>u, <1>r DEF SameSession, HeardRows, OnlyTheRunningListens, cur
<1>s. fromRelay[c] \in Seq(RelayMsgs) /\ RelaySaid(c)
  BY <1>r DEF RelaySpeaks
<1>1. CASE CloudChanges(c)
  <2>1. UNCHANGED <<relay, fromRelay>> /\ \E x \in {"open", "failed"} : cloud' = [cloud EXCEPT ![c] = x]
        /\ cloud[c] \in {"opening", "open"}
    BY <1>1 DEF CloudChanges
  <2>2. cloud' \in [Conns -> {"none", "opening", "open", "failed", "closed"}]
    BY <2>1, <1>r DEF HeardRows
  <2>3. HeardRows'
    BY <2>1, <2>2, <1>u, <1>r DEF HeardRows
  <2>4. RelaySpeaks'
    BY <2>1, <1>u, <1>r DEF RelaySpeaks, RelaySaid
  <2>5. NoCloudIsOrphaned'
    <3>1. relay[c] # "over"
      BY <2>1, <1>r DEF NoCloudIsOrphaned
    <3>2. \A d \in Conns : d # c => cloud'[d] = cloud[d]
      BY <2>1, <1>r DEF HeardRows
    <3> QED
      BY <3>1, <3>2, <2>1, <1>r DEF NoCloudIsOrphaned
  <2> QED
    BY <2>3, <2>4, <2>5, <1>u, <1>m, MarksKeep
<1>2. CASE RelayReady(c)
  <2>1. /\ relay[c] = "opening" /\ relay' = [relay EXCEPT ![c] = "streaming"] /\ cloud' = cloud
        /\ fromRelay' = [fromRelay EXCEPT ![c] = Append(fromRelay[c], "ready")]
    BY <1>2 DEF RelayReady
  <2>2. Append(fromRelay[c], "ready") \in Seq(RelayMsgs) /\ Len(Append(fromRelay[c], "ready")) = 1
    <3>1. "ready" \in RelayMsgs /\ Len(fromRelay[c]) = 0
      BY <2>1, <1>s DEF RelayMsgs, RelaySaid
    <3> QED
      BY <3>1, <1>s, AppendProperties
  <2>3. HeardRows'
    BY <2>1, <1>u, <1>r DEF HeardRows
  <2>4. /\ \A d \in Conns : /\ relay'[d] = IF d = c THEN "streaming" ELSE relay[d]
                            /\ fromRelay'[d] = IF d = c THEN Append(fromRelay[c], "ready") ELSE fromRelay[d]
        /\ fromRelay' \in [Conns -> Seq(RelayMsgs)]
    BY <2>1, <2>2, <1>r DEF HeardRows, RelaySpeaks
  <2>5. ASSUME NEW d \in Conns PROVE RelaySaid(d)'
    <3>1. RelaySaid(d)
      BY <1>r DEF RelaySpeaks
    <3> QED
      BY <3>1, <2>2, <2>4 DEF RelaySaid
  <2>6. RelaySpeaks'
    <3>1. \A d \in Conns : d > speechConns => relay'[d] = "none"
      BY <2>1, <2>4, <1>r DEF RelaySpeaks
    <3> QED
      BY <3>1, <2>4, <2>5, <1>u DEF RelaySpeaks
  <2>7. NoCloudIsOrphaned'
    BY <2>1, <2>4, <1>r DEF NoCloudIsOrphaned
  <2> QED
    BY <2>3, <2>6, <2>7, <1>u, <1>m, MarksKeep
<1>3. CASE RelayOver(c)
  <2>1. /\ relay[c] \in {"opening", "streaming"}
        /\ \E words \in {<<>>, <<"error">>, <<"refusal">>} : RelayEnds(c, words)
    <3>1. CASE relay[c] \in {"opening", "streaming"} /\ pageSide[c] # "open" /\ RelayEnds(c, <<>>)
      BY <3>1
    <3>2. CASE relay[c] \in {"opening", "streaming"} /\ cloud[c] = "failed" /\ \E w \in {"error", "refusal"} : RelayEnds(c, <<w>>)
      BY <3>2
    <3>3. CASE relay[c] = "streaming" /\ \E w \in {"error", "refusal"} : RelayEnds(c, <<w>>)
      BY <3>3
    <3> QED
      BY <1>3, <3>1, <3>2, <3>3 DEF RelayOver
  <2>2. PICK words \in {<<>>, <<"error">>, <<"refusal">>} : RelayEnds(c, words)
    BY <2>1
  <2> DEFINE said == fromRelay[c] \o words \o <<"closed">>
  <2>3. said \in Seq(RelayMsgs) /\ Len(said) <= 3
    <3>1. words \in Seq(RelayMsgs) /\ Len(words) <= 1 /\ Len(words) \in Nat
      <4>1. CASE words = <<>>
        BY <4>1, EmptySeq
      <4>2. CASE words = <<"error">>
        BY <4>2, OneWord DEF RelayMsgs
      <4>3. CASE words = <<"refusal">>
        BY <4>3, OneWord DEF RelayMsgs
      <4> QED
        BY <4>1, <4>2, <4>3
    <3>2. <<"closed">> \in Seq(RelayMsgs) /\ Len(<<"closed">>) = 1
      BY OneWord DEF RelayMsgs
    <3>3. Len(fromRelay[c]) \in Nat /\ Len(fromRelay[c]) <= 1
      BY <2>1, <1>s, LenProperties DEF RelaySaid
    <3>4. fromRelay[c] \o words \in Seq(RelayMsgs) /\ Len(fromRelay[c] \o words) = Len(fromRelay[c]) + Len(words)
      BY <3>1, <1>s, ConcatProperties
    <3>5. said \in Seq(RelayMsgs) /\ Len(said) = Len(fromRelay[c] \o words) + 1
      BY <3>2, <3>4, ConcatProperties
    <3> QED
      BY <3>1, <3>3, <3>4, <3>5
  <2>4. /\ relay' = [relay EXCEPT ![c] = "over"] /\ cloud' = [cloud EXCEPT ![c] = "closed"]
        /\ fromRelay' = [fromRelay EXCEPT ![c] = IF pageSide[c] = "gone" THEN <<>> ELSE said]
    BY <2>2 DEF RelayEnds, CloudLeft
  <2> HIDE DEF said
  <2>e. <<>> \in Seq(RelayMsgs) /\ Len(<<>>) = 0
    BY EmptySeq
  <2>5. HeardRows'
    BY <2>4, <1>u, <1>r DEF HeardRows
  <2>6. \A d \in Conns : /\ relay'[d] = IF d = c THEN "over" ELSE relay[d]
                         /\ cloud'[d] = IF d = c THEN "closed" ELSE cloud[d]
    BY <2>4, <1>r DEF HeardRows
  <2>7. \A d \in Conns : fromRelay'[d] = IF d = c THEN (IF pageSide[c] = "gone" THEN <<>> ELSE said) ELSE fromRelay[d]
    BY <2>4, <1>r DEF RelaySpeaks
  <2>8. ASSUME NEW d \in Conns PROVE RelaySaid(d)'
    <3>1. RelaySaid(d)
      BY <1>r DEF RelaySpeaks
    <3>2. CASE d # c
      BY <3>1, <3>2, <2>6, <2>7 DEF RelaySaid
    <3>3. CASE d = c
      <4>1. CASE fromRelay'[d] = <<>>
        BY <4>1, NothingSaid
      <4>2. CASE fromRelay'[d] = said
        <5>1. relay'[d] = "over"
          BY <3>3, <2>6
        <5> QED
          BY <4>2, <5>1, <2>3 DEF RelaySaid
      <4> QED
        BY <3>3, <2>7, <4>1, <4>2
    <3> QED
      BY <3>2, <3>3
  <2>9. RelaySpeaks'
    <3>1. \A d \in Conns : d > speechConns => relay'[d] = "none"
      BY <2>1, <2>6, <1>r DEF RelaySpeaks
    <3>2. fromRelay' \in [Conns -> Seq(RelayMsgs)]
      BY <2>4, <2>3, <2>e, <1>r DEF RelaySpeaks
    <3> QED
      BY <3>1, <3>2, <2>8, <1>u DEF RelaySpeaks
  <2>10. NoCloudIsOrphaned'
    BY <2>6, <1>r DEF NoCloudIsOrphaned
  <2> QED
    BY <2>5, <2>9, <2>10, <1>u, <1>m, MarksKeep
<1> QED
  BY <1>1, <1>2, <1>3

LEMMA SpeechStep == SpeechInv /\ [SpeechNext]_speechVars => SpeechInv'
<1> SUFFICES ASSUME SpeechInv, [SpeechNext]_speechVars PROVE SpeechInv'
  OBVIOUS
<1>r. HeardRows /\ SessionHolds /\ SpeechSessionsEnd /\ RelaySpeaks /\ OnlyTheRunningListens /\ NoCloudIsOrphaned
  BY DEF SpeechInv
<1>1. CASE SpeechStart
  BY <1>1, StartSpeechKeeps
<1>2. CASE SpeechStop
  BY <1>2, StopSpeechKeeps
<1>3. CASE FlushEnds
  <2>1. sess' = [sess EXCEPT !.flushed = TRUE] /\ pageSide' = [pageSide EXCEPT ![cur] = "stop"]
        /\ UNCHANGED <<heardSession, attemptPhase, speechConns, subscribed, fromRelay, relay, cloud, speechEnds, inARow, reopened>>
    BY <1>3 DEF FlushEnds
  <2>2. SameSession(sess', sess)
    BY <2>1, <1>r, SessMarks DEF HeardRows
  <2>3. pageSide' \in [Conns -> {"open", "stop", "gone"}]
    BY <2>1, <1>r DEF HeardRows
  <2>4. HeardRows'
    BY <2>1, <2>2, <2>3, <1>r DEF HeardRows, SameSession
  <2>5. RelaySpeaks' /\ OnlyTheRunningListens' /\ NoCloudIsOrphaned'
    BY <2>1, <1>r DEF RelaySpeaks, RelaySaid, OnlyTheRunningListens, NoCloudIsOrphaned, cur
  <2> QED
    BY <2>1, <2>2, <2>4, <2>5, MarksKeep
<1>4. CASE StopGraceEnds
  <2>1. sess.open
    BY <1>4, <1>r DEF StopGraceEnds, SessionHolds
  <2> QED
    BY <1>4, <2>1, FinishKeeps DEF StopGraceEnds
<1>5. CASE RetryTimer
  BY <1>5, RetryKeeps
<1>6. CASE ConnGivenUp
  BY <1>6, FailsKeeps DEF ConnGivenUp
<1>7. CASE RunsForLong
  <2>1. sess' = [sess EXCEPT !.ranLong = TRUE]
        /\ UNCHANGED <<heardSession, attemptPhase, speechConns, subscribed, fromRelay, relay, cloud, pageSide, speechEnds,
                       inARow, reopened>>
    BY <1>7 DEF RunsForLong
  <2>2. SameSession(sess', sess)
    BY <2>1, <1>r, SessMarks DEF HeardRows
  <2>3. HeardRows'
    BY <2>1, <2>2, <1>r DEF HeardRows, SameSession
  <2>4. RelaySpeaks' /\ OnlyTheRunningListens' /\ NoCloudIsOrphaned'
    BY <2>1, <1>r DEF RelaySpeaks, RelaySaid, OnlyTheRunningListens, NoCloudIsOrphaned, cur
  <2> QED
    BY <2>1, <2>2, <2>3, <2>4, MarksKeep
<1>8. CASE \E m \in RelayMsgs : RelaySays(m)
  BY <1>8, RelaySaysKeeps
<1>9. CASE \E c \in Conns : CloudChanges(c) \/ RelayReady(c) \/ RelayOver(c)
  BY <1>9, RelayKeeps
<1>10. CASE UNCHANGED speechVars
  BY <1>10, <1>r DEF speechVars, SpeechInv, HeardRows, SessionHolds, SpeechSessionsEnd, RelaySpeaks, RelaySaid,
     OnlyTheRunningListens, NoCloudIsOrphaned, cur
<1> QED
  BY <1>1, <1>2, <1>3, <1>4, <1>5, <1>6, <1>7, <1>8, <1>9, <1>10 DEF SpeechNext

(* However connections fail, are tried again, are stopped or are replaced, the end of a session of *)
(* speech is reported once, it gives up in the end, and no connection to the cloud is left behind.  *)
THEOREM SpeechEndsOnce ==
    SpeechSpec => [](SessionEndsOnce /\ OnlyTheRunningListens /\ GivesUpInTheEnd /\ NoCloudIsOrphaned)
<1> QED
  BY SpeechBegins, SpeechMeans, SpeechStep, PTL DEF SpeechSpec

-----------------------------------------------------------------------------
(* Faces and their tracks *)

Someone0 == Face \cup {Nobody}

FaceTrackRow == [id: 0..MaxTracks, votes: Seq(Someone0), stable: Someone0, match: Someone0, face: Someone0,
                 anchor: Someone0, seen: Nat]
SpokenRow == [target: 0..MaxTracks, began: Someone0]
EnrollingRow == [target: 0..MaxTracks, anchor: Someone0, samples: Nat, spoken: SpokenRow]

FaceRows ==
    /\ gallery \subseteq Face /\ nextTrack \in 1..(MaxTracks + 1)
    /\ track \in FaceTrackRow /\ Len(track.votes) <= 3
    /\ inView \in [face: Someone0, alone: BOOLEAN]
    /\ spoken \in SpokenRow
    /\ enrolling \in EnrollingRow /\ enrolling.samples < Samples
    /\ wrong \in Nat
    /\ entered \in [of: Someone0, began: Someone0]

\* The ids of tracks are not used again.
TracksAreNew == track.id < nextTrack /\ spoken.target < nextTrack /\ enrolling.target < nextTrack

\* A wrong name stands for as many frames as the last votes did not confirm it.
WrongIsUnconfirmed ==
    /\ wrong <= 2
    /\ track.id # 0 =>
         /\ wrong <= Len(track.votes)
         /\ \A i \in 1..wrong : track.votes[Len(track.votes) + 1 - i] = Nobody

\* A track in which a name was said keeps the face it began with.
IntroducedIsAnchor ==
    track.id # 0 /\ track.id = spoken.target => track.anchor = spoken.began

\* So does an enrollment, and the gallery has no say in its track.
EnrolledIsAnchor ==
    enrolling.target # 0 /\ track.id = enrolling.target =>
        /\ track.anchor = enrolling.spoken.began
        /\ track.stable = Nobody /\ track.match = Nobody

FacesLabInv == FaceRows /\ TracksAreNew /\ WrongIsUnconfirmed /\ IntroducedIsAnchor /\ EnrolledIsAnchor
               /\ EnrolledBeganTheTrack

-----------------------------------------------------------------------------
(* What a frame makes of the track. *)

VotesAfter(k, m) == LastThree(Append(IF Conflict(k, m) THEN << >> ELSE k.votes, m))

StableAfter(k, m, old) ==
    IF m # Nobody /\ Count(VotesAfter(k, m), m) >= 2 THEN m
    ELSE IF m = Nobody /\ Weak(VotesAfter(k, m), old) THEN Nobody
    ELSE IF Conflict(k, m) THEN Nobody ELSE k.stable

AnyTrack == [id: Nat, votes: Seq(Someone0), stable: Someone0, match: Someone0, face: Someone0,
                 anchor: Someone0, seen: Nat]

\* r is s with x at its end and no more than three votes.
EndsIn(r, s, x) == \A i \in 1..Len(r) : r[i] = IF i = Len(r) THEN x ELSE s[i + Len(s) + 1 - Len(r)]

LEMMA LastVotes ==
  ASSUME NEW S, NEW s \in Seq(S), Len(s) <= 3, NEW x \in S, NEW r, r = LastThree(Append(s, x))
  PROVE  /\ r \in Seq(S) /\ Len(r) \in Nat /\ Len(r) <= 3
         /\ Len(s) = 3 => Len(r) = 3
         /\ Len(s) # 3 => Len(r) = Len(s) + 1
         /\ EndsIn(r, s, x)
<1> DEFINE a == Append(s, x)
<1>1. a \in Seq(S) /\ Len(a) = Len(s) + 1 /\ Len(s) \in Nat
  BY AppendProperties, LenProperties
<1>2. \A i \in 1..Len(a) : a[i] = IF i = Len(s) + 1 THEN x ELSE s[i]
  BY <1>1, AppendProperties
<1>3. CASE Len(s) = 3
  <2>1. Len(a) > 3 /\ LastThree(a) = Tail(a)
    BY <1>1, <1>3 DEF LastThree
  <2>2. Tail(a) \in Seq(S) /\ Len(Tail(a)) = 3
    BY <1>1, <1>3, HeadTailProperties, EmptySeq
  <2>3. \A i \in 1..3 : Tail(a)[i] = a[i + 1]
    BY <1>1, <1>3, HeadTailProperties, EmptySeq
  <2>4. ASSUME NEW i \in 1..3 PROVE r[i] = IF i = 3 THEN x ELSE s[i + Len(s) + 1 - 3]
    <3>1. i + 1 \in 1..Len(a) /\ Tail(a)[i] = a[i + 1]
      BY <1>1, <1>3, <2>3
    <3>2. i + Len(s) + 1 - 3 = i + 1
      BY <1>3
    <3>3. i + 1 = Len(s) + 1 <=> i = 3
      BY <1>3
    <3> QED
      BY <1>2, <2>1, <3>1, <3>2, <3>3
  <2>5. r \in Seq(S) /\ Len(r) = 3
    BY <2>1, <2>2
  <2> QED
    BY <1>3, <2>4, <2>5 DEF EndsIn
<1>4. CASE Len(s) # 3
  <2> DEFINE n == Len(a)
             l == Len(s)
  <2>0. n = l + 1 /\ l \in Nat /\ l <= 3 /\ l # 3
    BY <1>1, <1>4
  <2>h. r = IF n > 3 THEN Tail(a) ELSE a
    BY DEF LastThree
  <2> HIDE DEF n, l
  <2>9. ~(n > 3)
    BY <2>0
  <2>1. ~(Len(a) > 3) /\ r = a
    BY <2>9, <2>h DEF n
  <2>2. \A i \in 1..Len(a) : i + Len(s) + 1 - Len(a) = i
    BY <1>1
  <2>3. Len(r) = Len(s) + 1 /\ r \in Seq(S) /\ Len(r) <= 3
    BY <1>1, <1>4, <2>1
  <2> QED
    BY <1>1, <1>2, <1>4, <2>1, <2>2, <2>3 DEF EndsIn
<1> QED
  BY <1>3, <1>4

\* The last w + 1 of n votes, and the w before them of l.
LastAre(l, n, w) == \A i \in 1..(w + 1) :
    /\ n + 1 - i \in 1..n
    /\ i # 1 => i - 1 \in 1..w /\ n + 1 - i # n /\ (n + 1 - i) + l + 1 - n = l + 1 - (i - 1)

LEMMA CountsOfVotes ==
  ASSUME NEW l \in Nat, NEW n \in Nat, NEW w \in Nat, l <= 3, w <= 2, w <= l, l = 3 => n = 3, l # 3 => n = l + 1
  PROVE  /\ w + 1 <= n
         /\ w = 2 => n = 3
         /\ LastAre(l, n, w)
<1>1. CASE l = 3
  BY <1>1 DEF LastAre
<1>2. CASE l # 3
  BY <1>2 DEF LastAre
<1> QED
  BY <1>1, <1>2

NewTrack(n, f) == [NoTrack EXCEPT !.id = n, !.anchor = f]

LEMMA NewTrackIs ==
  ASSUME NEW n \in Nat, NEW f \in Someone0, NEW k, k = NewTrack(n, f)
  PROVE     /\ k.id = n /\ k.anchor = f /\ k.votes = << >> /\ k.stable = Nobody /\ k.match = Nobody
            /\ k.face = Nobody /\ k.seen = 0 /\ k \in AnyTrack
<1>1. << >> \in Seq(Someone0)
  BY EmptySeq
<1> QED
  BY <1>1 DEF NewTrack, NoTrack, AnyTrack, Someone0

LEMMA VotedIs ==
  ASSUME NEW k \in AnyTrack, NEW f \in Someone0, NEW m \in Someone0, NEW old \in BOOLEAN, Len(k.votes) <= 3
  PROVE  LET t == Sighted(k, Voted(k, f, m, old))
         IN /\ t.id = k.id /\ t.anchor = k.anchor /\ t.face = f /\ t.match = m
            /\ t.votes = VotesAfter(k, m) /\ t.stable = StableAfter(k, m, old)
            /\ Len(VotesAfter(k, m)) <= 3
            /\ t \in AnyTrack
<1> DEFINE w == Voted(k, f, m, old)
           t == Sighted(k, w)
<1>m. m \in Someone0
  OBVIOUS
<1>1. VotesAfter(k, m) \in Seq(Someone0) /\ Len(VotesAfter(k, m)) <= 3
  <2>1. << >> \in Seq(Someone0) /\ Len(<< >>) <= 3
    BY EmptySeq
  <2>2. k.votes \in Seq(Someone0) /\ Len(k.votes) \in Nat
    BY LenProperties DEF AnyTrack
  <2>3. ASSUME NEW v \in Seq(Someone0), Len(v) <= 3
        PROVE  LastThree(Append(v, m)) \in Seq(Someone0) /\ Len(LastThree(Append(v, m))) <= 3
    BY <2>3, <1>m, LastVotes
  <2> QED
    BY <2>1, <2>2, <2>3 DEF VotesAfter
<1>2. StableAfter(k, m, old) \in Someone0
  BY DEF StableAfter, AnyTrack, Someone0
<1>3. w = [k EXCEPT !.face = f, !.match = m, !.votes = VotesAfter(k, m), !.stable = StableAfter(k, m, old)]
  BY DEF Voted, VotesAfter, StableAfter
<1>4. /\ w \in AnyTrack /\ w.id = k.id /\ w.anchor = k.anchor /\ w.face = f /\ w.match = m
      /\ w.votes = VotesAfter(k, m) /\ w.stable = StableAfter(k, m, old)
  BY <1>1, <1>2, <1>3 DEF AnyTrack
<1>5. Capped(k.seen + 1) \in Nat
  BY LabFacesAssumption DEF Capped, AnyTrack
<1>6. PICK n \in Nat : t = [w EXCEPT !.seen = n]
  BY <1>5 DEF Sighted
<1> HIDE DEF w, t
<1>7. /\ t \in AnyTrack /\ t.id = w.id /\ t.anchor = w.anchor /\ t.face = w.face /\ t.match = w.match
      /\ t.votes = w.votes /\ t.stable = w.stable
  BY <1>4, <1>6 DEF AnyTrack
<1> QED
  BY <1>1, <1>4, <1>7 DEF w, t

-----------------------------------------------------------------------------
LEMMA FacesLabStarts == LabFacesInit => FacesLabInv
<1> SUFFICES ASSUME LabFacesInit PROVE FacesLabInv
  OBVIOUS
<1>1. << >> \in Seq(Someone0) /\ Len(<< >>) = 0
  BY EmptySeq
<1>2. track \in FaceTrackRow
  BY <1>1, LabFacesAssumption DEF LabFacesInit, NoTrack, FaceTrackRow, Someone0
<1>3. spoken \in SpokenRow /\ enrolling \in EnrollingRow
  BY LabFacesAssumption DEF LabFacesInit, NotSpoken, NotEnrolling, SpokenRow, EnrollingRow, Someone0
<1>4. FaceRows
  BY <1>1, <1>2, <1>3, LabFacesAssumption DEF LabFacesInit, FaceRows, Someone0, NoTrack, NotEnrolling
<1> QED
  BY <1>4, LabFacesAssumption
  DEF LabFacesInit, FacesLabInv, TracksAreNew, WrongIsUnconfirmed, IntroducedIsAnchor, EnrolledIsAnchor,
      EnrolledBeganTheTrack, NoTrack, NotSpoken, NotEnrolling

LEMMA FrameKeeps ==
  ASSUME FacesLabInv, NEW f \in Face, NEW recognized \in BOOLEAN, NEW old \in BOOLEAN, NEW alone \in BOOLEAN,
         Frame(f, recognized, old, alone)
  PROVE  FacesLabInv'
<1> DEFINE m == IF recognized THEN f ELSE Nobody
           k == Kept(f, m)
           t == Sighted(k, Voted(k, f, m, old))
           fresh == k.id = nextTrack
<1>i. FaceRows /\ TracksAreNew /\ WrongIsUnconfirmed /\ IntroducedIsAnchor /\ EnrolledIsAnchor /\ EnrolledBeganTheTrack
  BY DEF FacesLabInv
<1>f. f \in Someone0 /\ m \in Someone0 /\ f # Nobody /\ m \in {f, Nobody}
  BY LabFacesAssumption DEF Someone0, Nobody
<1>a. track \in AnyTrack /\ Len(track.votes) <= 3 /\ nextTrack \in Nat /\ nextTrack >= 1
  BY <1>i, LabFacesAssumption DEF FaceRows, FaceTrackRow, AnyTrack
<1>k. \/ k = track /\ track.id # 0 /\ ~Replaced(f, m) /\ track.id < nextTrack
      \/ k = NewTrack(nextTrack, f)
  BY <1>i DEF Kept, TracksAreNew, NewTrack
<1>s. /\ recognized => f \in gallery
      /\ t.id <= MaxTracks
      /\ track' = t /\ nextTrack' = IF t.id = nextTrack THEN nextTrack + 1 ELSE nextTrack
      /\ inView' = [face |-> f, alone |-> alone]
      /\ wrong' = IF Named(t) \notin {Nobody, f} THEN wrong + 1 ELSE 0
      /\ Enrols(t, f, m, alone)
      /\ UNCHANGED spoken
  BY DEF Frame
<1> HIDE DEF m
<1>n. ASSUME k = NewTrack(nextTrack, f)
      PROVE /\ k.id = nextTrack /\ k.anchor = f /\ k.votes = << >> /\ k.stable = Nobody
        /\ k.match = Nobody /\ k \in AnyTrack
  <2> HIDE DEF k
  <2> QED
    BY <1>n, <1>a, <1>f, NewTrackIs
<1>1. \/ k = track /\ track.id # 0 /\ ~Replaced(f, m) /\ track.id < nextTrack
      \/ k.id = nextTrack /\ k.anchor = f /\ k.votes = << >> /\ k.stable = Nobody
  BY <1>k, <1>n
<1>2. k \in AnyTrack /\ Len(k.votes) <= 3
  BY <1>k, <1>n, <1>a, EmptySeq
<1> HIDE DEF k
<1>3. /\ t.id = k.id /\ t.anchor = k.anchor /\ t.face = f /\ t.match = m
      /\ t.votes = VotesAfter(k, m) /\ t.stable = StableAfter(k, m, old)
      /\ Len(VotesAfter(k, m)) <= 3
      /\ t \in AnyTrack
  BY <1>2, <1>f, VotedIs
<1> HIDE DEF t
<1>4. t \in FaceTrackRow /\ Len(t.votes) <= 3 /\ t.id \in 0..MaxTracks /\ t.id # 0
  BY <1>s, <1>3, <1>1, <1>a, LabFacesAssumption DEF FaceTrackRow, AnyTrack
<1>5. nextTrack' \in 1..(MaxTracks + 1) /\ track'.id < nextTrack' /\ nextTrack <= nextTrack'
  BY <1>s, <1>3, <1>1, <1>4, <1>i, LabFacesAssumption DEF FaceRows
<1>6. wrong' \in Nat
  BY <1>s, <1>i DEF FaceRows
<1>7. /\ gallery' \subseteq Face
      /\ enrolling' \in EnrollingRow /\ enrolling'.samples < Samples
      /\ enrolling'.target < nextTrack'
      /\ entered' \in [of: Someone0, began: Someone0]
  <2>1. CASE UNCHANGED <<gallery, enrolling, entered>>
    BY <2>1, <1>i, <1>5 DEF FaceRows, TracksAreNew, EnrollingRow
  <2>n. NotEnrolling \in EnrollingRow /\ NotEnrolling.samples = 0 /\ NotEnrolling.target = 0
    BY LabFacesAssumption DEF NotEnrolling, EnrollingRow, NotSpoken, SpokenRow, Someone0
  <2>2. CASE enrolling' = NotEnrolling /\ UNCHANGED <<gallery, entered>>
    BY <2>2, <2>n, <1>i, <1>5, LabFacesAssumption DEF FaceRows
  <2>3. CASE /\ enrolling.samples + 1 < Samples
             /\ enrolling' = [enrolling EXCEPT !.samples = enrolling.samples + 1] /\ UNCHANGED <<gallery, entered>>
    BY <2>3, <1>i, <1>5 DEF FaceRows, TracksAreNew, EnrollingRow
  <2>4. CASE /\ gallery' = gallery \cup {f}
             /\ entered' = [of |-> f, began |-> enrolling.spoken.began]
             /\ enrolling' = NotEnrolling
    <3>1. enrolling.spoken.began \in Someone0
      BY <1>i DEF FaceRows, EnrollingRow, SpokenRow
    <3> QED
      BY <2>4, <2>n, <3>1, <1>f, <1>i, <1>5, LabFacesAssumption DEF FaceRows
  <2> QED
    BY <2>1, <2>2, <2>3, <2>4, <1>s DEF Enrols
<1>8. FaceRows'
  BY <1>4, <1>5, <1>6, <1>7, <1>s, <1>f, <1>i DEF FaceRows
<1>9. TracksAreNew'
  BY <1>5, <1>7, <1>s, <1>i DEF TracksAreNew, FaceRows, SpokenRow
<1>10. WrongIsUnconfirmed'
  <2>1. CASE Named(t) \in {Nobody, f}
    BY <2>1, <1>s, <1>4, LenProperties DEF WrongIsUnconfirmed, FaceTrackRow
  <2>2. CASE Named(t) \notin {Nobody, f}
    <3>1. t.stable \notin {Nobody, f} /\ wrong' = wrong + 1
      BY <2>2, <1>s DEF Named
    <3>2. m = Nobody /\ ~Weak(VotesAfter(k, m), old) /\ k.stable # Nobody /\ ~Conflict(k, m)
      BY <3>1, <1>3, <1>f DEF StableAfter, Conflict
    <3>3. k = track /\ track.id # 0
      BY <3>2, <1>1
    <3>4. VotesAfter(k, m) = LastThree(Append(track.votes, Nobody))
      BY <3>2, <3>3 DEF VotesAfter
    <3> DEFINE s == track.votes
               r == LastThree(Append(s, Nobody))
    <3>5. s \in Seq(Someone0) /\ Len(s) \in Nat /\ Len(s) <= 3 /\ Nobody \in Someone0
      BY <1>a, LenProperties DEF AnyTrack, Someone0
    <3>r. r = LastThree(Append(s, Nobody))
      OBVIOUS
    <3> HIDE DEF r
    <3>l. /\ r \in Seq(Someone0) /\ Len(r) \in Nat /\ Len(r) <= 3
          /\ Len(s) = 3 => Len(r) = 3
          /\ Len(s) # 3 => Len(r) = Len(s) + 1
          /\ EndsIn(r, s, Nobody)
      BY <3>5, <3>r, LastVotes
    <3>6. \A i \in 1..Len(r) : r[i] = IF i = Len(r) THEN Nobody ELSE s[i + Len(s) + 1 - Len(r)]
      BY <3>l DEF EndsIn
    <3>w. wrong \in Nat /\ wrong <= 2 /\ wrong <= Len(s)
      BY <3>3, <1>i DEF WrongIsUnconfirmed, FaceRows
    <3>7. \A i \in 1..wrong : s[Len(s) + 1 - i] = Nobody
      BY <3>3, <1>i DEF WrongIsUnconfirmed
    <3> HIDE DEF s, r
    <3>c. /\ wrong + 1 <= Len(r)
          /\ wrong = 2 => Len(r) = 3
          /\ LastAre(Len(s), Len(r), wrong)
      BY <3>5, <3>l, <3>w, CountsOfVotes
    <3>9. \A i \in 1..(wrong + 1) : r[Len(r) + 1 - i] = Nobody
      <4> SUFFICES ASSUME NEW i \in 1..(wrong + 1) PROVE r[Len(r) + 1 - i] = Nobody
        OBVIOUS
      <4>1. Len(r) + 1 - i \in 1..Len(r)
        BY <3>c DEF LastAre
      <4>2. CASE i = 1
        <5>1. Len(r) + 1 - i = Len(r) /\ Len(r) \in 1..Len(r)
          BY <4>1, <4>2, <3>l
        <5> QED
          BY <5>1, <3>6
      <4>3. CASE i # 1
        <5>1. i - 1 \in 1..wrong /\ Len(r) + 1 - i # Len(r)
          BY <4>3, <3>c DEF LastAre
        <5>2. (Len(r) + 1 - i) + Len(s) + 1 - Len(r) = Len(s) + 1 - (i - 1)
          BY <4>3, <3>c DEF LastAre
        <5> QED
          BY <4>1, <5>1, <5>2, <3>6, <3>7
      <4> QED
        BY <4>2, <4>3
    <3>10. wrong + 1 <= Len(r)
      BY <3>c
    <3>11. wrong # 2
      <4> SUFFICES ASSUME wrong = 2 PROVE FALSE
        OBVIOUS
      <4>1. Len(r) = 3 /\ r[1] = Nobody /\ r[2] = Nobody /\ r[3] = Nobody
        <5>1. Len(r) = 3
          BY <3>c
        <5>2. \A i \in 1..3 : r[4 - i] = Nobody
          BY <5>1, <3>9
        <5>3. r[4 - 1] = Nobody /\ r[4 - 2] = Nobody /\ r[4 - 3] = Nobody
          BY <5>2
        <5> QED
          BY <5>1, <5>3
      <4>2. r = <<Nobody, Nobody, Nobody>>
        BY <4>1, <3>l
      <4> QED
        BY <4>2, <3>2, <3>4 DEF Weak, r, s
    <3> QED
      BY <1>s, <1>3, <3>1, <3>4, <3>w, <3>7, <3>9, <3>10, <3>11 DEF WrongIsUnconfirmed, r, s
  <2> QED
    BY <2>1, <2>2
<1>11. IntroducedIsAnchor'
  <2>1. CASE k = track /\ track.id # 0
    BY <2>1, <1>s, <1>3, <1>i DEF IntroducedIsAnchor
  <2>2. CASE k.id = nextTrack
    BY <2>2, <1>s, <1>3, <1>i DEF IntroducedIsAnchor, TracksAreNew, FaceRows, SpokenRow
  <2> QED
    BY <2>1, <2>2, <1>1
<1>12. ASSUME enrolling.target # 0, TakesSample(t, f, m, alone)
       PROVE  /\ k = track /\ track.id = enrolling.target /\ m = Nobody
              /\ track.anchor = enrolling.spoken.began /\ track.anchor = f
              /\ t.stable = Nobody /\ t.match = Nobody /\ t.anchor = track.anchor
  <2>1. t.id = enrolling.target /\ m = Nobody
    BY <1>12 DEF TakesSample
  <2>2. k.id # nextTrack
    BY <2>1, <1>3, <1>i, <1>a DEF TracksAreNew, FaceRows, EnrollingRow
  <2>3. k = track /\ ~Replaced(f, m)
    BY <2>2, <1>1
  <2>4. track.anchor = enrolling.spoken.began /\ track.stable = Nobody /\ track.match = Nobody
    BY <1>12, <2>1, <2>3, <1>3, <1>i DEF EnrolledIsAnchor
  <2>5. track.anchor = f
    BY <2>1, <2>3, <2>4 DEF Replaced
  <2>6. t.stable = Nobody
    BY <2>1, <2>3, <2>4, <1>3 DEF StableAfter
  <2> QED
    BY <2>1, <2>3, <2>4, <2>5, <2>6, <1>3
<1>13. EnrolledIsAnchor'
  <2>1. CASE enrolling.target = 0
    BY <2>1, <1>s DEF Enrols, EnrolledIsAnchor
  <2>2. CASE enrolling.target # 0 /\ ~TakesSample(t, f, m, alone)
    BY <2>2, <1>s DEF Enrols, EnrolledIsAnchor, NotEnrolling
  <2>3. CASE enrolling.target # 0 /\ TakesSample(t, f, m, alone) /\ enrolling.samples + 1 < Samples
    <3>1. enrolling' = [enrolling EXCEPT !.samples = enrolling.samples + 1]
      BY <2>3, <1>s DEF Enrols
    <3>2. enrolling'.target = enrolling.target /\ enrolling'.spoken = enrolling.spoken
      BY <3>1, <1>i DEF FaceRows, EnrollingRow
    <3> QED
      BY <3>2, <2>3, <1>12, <1>s DEF EnrolledIsAnchor
  <2>4. CASE enrolling.target # 0 /\ TakesSample(t, f, m, alone) /\ ~(enrolling.samples + 1 < Samples)
    BY <2>4, <1>s DEF Enrols, EnrolledIsAnchor, NotEnrolling
  <2> QED
    BY <2>1, <2>2, <2>3, <2>4
<1>14. EnrolledBeganTheTrack'
  <2>1. CASE UNCHANGED entered
    BY <2>1, <1>i DEF EnrolledBeganTheTrack
  <2>2. CASE /\ enrolling.target # 0 /\ TakesSample(t, f, m, alone)
             /\ entered' = [of |-> f, began |-> enrolling.spoken.began]
    BY <2>2, <1>12 DEF EnrolledBeganTheTrack
  <2> QED
    BY <2>1, <2>2, <1>s DEF Enrols
<1> QED
  BY <1>8, <1>9, <1>10, <1>11, <1>13, <1>14 DEF FacesLabInv

LEMMA FacesLabStep == FacesLabInv /\ [LabFacesNext]_facesVars => FacesLabInv'
<1> SUFFICES ASSUME FacesLabInv, [LabFacesNext]_facesVars PROVE FacesLabInv'
  OBVIOUS
<1>i. FaceRows /\ TracksAreNew /\ WrongIsUnconfirmed /\ IntroducedIsAnchor /\ EnrolledIsAnchor /\ EnrolledBeganTheTrack
  BY DEF FacesLabInv
<1>n. NotEnrolling \in EnrollingRow /\ NotEnrolling.samples = 0 /\ NotEnrolling.target = 0
  BY LabFacesAssumption DEF NotEnrolling, EnrollingRow, NotSpoken, SpokenRow, Someone0
<1>o. NotSpoken \in SpokenRow /\ NotSpoken.target = 0
  BY LabFacesAssumption DEF NotSpoken, SpokenRow, Someone0
<1>z. NoTrack \in FaceTrackRow /\ NoTrack.id = 0 /\ Len(NoTrack.votes) = 0
  BY EmptySeq, LabFacesAssumption DEF NoTrack, FaceTrackRow, Someone0
<1>1. ASSUME NEW gone \in BOOLEAN, EmptyFrame(gone) PROVE FacesLabInv'
  <2>1. /\ track' \in {NoTrack, track} /\ inView' = [face |-> Nobody, alone |-> FALSE] /\ enrolling' = NotEnrolling
        /\ UNCHANGED <<gallery, nextTrack, spoken, wrong, entered>>
    BY <1>1 DEF EmptyFrame
  <2>2. FaceRows'
    BY <2>1, <1>i, <1>n, <1>z, LabFacesAssumption DEF FaceRows, Someone0
  <2>3. TracksAreNew'
    BY <2>1, <1>i, <1>n, <1>z DEF TracksAreNew, FaceRows
  <2>4. WrongIsUnconfirmed' /\ IntroducedIsAnchor'
    BY <2>1, <1>i, <1>z DEF WrongIsUnconfirmed, IntroducedIsAnchor
  <2>5. EnrolledIsAnchor' /\ EnrolledBeganTheTrack'
    BY <2>1, <1>i, <1>n DEF EnrolledIsAnchor, EnrolledBeganTheTrack
  <2> QED
    BY <2>2, <2>3, <2>4, <2>5 DEF FacesLabInv
<1>2. ASSUME HearIntroduction PROVE FacesLabInv'
  <2>1. /\ spoken' = [target |-> track.id, began |-> track.anchor]
        /\ UNCHANGED <<gallery, track, nextTrack, inView, enrolling, wrong, entered>>
    BY <1>2 DEF HearIntroduction
  <2>2. track.id \in 0..MaxTracks /\ track.anchor \in Someone0
    BY <1>i DEF FaceRows, FaceTrackRow
  <2>3. spoken' \in SpokenRow /\ spoken'.target = track.id
    BY <2>1, <2>2 DEF SpokenRow
  <2>4. FaceRows' /\ TracksAreNew'
    <3>1. FaceRows'
      BY <2>1, <2>3, <1>i DEF FaceRows
    <3>3. track'.id < nextTrack' /\ enrolling'.target < nextTrack'
      BY <2>1, <1>i DEF TracksAreNew
    <3>4. spoken'.target < nextTrack'
      BY <2>1, <2>3, <3>3
    <3>2. TracksAreNew'
      BY <3>3, <3>4 DEF TracksAreNew
    <3> QED
      BY <3>1, <3>2
  <2>5. IntroducedIsAnchor'
    BY <2>1 DEF IntroducedIsAnchor
  <2> QED
    BY <2>1, <2>4, <2>5, <1>i
    DEF FacesLabInv, WrongIsUnconfirmed, EnrolledIsAnchor, EnrolledBeganTheTrack
<1>3. ASSUME Begin PROVE FacesLabInv'
  <2>1. spoken' = NotSpoken /\ UNCHANGED <<gallery, track, nextTrack, inView, wrong, entered>>
    BY <1>3 DEF Begin
  <2>2. \/ UNCHANGED enrolling
        \/ /\ MayEnroll
           /\ enrolling' = [target |-> track.id, anchor |-> track.face, samples |-> 0, spoken |-> spoken]
    BY <1>3 DEF Begin
  <2>3. enrolling' \in EnrollingRow /\ enrolling'.samples < Samples /\ enrolling'.target < nextTrack
    <3>1. track.id \in 0..MaxTracks /\ track.face \in Someone0 /\ spoken \in SpokenRow /\ track.id < nextTrack
      BY <1>i DEF FaceRows, FaceTrackRow, TracksAreNew
    <3> QED
      BY <2>2, <3>1, <1>i, LabFacesAssumption DEF EnrollingRow, FaceRows, TracksAreNew
  <2>4. EnrolledIsAnchor'
    BY <2>1, <2>2, <1>i DEF EnrolledIsAnchor, IntroducedIsAnchor, MayEnroll
  <2>5. FaceRows' /\ TracksAreNew'
    BY <2>1, <2>3, <1>o, <1>i DEF FaceRows, TracksAreNew
  <2> QED
    BY <2>1, <2>4, <2>5, <1>i, <1>o DEF FacesLabInv, WrongIsUnconfirmed, IntroducedIsAnchor, EnrolledBeganTheTrack
<1>4. ASSUME EnrollmentTimesOut PROVE FacesLabInv'
  <2>1. enrolling' = NotEnrolling /\ UNCHANGED <<gallery, track, nextTrack, inView, spoken, wrong, entered>>
    BY <1>4 DEF EnrollmentTimesOut
  <2>2. FaceRows' /\ TracksAreNew'
    BY <2>1, <1>n, <1>i, LabFacesAssumption DEF FaceRows, TracksAreNew
  <2> QED
    BY <2>1, <2>2, <1>n, <1>i
    DEF FacesLabInv, WrongIsUnconfirmed, IntroducedIsAnchor, EnrolledIsAnchor, EnrolledBeganTheTrack
<1>5. ASSUME NEW f \in Face, ForgetFace(f) PROVE FacesLabInv'
  <2>1. /\ gallery' = gallery \ {f} /\ spoken' = NotSpoken /\ wrong' = 0
        /\ UNCHANGED <<track, nextTrack, inView, enrolling, entered>>
    BY <1>5 DEF ForgetFace
  <2>2. FaceRows' /\ TracksAreNew'
    BY <2>1, <1>o, <1>i DEF FaceRows, TracksAreNew
  <2>3. WrongIsUnconfirmed'
    BY <2>1, <1>i, LenProperties DEF WrongIsUnconfirmed, FaceRows, FaceTrackRow
  <2> QED
    BY <2>1, <2>2, <2>3, <1>o, <1>i DEF FacesLabInv, IntroducedIsAnchor, EnrolledIsAnchor, EnrolledBeganTheTrack
<1>6. ASSUME UNCHANGED facesVars PROVE FacesLabInv'
  BY <1>6, <1>i
  DEF facesVars, FacesLabInv, FaceRows, TracksAreNew, WrongIsUnconfirmed, IntroducedIsAnchor, EnrolledIsAnchor,
      EnrolledBeganTheTrack
<1> QED
  BY <1>1, <1>2, <1>3, <1>4, <1>5, <1>6, FrameKeeps DEF LabFacesNext

LEMMA FacesLabMean == FacesLabInv => LabFacesTypeOK /\ WrongNameIsBrief /\ EnrolledBeganTheTrack
<1> SUFFICES ASSUME FacesLabInv PROVE LabFacesTypeOK /\ WrongNameIsBrief
  BY DEF FacesLabInv
<1>1. /\ track.id \in 0..MaxTracks /\ track.stable \in Someone0 /\ track.match \in Someone0
      /\ track.face \in Someone0 /\ track.anchor \in Someone0 /\ inView.face \in Someone0
  BY DEF FacesLabInv, FaceRows, FaceTrackRow
<1> QED
  BY <1>1 DEF FacesLabInv, FaceRows, LabFacesTypeOK, WrongNameIsBrief, WrongIsUnconfirmed, Someone0

\* A name that another face inherited with its track is gone after two frames, and nobody is enrolled
\* but the one whose face began the track in which the name was said (faces.py process,
\* begin_enrollment), with any number of people, tracks and frames.  Not stated, because the code does
\* not promise it: that the face is the speaker's when the track began with somebody else.
THEOREM NamesAreTheirs == LabFacesSpec => [](WrongNameIsBrief /\ EnrolledBeganTheTrack)
BY FacesLabStarts, FacesLabStep, FacesLabMean, PTL DEF LabFacesSpec

-----------------------------------------------------------------------------
(* Commands that were spoken *)

Fate == {"new", "pending", "dropped", "rejected", "executed"}
SpeechRow == [kind: Kinds, target: Someone \cup {NoOne}, generation: Nat]

VoiceRows ==
    /\ view \in Views /\ generation \in 1..(MaxGenerations + 2) /\ tokens \subseteq Final
    /\ inHand \in Events \cup {NoEvent} /\ waiting \in Events \cup {NoEvent}
    /\ newest \in Final \cup {NoEvent}
    /\ fate \in [Events -> Fate]
    /\ bound \in [Final -> SpeechRow]
    /\ order \in [Final -> Nat]

\* The bridge works on what is undecided, and not twice on the same.
HandsArePending ==
    /\ inHand # NoEvent => Undecided(inHand)
    /\ waiting # NoEvent => Undecided(waiting) /\ waiting # inHand

\* Segments have numbers in the order they were submitted.
Numbered == {s \in Final : order[s] # 0}
NumbersGrow ==
    /\ IsFiniteSet(Numbered)
    /\ \A s \in Final : order[s] <= Cardinality(Numbered)
    /\ \A s \in Final : order[s] # 0 => fate[s] # "new"
    /\ newest # NoEvent => \A s \in Final : order[s] <= order[newest]

ActsAreDone == \A a \in acts : a.of \in Events /\ fate[a.of] = "executed"

VoiceInv == VoiceRows /\ HandsArePending /\ NumbersGrow /\ ActsAreDone /\ CommandsAreMeant

LEMMA NoEventIsNone == NoEvent \notin Events /\ Final \subseteq Events /\ Scene \subseteq Events
BY VoiceDecisionsAssumption DEF NoEvent, Events

LEMMA GenerationsAre == MaxGenerations \in Nat /\ MaxGenerations >= 1
<1>1. MaxGenerations \in Nat \ {0}
  BY VoiceDecisionsAssumption
<1> QED
  BY <1>1

\* What a step does to the fates: it takes the new and the undecided to an end and begins with the new.
FatesGoOn == \A e \in Events :
    /\ fate[e] # "new" => fate'[e] # "new"
    /\ fate[e] = "executed" => fate'[e] = "executed"

LEMMA FateOfIs ==
  ASSUME VoiceRows, NEW es, NEW what \in Fate
  PROVE  /\ FateOf(es, what) \in [Events -> Fate]
         /\ \A e \in Events : FateOf(es, what)[e] = IF e \in es THEN what ELSE fate[e]
BY DEF FateOf, VoiceRows

LEMMA TargetsAre ==
  ASSUME view \in Views, NEW kind \in Kinds
  PROVE  TargetOf(kind) \in Someone \cup {NoOne}
<1>1. {view.foreground, view.person, view.face, NoOne} \subseteq Someone \cup {NoOne}
  BY DEF Views
<1> QED
  BY <1>1 DEF TargetOf, Kinds

LEMMA VoiceStarts == VoiceInit => VoiceInv
<1> SUFFICES ASSUME VoiceInit PROVE VoiceInv
  OBVIOUS
<1>r. NoRecord \in SpeechRow /\ EmptyView \in Views
  BY DEF NoRecord, SpeechRow, Kinds, EmptyView, Views
<1>e. fate \in [Events -> Fate]
  BY DEF VoiceInit, Fate
<1>b. bound \in [Final -> SpeechRow] /\ order \in [Final -> Nat]
  BY <1>r DEF VoiceInit
<1>g. generation \in 1..(MaxGenerations + 2)
  BY GenerationsAre DEF VoiceInit
<1>1. VoiceRows
  BY <1>r, <1>e, <1>b, <1>g DEF VoiceInit, VoiceRows
<1>2. Numbered = {}
  BY DEF VoiceInit, Numbered
<1>3. IsFiniteSet(Numbered) /\ Cardinality(Numbered) = 0
  BY <1>2, FS_EmptySet
<1> QED
  BY <1>1, <1>3 DEF VoiceInit, VoiceInv, HandsArePending, NumbersGrow, ActsAreDone, CommandsAreMeant

-----------------------------------------------------------------------------
LEMMA VoiceSubmitKeeps ==
  ASSUME VoiceInv, NEW e \in Events, fate[e] = "new", SubmittedToBridge(e)
  PROVE  /\ inHand' \in Events \cup {NoEvent} /\ waiting' \in Events \cup {NoEvent}
         /\ fate' \in [Events -> Fate] /\ HandsArePending' /\ FatesGoOn /\ fate'[e] # "new"
<1>i. VoiceRows /\ HandsArePending
  BY DEF VoiceInv
<1>n. NoEvent \notin Events
  BY NoEventIsNone
<1>1. CASE fate' = FateOf({e}, "dropped") /\ UNCHANGED <<inHand, waiting>>
  <2>1. fate' \in [Events -> Fate] /\ \A d \in Events : fate'[d] = IF d = e THEN "dropped" ELSE fate[d]
    BY <1>1, <1>i, FateOfIs DEF Fate
  <2> QED
    BY <2>1, <1>1, <1>i, <1>n DEF VoiceRows, HandsArePending, FatesGoOn, Undecided
<1>2. CASE inHand = NoEvent /\ inHand' = e /\ fate' = FateOf({e}, "pending") /\ UNCHANGED waiting
  <2>1. fate' \in [Events -> Fate] /\ \A d \in Events : fate'[d] = IF d = e THEN "pending" ELSE fate[d]
    BY <1>2, <1>i, FateOfIs DEF Fate
  <2> QED
    BY <2>1, <1>2, <1>i, <1>n DEF VoiceRows, HandsArePending, FatesGoOn, Undecided
<1>3. CASE /\ inHand # NoEvent /\ waiting' = e /\ UNCHANGED inHand
           /\ fate' = [FateOf({waiting} \cap Events, "dropped") EXCEPT ![e] = "pending"]
  <2> DEFINE was == FateOf({waiting} \cap Events, "dropped")
  <2>1. was \in [Events -> Fate] /\ \A d \in Events : was[d] = IF d = waiting THEN "dropped" ELSE fate[d]
    BY <1>i, FateOfIs DEF Fate
  <2> HIDE DEF was
  <2>2. fate' = [was EXCEPT ![e] = "pending"]
    BY <1>3 DEF was
  <2>3. /\ fate' \in [Events -> Fate]
        /\ \A d \in Events : fate'[d] = IF d = e THEN "pending" ELSE IF d = waiting THEN "dropped" ELSE fate[d]
    BY <2>1, <2>2 DEF Fate
  <2>4. inHand # e /\ inHand # waiting /\ inHand \in Events /\ fate[inHand] = "pending"
    BY <1>3, <1>i, <1>n DEF VoiceRows, HandsArePending, Undecided
  <2>5. waiting \in Events => fate[waiting] = "pending"
    BY <1>i, <1>n DEF HandsArePending, Undecided
  <2>6. HandsArePending'
    BY <2>3, <2>4, <1>3, <1>n DEF HandsArePending, Undecided
  <2>7. FatesGoOn
    BY <2>3, <2>5 DEF FatesGoOn
  <2> QED
    BY <2>3, <2>4, <2>6, <2>7, <1>3
<1> QED
  BY <1>1, <1>2, <1>3 DEF SubmittedToBridge

\* Steps that leave the numbers alone, and keep the newest or forget it.
LEMMA NumbersStay ==
  ASSUME VoiceInv, FatesGoOn, UNCHANGED order, newest' \in {newest, NoEvent}
  PROVE  NumbersGrow'
<1>1. Numbered' = Numbered
  BY DEF Numbered
<1>2. NumbersGrow
  BY DEF VoiceInv
<1>3. \A s \in Final : s \in Events
  BY NoEventIsNone
<1> QED
  BY <1>1, <1>2, <1>3 DEF NumbersGrow, FatesGoOn

LEMMA ActsStay ==
  ASSUME VoiceInv, FatesGoOn, UNCHANGED acts
  PROVE  ActsAreDone' /\ CommandsAreMeant'
BY DEF VoiceInv, ActsAreDone, CommandsAreMeant, FatesGoOn

LEMMA HearFinalKeeps == ASSUME VoiceInv, NEW s \in Final, NEW kind \in Kinds, HearFinal(s, kind) PROVE VoiceInv'
<1>i. VoiceRows /\ NumbersGrow
  BY DEF VoiceInv
<1>s. s \in Events /\ fate[s] = "new" /\ NoEvent \notin Final
  BY NoEventIsNone DEF HearFinal
<1>1. /\ inHand' \in Events \cup {NoEvent} /\ waiting' \in Events \cup {NoEvent}
      /\ fate' \in [Events -> Fate] /\ HandsArePending' /\ FatesGoOn /\ fate'[s] # "new"
  BY <1>s, VoiceSubmitKeeps DEF HearFinal
<1>2. /\ bound' = [bound EXCEPT ![s] = [kind |-> kind, target |-> TargetOf(kind), generation |-> generation]]
      /\ UNCHANGED <<view, live, generation, backingOff, barred, acts>>
  BY DEF HearFinal
<1>3. bound' \in [Final -> SpeechRow]
  <2>1. generation \in Nat /\ TargetOf(kind) \in Someone \cup {NoOne}
    BY <1>i, GenerationsAre, TargetsAre DEF VoiceRows
  <2>2. [kind |-> kind, target |-> TargetOf(kind), generation |-> generation] \in SpeechRow
    BY <2>1 DEF SpeechRow
  <2> QED
    BY <1>2, <2>2, <1>i DEF VoiceRows
<1>4. ActsAreDone' /\ CommandsAreMeant'
  BY <1>1, <1>2, ActsStay
<1>5. CASE UNCHANGED <<tokens, newest, order>>
  <2>1. VoiceRows'
    BY <1>1, <1>2, <1>3, <1>5, <1>i DEF VoiceRows
  <2> QED
    BY <2>1, <1>1, <1>4, <1>5, NumbersStay DEF VoiceInv
<1>6. CASE /\ tokens' = (tokens \cup {s}) \ {waiting}
           /\ newest' = s /\ order' = [order EXCEPT ![s] = NextNumber]
  <2>1. order[s] = 0 /\ order \in [Final -> Nat]
    BY <1>i, <1>s DEF NumbersGrow, VoiceRows
  <2>2. IsFiniteSet(Numbered) /\ Cardinality(Numbered) \in Nat /\ s \notin Numbered
    BY <1>i, <2>1, FS_CardinalityType DEF NumbersGrow, Numbered
  <2>3. NextNumber = Cardinality(Numbered) + 1
    BY DEF NextNumber, Numbered
  <2> DEFINE n == Cardinality(Numbered)
  <2>4. order' = [order EXCEPT ![s] = n + 1]
    BY <1>6, <2>3
  <2>5. IsFiniteSet(Numbered \cup {s}) /\ Cardinality(Numbered \cup {s}) = n + 1
    BY <2>2, FS_AddElement
  <2> HIDE DEF n
  <2>n. n \in Nat /\ \A d \in Final : order[d] <= n
    BY <2>2, <1>i DEF n, NumbersGrow
  <2>6. order' \in [Final -> Nat] /\ \A d \in Final : order'[d] = IF d = s THEN n + 1 ELSE order[d]
    BY <2>1, <2>4, <2>n
  <2>7. Numbered' = Numbered \cup {s}
    <3>1. n + 1 # 0
      BY <2>n
    <3> QED
      BY <2>6, <3>1 DEF Numbered
  <2>8. \A d \in Final : order'[d] <= n + 1 /\ order'[s] = n + 1
    BY <2>6, <2>n, <2>1
  <2>9. \A d \in Final : order'[d] # 0 => fate'[d] # "new"
    <3> SUFFICES ASSUME NEW d \in Final, order'[d] # 0 PROVE fate'[d] # "new"
      OBVIOUS
    <3>1. CASE d = s
      BY <3>1, <1>1
    <3>2. CASE d # s
      <4>1. d \in Events /\ fate[d] # "new"
        BY <3>2, <2>6, <1>i, NoEventIsNone DEF NumbersGrow
      <4> QED
        BY <4>1, <1>1 DEF FatesGoOn
    <3> QED
      BY <3>1, <3>2
  <2>10. NumbersGrow'
    BY <2>5, <2>7, <2>8, <2>9, <1>6 DEF NumbersGrow
  <2>11. VoiceRows'
    BY <1>1, <1>2, <1>3, <1>6, <2>6, <1>i DEF VoiceRows
  <2> QED
    BY <2>10, <2>11, <1>1, <1>4 DEF VoiceInv
<1> QED
  BY <1>5, <1>6 DEF HearFinal

LEMMA WatchKeeps == ASSUME VoiceInv, NEW e \in Scene, Watch(e) PROVE VoiceInv'
<1>1. e \in Events /\ fate[e] = "new"
  BY NoEventIsNone DEF Watch
<1>2. /\ inHand' \in Events \cup {NoEvent} /\ waiting' \in Events \cup {NoEvent}
      /\ fate' \in [Events -> Fate] /\ HandsArePending' /\ FatesGoOn
  BY <1>1, VoiceSubmitKeeps DEF Watch
<1>3. UNCHANGED <<view, live, generation, bound, tokens, newest, backingOff, barred, order, acts>>
  BY DEF Watch
<1>4. VoiceRows'
  BY <1>2, <1>3 DEF VoiceInv, VoiceRows
<1> QED
  BY <1>2, <1>3, <1>4, NumbersStay, ActsStay DEF VoiceInv

LEMMA DecisionKeeps == ASSUME VoiceInv, NEW agrees \in BOOLEAN, DecisionComes(agrees) PROVE VoiceInv'
<1>i. VoiceRows /\ HandsArePending /\ NumbersGrow /\ ActsAreDone /\ CommandsAreMeant
  BY DEF VoiceInv
<1>1. /\ inHand # NoEvent /\ inHand' = waiting /\ waiting' = NoEvent
      /\ UNCHANGED <<view, live, generation, newest, backingOff, barred, order>>
  BY DEF DecisionComes, TakesWaiting
<1>2. inHand \in Events /\ fate[inHand] = "pending" /\ (waiting # NoEvent => fate[waiting] = "pending" /\ waiting # inHand)
  BY <1>1, <1>i DEF VoiceRows, HandsArePending, Undecided
<1>3. PICK what \in {"executed", "rejected"} :
        /\ fate' = FateOf({inHand}, what)
        /\ what = "rejected" => UNCHANGED acts
        /\ what = "executed" =>
             /\ inHand \in Final /\ Executes(inHand)
             /\ acts' = acts \cup {[of |-> inHand, said |-> bound[inHand],
                                    found |-> TargetOf(bound[inHand].kind), in |-> generation,
                                    newest |-> \A s \in Final : order[s] <= order[inHand]]}
  BY DEF DecisionComes
<1>4. fate' \in [Events -> Fate] /\ \A d \in Events : fate'[d] = IF d = inHand THEN what ELSE fate[d]
  BY <1>3, <1>i, FateOfIs DEF Fate
<1>5. FatesGoOn
  BY <1>2, <1>4 DEF FatesGoOn
<1>6. HandsArePending'
  BY <1>1, <1>2, <1>4, <1>i, NoEventIsNone DEF HandsArePending, Undecided, VoiceRows
<1>7. tokens' \subseteq Final /\ bound' \in [Final -> SpeechRow]
  <2>1. tokens' \subseteq Final
    BY <1>i DEF DecisionComes, VoiceRows
  <2>2. bound' = bound \/ (inHand \in Final /\ bound' = [bound EXCEPT ![inHand] = NoRecord])
    BY DEF DecisionComes
  <2>3. NoRecord \in SpeechRow
    BY DEF NoRecord, SpeechRow, Kinds
  <2> QED
    BY <2>1, <2>2, <2>3, <1>i DEF VoiceRows
<1>8. VoiceRows'
  BY <1>1, <1>4, <1>7, <1>i DEF VoiceRows
<1>9. NumbersGrow'
  BY <1>1, <1>5, NumbersStay
<1>10. ActsAreDone' /\ CommandsAreMeant'
  <2>1. CASE what = "rejected"
    BY <2>1, <1>3, <1>5, ActsStay
  <2>2. CASE what = "executed"
    <3> DEFINE act == [of |-> inHand, said |-> bound[inHand], found |-> TargetOf(bound[inHand].kind),
                       in |-> generation,
                       newest |-> \A s \in Final : order[s] <= order[inHand]]
    <3>1. acts' = acts \cup {act} /\ Executes(inHand)
      BY <2>2, <1>3
    <3>2. /\ bound[inHand].target = TargetOf(bound[inHand].kind)
          /\ bound[inHand].kind = "introduction" => bound[inHand].target # NoOne
          /\ bound[inHand].generation = generation /\ inHand = newest
      BY <3>1 DEF Executes, SameTarget, CommandCurrent
    <3>3. \A s \in Final : order[s] <= order[inHand]
      BY <3>2, <1>1, <1>i DEF NumbersGrow
    <3>4. /\ act.of = inHand /\ act.found = act.said.target /\ act.said.generation = act.in /\ act.newest
          /\ act.said.kind = "introduction" => act.found # NoOne
      BY <3>2, <3>3
    <3> HIDE DEF act
    <3>5. \A a \in acts : a.of # act.of
      BY <3>4, <1>2, <1>i DEF ActsAreDone
    <3>6. \A a \in acts : a.of \in Events /\ fate'[a.of] = "executed"
      BY <1>5, <1>i DEF ActsAreDone, FatesGoOn
    <3>7. fate'[act.of] = "executed" /\ act.of \in Events
      BY <3>4, <2>2, <1>2, <1>4
    <3> QED
      BY <3>1, <3>4, <3>5, <3>6, <3>7, <1>i DEF ActsAreDone, CommandsAreMeant
  <2> QED
    BY <2>1, <2>2
<1> QED
  BY <1>6, <1>8, <1>9, <1>10 DEF VoiceInv

LEMMA OtherVoiceKeeps ==
  ASSUME VoiceInv,
         \/ AnswerTooLate \/ BackoffEnds \/ StopCapture \/ StartCapture \/ NewSpeechStream \/ ForgetSomeone
         \/ \E refused \in BOOLEAN : DecisionFails(refused)
         \/ \E v \in Views : Look(v)
         \/ UNCHANGED voiceVars
  PROVE  VoiceInv'
<1>i. VoiceRows /\ HandsArePending
  BY DEF VoiceInv
<1>n. NoEvent \notin Events /\ NoRecord \in SpeechRow /\ EmptyView \in Views
  BY NoEventIsNone DEF NoRecord, SpeechRow, Kinds, EmptyView, Views
<1>p. /\ inHand # NoEvent => fate[inHand] = "pending" /\ inHand \in Events
      /\ waiting # NoEvent => fate[waiting] = "pending" /\ waiting # inHand /\ waiting \in Events
  BY <1>i DEF VoiceRows, HandsArePending, Undecided
<1>1. UNCHANGED <<order, acts>> /\ newest' \in {newest, NoEvent}
  BY DEF AnswerTooLate, BackoffEnds, StopCapture, StartCapture, NewSpeechStream, ForgetSomeone, DecisionFails, Look,
         voiceVars
<1>2. PICK es : fate' = FateOf(es, "dropped") /\ (\A e \in es \cap Events : fate[e] = "pending")
                /\ (inHand' \in Events => inHand' \notin es) /\ (waiting' \in Events => waiting' \notin es)
  <2>1. CASE AnswerTooLate
    <3>1. fate' = FateOf({inHand}, "dropped") /\ inHand # NoEvent /\ inHand' = waiting /\ waiting' = NoEvent
      BY <2>1 DEF AnswerTooLate, TakesWaiting
    <3> QED
      BY <3>1, <1>p, <1>n
  <2>2. CASE \E refused \in BOOLEAN : DecisionFails(refused)
    <3>1. /\ fate' = FateOf(Lost, "dropped") /\ inHand' = NoEvent
          /\ waiting' = IF waiting \in Lost THEN NoEvent ELSE waiting
      BY <2>2 DEF DecisionFails
    <3>2. waiting' \notin Events
      BY <3>1, <1>p, <1>n DEF Lost
    <3>3. \A e \in Lost : fate[e] = "pending"
      BY <1>p, <1>n DEF Lost
    <3> QED
      BY <3>1, <3>2, <3>3, <1>n
  <2>3. CASE StopCapture
    BY <2>3, <1>n DEF StopCapture, Undecided
  <2>4. CASE UNCHANGED <<fate, inHand, waiting>>
    <3>1. fate = FateOf({}, "dropped")
      BY <1>i DEF FateOf, VoiceRows
    <3> QED
      BY <3>1, <2>4
  <2> QED
    BY <2>1, <2>2, <2>3, <2>4
    DEF BackoffEnds, StartCapture, NewSpeechStream, ForgetSomeone, Look, voiceVars
<1>3. fate' \in [Events -> Fate] /\ \A d \in Events : fate'[d] = IF d \in es THEN "dropped" ELSE fate[d]
  BY <1>2, <1>i, FateOfIs DEF Fate
<1>4. FatesGoOn
  BY <1>2, <1>3 DEF FatesGoOn
<1>5. /\ inHand' \in {inHand, waiting, NoEvent} /\ waiting' \in {waiting, NoEvent}
      /\ waiting' # NoEvent => inHand' = inHand \/ inHand' = NoEvent
  BY DEF AnswerTooLate, BackoffEnds, StopCapture, StartCapture, NewSpeechStream, ForgetSomeone, DecisionFails, Look,
         voiceVars, TakesWaiting
<1>6. HandsArePending'
  <2>1. ASSUME inHand' # NoEvent PROVE fate'[inHand'] = "pending"
    <3>1. inHand' \in Events /\ fate[inHand'] = "pending"
      BY <2>1, <1>5, <1>p
    <3> QED
      BY <3>1, <1>2, <1>3
  <2>2. ASSUME waiting' # NoEvent PROVE fate'[waiting'] = "pending" /\ waiting' # inHand'
    <3>1. waiting' \in Events /\ fate[waiting'] = "pending" /\ waiting' = waiting
      BY <2>2, <1>5, <1>p
    <3> QED
      BY <3>1, <2>2, <1>2, <1>3, <1>5, <1>p
  <2>3. (inHand # NoEvent => Undecided(inHand))'
    BY <2>1 DEF Undecided
  <2>4. (waiting # NoEvent => Undecided(waiting) /\ waiting # inHand)'
    BY <2>2 DEF Undecided
  <2> QED
    BY <2>3, <2>4 DEF HandsArePending
<1>7. generation' \in 1..(MaxGenerations + 2)
  BY <1>i, GenerationsAre
  DEF VoiceRows, AnswerTooLate, BackoffEnds, StopCapture, StartCapture, NewSpeechStream, ForgetSomeone, DecisionFails,
      Look, voiceVars, Invalidated
<1>8. bound' = bound \/ bound' = [s \in Final |-> NoRecord]
  BY DEF AnswerTooLate, BackoffEnds, StopCapture, StartCapture, NewSpeechStream, ForgetSomeone, DecisionFails,
      Look, voiceVars, Invalidated
<1>9. view' \in Views /\ tokens' \subseteq Final
  BY <1>i, <1>n
  DEF VoiceRows, AnswerTooLate, BackoffEnds, StopCapture, StartCapture, NewSpeechStream, ForgetSomeone, DecisionFails,
      Look, voiceVars
<1>10. VoiceRows'
  BY <1>1, <1>3, <1>5, <1>7, <1>8, <1>9, <1>i, <1>n DEF VoiceRows
<1> QED
  BY <1>1, <1>4, <1>6, <1>10, NumbersStay, ActsStay DEF VoiceInv

LEMMA VoiceStep == VoiceInv /\ [VoiceNext]_voiceVars => VoiceInv'
BY HearFinalKeeps, WatchKeeps, DecisionKeeps, OtherVoiceKeeps DEF VoiceNext

LEMMA VoiceMeans == VoiceInv => VoiceTypeOK /\ CommandsAreMeant
<1> SUFFICES ASSUME VoiceInv PROVE VoiceTypeOK
  BY DEF VoiceInv
<1>1. VoiceRows
  BY DEF VoiceInv
<1>2. \A e \in Events : fate[e] \in Fate
  BY <1>1 DEF VoiceRows
<1> QED
  BY <1>1, <1>2, NoEventIsNone DEF VoiceRows, VoiceTypeOK, Fate

\* A spoken command acts once, in the capture it was spoken in and only while nothing newer was
\* submitted; a note, an identification and an introduction act only where the target is still the
\* one they were spoken about (product.py apply_transcript_decision), with any number of segments,
\* people and perception events, submitted, dropped and decided in any order.  What recalls or finds
\* has no such target: nothing is said of whom it is about.
THEOREM CommandsFindTheirs == VoiceSpec => []CommandsAreMeant
BY VoiceStarts, VoiceStep, VoiceMeans, PTL DEF VoiceSpec

-----------------------------------------------------------------------------
(* Who is there *)

Whose == Profile \cup {NoProfile}
KeyRow == [of: Whose, meeting: Nat, reminder: BOOLEAN]
DisplayRow == [template: {"idle", "profile", "answer"}, of: Whose, reminder: BOOLEAN]
ShownRow == [key: KeyRow, shows: DisplayRow]

EncounterRows ==
    /\ labCamera \in BOOLEAN
    /\ available \in [LabStreams -> BOOLEAN] /\ silence \in [LabStreams -> 0..(GapTime + 1)]
    /\ profiles \subseteq Profile /\ active \subseteq profiles
    /\ meeting \in [Profile -> 0..MaxMeetings]
    /\ age \in [Profile -> 0..EndTime] /\ obsAge \in [Profile -> 0..(GapTime + 1)]
    /\ sightings \in [Object -> 0..2] /\ missed \in [Object -> 0..2]
    /\ labReminder \in [LabPerson -> BOOLEAN] /\ dismissed \in [LabPerson -> Nat]

DisplayRows == foreground \in Whose /\ display \in DisplayRow /\ cardKey \in KeyRow

\* An object that no frame has missed yet is not older than the silence of its stream.
AbsenceTakesAFrame ==
    \A i \in Object : i \in active /\ missed[i] = 0 => age[i] <= silence["objects"] /\ age[i] <= GapTime

\* What the key says of a card is what the card shows.
Agrees(key, shows) ==
    shows.template = "profile" => key = NoKey \/ (key.of = shows.of /\ key.reminder = shows.reminder)

CardStands ==
    /\ Agrees(cardKey, display)
    /\ TheCardIsOfWhoIsThere
    /\ display.template = "profile" /\ display.reminder => display.of \in LabPerson
    /\ foreground = NoProfile \/ foreground \in active

PresenceInv == EncounterRows /\ DisplayRows /\ AbsenceTakesAFrame /\ AbsenceIsObserved /\ CardStands

LEMMA PresenceTimesAre == /\ CoastTime \in Nat /\ GapTime \in Nat /\ EndTime \in Nat /\ MaxMeetings \in Nat
                  /\ GapTime >= 1 /\ GapTime < EndTime
<1>1. {CoastTime, GapTime, EndTime, MaxMeetings} \subseteq Nat
  BY LabPresenceAssumption
<1>2. 0 < CoastTime /\ CoastTime <= GapTime /\ GapTime < EndTime
  BY LabPresenceAssumption
<1> QED
  BY <1>1, <1>2

LEMMA ProfilesAre == /\ NoProfile \notin Profile /\ IsFiniteSet(Profile)
                     /\ LabPerson \subseteq Profile /\ Object \subseteq Profile
                     /\ \A i \in LabPerson : StreamOf(i) = "faces"
                     /\ \A i \in Object : i \notin LabPerson /\ StreamOf(i) = "objects"
<1>1. IsFiniteSet(LabPerson) /\ IsFiniteSet(Object)
  BY LabPresenceAssumption
<1>2. LabPerson \cap Object = {} /\ "no profile" \notin LabPerson \cup Object
  BY LabPresenceAssumption
<1>3. IsFiniteSet(LabPerson \cup Object)
  BY <1>1, FS_Union
<1> QED
  BY <1>2, <1>3 DEF Profile, NoProfile, StreamOf

LEMMA StreamsAre == /\ \A i \in Profile : StreamOf(i) \in LabStreams
                    /\ "objects" \in LabStreams /\ "faces" \in LabStreams /\ "objects" # "faces"
BY DEF StreamOf, LabStreams

LEMMA NoKeyIs == NoKey \in KeyRow /\ NoKey.of = NoProfile /\ Idling \in DisplayRow /\ Idling.template = "idle"
BY DEF NoKey, KeyRow, Idling, DisplayRow, Whose

-----------------------------------------------------------------------------
(* The display. *)

LEMMA DueIs ==
  ASSUME EncounterRows', NEW i \in Profile
  PROVE  /\ Due(i) \in BOOLEAN
         /\ Due(i) => i \in LabPerson /\ labReminder'[i] /\ dismissed'[i] # meeting'[i]
         /\ KeyOf(i) \in KeyRow /\ KeyOf(i).of = i /\ KeyOf(i).reminder = Due(i) /\ KeyOf(i) # NoKey
         /\ Card(i) \in DisplayRow /\ Card(i).of = i /\ Card(i).reminder = Due(i) /\ Card(i).template = "profile"
<1>1. Due(i) \in BOOLEAN /\ (Due(i) => i \in LabPerson /\ labReminder'[i] /\ dismissed'[i] # meeting'[i])
  BY DEF Due, EncounterRows
<1>2. meeting'[i] \in Nat /\ i \in Whose /\ i # NoProfile
  BY ProfilesAre, PresenceTimesAre DEF EncounterRows, Whose
<1>3. KeyOf(i) \in KeyRow /\ KeyOf(i).of = i /\ KeyOf(i).reminder = Due(i)
  BY <1>1, <1>2 DEF KeyOf, KeyRow
<1>4. Card(i) \in DisplayRow /\ Card(i).of = i /\ Card(i).reminder = Due(i) /\ Card(i).template = "profile"
  BY <1>1, <1>2 DEF Card, DisplayRow
<1> QED
  BY <1>1, <1>2, <1>3, <1>4, NoKeyIs

\* What is shown is of i, with the reminder that is due.
IsOf(now, i) ==
    /\ now \in ShownRow /\ Agrees(now.key, now.shows)
    /\ now.shows.template = "profile" => i # NoProfile /\ now.shows.of = i /\ now.shows.reminder = Due(i)

LEMMA ARowShown ==
  ASSUME NEW key \in KeyRow, NEW shows \in DisplayRow, NEW now, now = [key |-> key, shows |-> shows]
  PROVE  now \in ShownRow /\ now.key = key /\ now.shows = shows
BY DEF ShownRow

LEMMA RowsShown ==
  ASSUME NEW now \in ShownRow
  PROVE  /\ now.key \in KeyRow /\ now.shows \in DisplayRow /\ now = [key |-> now.key, shows |-> now.shows]
         /\ [now EXCEPT !.key = NoKey] = [key |-> NoKey, shows |-> now.shows]
         /\ [now EXCEPT !.shows = Idling] = [key |-> now.key, shows |-> Idling]
BY DEF ShownRow

LEMMA ProfileNotNone == ASSUME NEW i \in Profile PROVE i # NoProfile
BY ProfilesAre

LEMMA ShownIs ==
  ASSUME EncounterRows', NEW i \in Profile, NEW now \in ShownRow, Agrees(now.key, now.shows)
  PROVE  IsOf(Shown(i, now), i)
<1>1. CASE now.key = KeyOf(i)
  <2>1. Shown(i, now) = now
    BY <1>1 DEF Shown
  <2>2. now.shows.template = "profile" => now.key.of = now.shows.of /\ now.key.reminder = now.shows.reminder
    BY <1>1, DueIs DEF Agrees
  <2> QED
    BY <1>1, <2>1, <2>2, DueIs, ProfileNotNone DEF IsOf
<1>2. CASE now.key # KeyOf(i)
  <2>1. PICK shows \in DisplayRow : /\ shows = IF now.shows.template = "answer" THEN now.shows ELSE Card(i)
                                    /\ shows.template = "answer" \/ shows = Card(i)
    BY RowsShown, DueIs
  <2>2. Shown(i, now) = [key |-> KeyOf(i), shows |-> shows]
    BY <1>2, <2>1 DEF Shown
  <2>3. Shown(i, now) \in ShownRow /\ Shown(i, now).key = KeyOf(i) /\ Shown(i, now).shows = shows
    BY <2>2, DueIs, ARowShown
  <2>4. shows.template = "profile" => shows.of = i /\ shows.reminder = Due(i)
    BY <2>1, DueIs
  <2> QED
    BY <2>3, <2>4, DueIs, ProfileNotNone DEF IsOf, Agrees
<1> QED
  BY <1>1, <1>2

LEMMA NothingIsShown ==
  ASSUME NEW now \in ShownRow, now.shows.template # "profile", NEW i
  PROVE  IsOf(now, i)
BY DEF IsOf, Agrees

\* The foreground has changed.
LEMMA RefocusedIs ==
  ASSUME EncounterRows', NEW f, f = foreground', f \in Whose, f # foreground, NEW now \in ShownRow
  PROVE  IsOf(Refocused(now), f)
<1>1. CASE f # NoProfile
  <2>1. [now EXCEPT !.key = NoKey] = [key |-> NoKey, shows |-> now.shows]
    BY RowsShown
  <2>0. Refocused(now) = Shown(f, [now EXCEPT !.key = NoKey])
    BY <1>1 DEF Refocused
  <2> DEFINE bare == [key |-> NoKey, shows |-> now.shows]
  <2>5. NoKey \in KeyRow /\ now.shows \in DisplayRow
    BY RowsShown, NoKeyIs
  <2>2. bare \in ShownRow /\ bare.key = NoKey /\ bare.shows = now.shows
    BY <2>5, ARowShown
  <2>3. Agrees(bare.key, bare.shows)
    BY <2>2 DEF Agrees
  <2>4. f \in Profile
    BY <1>1 DEF Whose
  <2> QED
    BY <2>0, <2>1, <2>2, <2>3, <2>4, ShownIs
<1>2. CASE f = NoProfile
  <2>1. PICK shows \in DisplayRow : /\ shows = IF now.shows.template = "answer" THEN now.shows ELSE Idling
                                    /\ shows.template # "profile"
    BY RowsShown, NoKeyIs
  <2>2. Refocused(now) = [key |-> NoKey, shows |-> shows]
    BY <1>2, <2>1 DEF Refocused
  <2>3. Refocused(now) \in ShownRow /\ Refocused(now).shows = shows
    BY <2>2, NoKeyIs, ARowShown
  <2> QED
    BY <2>1, <2>3, NothingIsShown
<1> QED
  BY <1>1, <1>2

\* What is displayed when it is of the foreground, who is there.
LEMMA DisplayedStands ==
  ASSUME EncounterRows', NEW f, f = foreground', f = NoProfile \/ f \in active', NEW now, IsOf(now, f), Displays(now)
  PROVE  DisplayRows' /\ CardStands'
<1>1. f \in Whose /\ (f # NoProfile => f \in Profile /\ f \in active')
  BY DEF Whose, EncounterRows
<1>2. now.key \in KeyRow /\ now.shows \in DisplayRow /\ display' = now.shows /\ cardKey' = now.key
  BY RowsShown DEF IsOf, Displays
<1>3. DisplayRows'
  BY <1>1, <1>2 DEF DisplayRows
<1>4. Agrees(cardKey, display)'
  BY <1>2 DEF IsOf, Agrees
<1>5. ASSUME display'.template = "profile"
      PROVE  /\ display'.of = f /\ f \in active'
             /\ display'.reminder => f \in LabPerson /\ labReminder'[f] /\ dismissed'[f] # meeting'[f]
  BY <1>1, <1>2, <1>5, DueIs DEF IsOf
<1> QED
  BY <1>1, <1>3, <1>4, <1>5 DEF CardStands, TheCardIsOfWhoIsThere

-----------------------------------------------------------------------------
(* The encounters. *)

LEMMA TheForegroundIsThere ==
  ASSUME EncounterRows', NEW f, f \in IF Preferred = {} THEN {NoProfile} ELSE Preferred
  PROVE  f \in Whose /\ (f = NoProfile \/ (f \in Profile /\ f \in active'))
<1>1. \A i \in Preferred : i \in Profile /\ i \in active'
  BY DEF Preferred, LiveThen
<1>2. f = NoProfile \/ f \in Preferred
  OBVIOUS
<1>3. f = NoProfile \/ (f \in Profile /\ f \in active')
  BY <1>1, <1>2
<1> QED
  BY <1>3 DEF Whose

LEMMA SettlesWell ==
  ASSUME EncounterRows, DisplayRows, CardStands, EncounterRows', NEW expires \in BOOLEAN, SettledDisplay(expires)
  PROVE  DisplayRows' /\ CardStands'
<1> DEFINE f == foreground'
           was == [key |-> cardKey, shows |-> display]
           focused == Refocused(was)
           now == IF f = NoProfile THEN focused ELSE Shown(f, focused)
           outdated == expires /\ display # Idling /\ now.shows = display /\ now.key = cardKey
           last == IF outdated THEN ExpiredDisplay(now) ELSE now
<1>1. Displays(last) /\ f \in IF Preferred = {} THEN {NoProfile} ELSE Preferred
  BY DEF SettledDisplay
<1>2. f \in Whose /\ (f = NoProfile \/ (f \in Profile /\ f \in active'))
  BY <1>1, TheForegroundIsThere
<1>3. was \in ShownRow /\ was.key = cardKey /\ was.shows = display /\ Agrees(was.key, was.shows)
  <2>1. cardKey \in KeyRow /\ display \in DisplayRow /\ Agrees(cardKey, display)
    BY DEF DisplayRows, CardStands
  <2> QED
    BY <2>1, ARowShown
<1> HIDE DEF was
<1>4. focused \in ShownRow /\ Agrees(focused.key, focused.shows) /\ (f = NoProfile => IsOf(focused, f))
  <2>1. CASE f = foreground
    <3>1. focused = was
      BY <2>1 DEF Refocused
    <3>2. f = NoProfile => was.shows.template # "profile"
      <4>1. foreground \in active => foreground \in Profile
        BY DEF EncounterRows
      <4>2. display.template = "profile" => foreground \in active
        BY DEF CardStands, TheCardIsOfWhoIsThere
      <4> QED
        BY <1>3, <2>1, <4>1, <4>2, ProfileNotNone
    <3> QED
      BY <1>3, <3>1, <3>2, NothingIsShown
  <2>2. CASE f # foreground
    <3>1. IsOf(focused, f)
      BY <1>2, <1>3, <2>2, RefocusedIs
    <3> QED
      BY <3>1 DEF IsOf
  <2> QED
    BY <2>1, <2>2
<1> HIDE DEF focused
<1>5. IsOf(now, f)
  BY <1>2, <1>4, ShownIs
<1> HIDE DEF now
<1>6. IsOf(last, f)
  <2>1. CASE ~outdated
    BY <1>5, <2>1
  <2>2. CASE outdated
    <3>1. now \in ShownRow
      BY <1>5 DEF IsOf
    <3>2. CASE now.shows.template = "answer" /\ f # NoProfile
      <4>1. last = [key |-> KeyOf(f), shows |-> Card(f)]
        BY <2>2, <3>2 DEF ExpiredDisplay
      <4>2. f \in Profile
        BY <1>2, <3>2
      <4>3. KeyOf(f) \in KeyRow /\ Card(f) \in DisplayRow /\ Card(f).of = f /\ Card(f).reminder = Due(f)
            /\ KeyOf(f).of = f /\ KeyOf(f).reminder = Due(f)
        BY <4>2, DueIs
      <4>4. last \in ShownRow /\ last.key = KeyOf(f) /\ last.shows = Card(f)
        BY <4>1, <4>3, ARowShown
      <4> QED
        BY <3>2, <4>3, <4>4 DEF IsOf, Agrees
    <3>3. CASE ~(now.shows.template = "answer" /\ f # NoProfile)
      <4>1. last = [key |-> now.key, shows |-> Idling]
        BY <2>2, <3>1, <3>3, RowsShown DEF ExpiredDisplay
      <4>2. now.key \in KeyRow /\ Idling \in DisplayRow /\ Idling.template # "profile"
        BY <3>1, RowsShown, NoKeyIs
      <4>3. last \in ShownRow /\ last.shows = Idling
        BY <4>1, <4>2, ARowShown
      <4> QED
        BY <4>2, <4>3, NothingIsShown
    <3> QED
      BY <3>2, <3>3
  <2> QED
    BY <2>1, <2>2
<1> HIDE DEF last
<1> QED
  BY <1>1, <1>2, <1>6, DisplayedStands

\* No encounter begins beyond the bound.
LEMMA MeetingsAreBounded ==
  ASSUME EncounterRows, NEW is \in SUBSET Profile, MeetingsThen(is) <= MaxMeetings, NEW i \in is \ active
  PROVE  meeting[i] + 1 \in 0..MaxMeetings
<1> DEFINE k == meeting[i] + 1
           all == {m \in Profile \X (1..MaxMeetings) : m[2] <= meeting[m[1]]} \cup {<<j, MaxMeetings + 1>> : j \in is \ active}
           f == [n \in 1..k |-> IF n = k THEN <<i, MaxMeetings + 1>> ELSE <<i, n>>]
<1>1. meeting[i] \in 0..MaxMeetings /\ MaxMeetings \in Nat /\ i \in Profile
  BY PresenceTimesAre DEF EncounterRows
<1>2. IsFiniteSet(all)
  <2>1. IsFiniteSet(Profile \X (1..(MaxMeetings + 1)))
    <3>1. IsFiniteSet(1..(MaxMeetings + 1))
      BY <1>1, FS_Interval
    <3> QED
      BY <3>1, ProfilesAre, FS_Product
  <2>2. all \subseteq Profile \X (1..(MaxMeetings + 1))
    BY <1>1
  <2> QED
    BY <2>1, <2>2, FS_Subset
<1>3. f \in Injection(1..k, all)
  <2>1. ASSUME NEW n \in 1..k PROVE f[n] \in all
    BY <1>1
  <2>2. ASSUME NEW n \in 1..k, NEW m \in 1..k, f[n] = f[m] PROVE n = m
    BY <1>1, <2>2
  <2> QED
    BY <2>1, <2>2, Fun_IsInj
<1>4. Cardinality(1..k) = k
  BY <1>1, FS_Interval
<1>5. Cardinality(1..k) <= Cardinality(all)
  BY <1>2, <1>3, FS_Injection DEF ExistsInjection
<1>6. Cardinality(all) <= MaxMeetings
  BY DEF MeetingsThen
<1>7. Cardinality(all) \in Nat
  BY <1>2, FS_CardinalityType
<1> HIDE DEF all, f
<1> QED
  BY <1>1, <1>4, <1>5, <1>6, <1>7

LEMMA UpToIs ==
  ASSUME NEW top \in Nat, NEW n \in 0..top
  PROVE  UpTo(n + 1, top) \in 0..top /\ UpTo(n + 1, top) <= n + 1 /\ UpTo(n + 1, top) >= n
BY DEF UpTo

LEMMA SeesFrameKeepsInv ==
  ASSUME PresenceInv, NEW s \in LabStreams, NEW is \in SUBSET Profile, NEW expires \in BOOLEAN, SeesFrame(s, is, expires)
  PROVE  PresenceInv'
<1>1. EncounterRows /\ DisplayRows /\ CardStands /\ AbsenceTakesAFrame /\ AbsenceIsObserved
  BY DEF PresenceInv
<1>2. /\ \A i \in is : StreamOf(i) = s
      /\ MeetingsThen(is) <= MaxMeetings /\ silence' = [silence EXCEPT ![s] = 0]
      /\ profiles' = profiles \cup is /\ Encountered(is, s) /\ SettledDisplay(expires)
      /\ UNCHANGED <<labCamera, available, labReminder, dismissed, cooling, saved>>
  BY DEF SeesFrame
<1>3. silence' \in [LabStreams -> 0..(GapTime + 1)] /\ silence'[s] = 0
  BY <1>1, <1>2, PresenceTimesAre DEF EncounterRows
<1>4. /\ age' = [i \in Profile |-> IF i \in is THEN 0 ELSE age[i]]
      /\ obsAge' = [i \in Profile |-> IF i \in is THEN 0 ELSE obsAge[i]]
      /\ active' = active \cup is
  BY <1>2 DEF Encountered
<1>5. age' \in [Profile -> 0..EndTime] /\ obsAge' \in [Profile -> 0..(GapTime + 1)]
  BY <1>1, <1>4, PresenceTimesAre DEF EncounterRows
<1>6. meeting' \in [Profile -> 0..MaxMeetings]
  <2>1. meeting' = [i \in Profile |-> IF i \in is \ active THEN meeting[i] + 1 ELSE meeting[i]]
    BY <1>2 DEF Encountered
  <2>2. \A i \in is \ active : meeting[i] + 1 \in 0..MaxMeetings
    BY <1>1, <1>2, MeetingsAreBounded
  <2>3. \A i \in Profile : meeting[i] \in 0..MaxMeetings
    BY <1>1 DEF EncounterRows
  <2> QED
    BY <2>1, <2>2, <2>3
<1>7. sightings' \in [Object -> 0..2]
  <2>1. sightings' = [i \in Object |-> IF i \notin is THEN sightings[i]
                                       ELSE IF i \in active THEN UpTo(sightings[i] + 1, 2) ELSE 1]
    BY <1>2 DEF Encountered
  <2>2. \A i \in Object : sightings[i] \in 0..2 /\ UpTo(sightings[i] + 1, 2) \in 0..2
    BY <1>1, UpToIs DEF EncounterRows
  <2> QED
    BY <2>1, <2>2
<1>8. /\ missed' \in [Object -> 0..2]
      /\ \A i \in Object : missed'[i] = IF i \in is THEN 0 ELSE IF s = "objects" THEN UpTo(missed[i] + 1, 2) ELSE missed[i]
  <2>1. missed' = [i \in Object |-> IF i \in is THEN 0
                                   ELSE IF s = "objects" THEN UpTo(missed[i] + 1, 2) ELSE missed[i]]
    BY <1>2 DEF Encountered
  <2>2. \A i \in Object : missed[i] \in 0..2 /\ UpTo(missed[i] + 1, 2) \in 0..2
    BY <1>1, UpToIs DEF EncounterRows
  <2> QED
    BY <2>1, <2>2
<1>9. profiles' \subseteq Profile /\ active' \subseteq profiles'
  BY <1>1, <1>2, <1>4 DEF EncounterRows
<1>10. EncounterRows'
  BY <1>1, <1>2, <1>3, <1>5, <1>6, <1>7, <1>8, <1>9 DEF EncounterRows
<1>11. AbsenceTakesAFrame'
  <2> SUFFICES ASSUME NEW i \in Object, i \in active', missed'[i] = 0
               PROVE  age'[i] <= silence'["objects"] /\ age'[i] <= GapTime
    BY DEF AbsenceTakesAFrame
  <2>1. i \in Profile /\ StreamOf(i) = "objects"
    BY ProfilesAre
  <2>2. CASE i \in is
    <3>1. age'[i] = 0 /\ s = "objects"
      BY <1>2, <1>4, <2>1, <2>2
    <3> QED
      BY <1>3, <3>1, PresenceTimesAre
  <2>3. CASE i \notin is
    <3>1. age'[i] = age[i] /\ i \in active
      BY <1>4, <2>1, <2>3
    <3>2. missed[i] \in 0..2
      BY <1>1 DEF EncounterRows
    <3>3. UpTo(missed[i] + 1, 2) # 0
      BY <3>2 DEF UpTo
    <3>4. s # "objects" /\ missed[i] = 0
      BY <1>8, <2>3, <3>3
    <3>5. silence'["objects"] = silence["objects"]
      BY <1>1, <1>2, <3>4, StreamsAre DEF EncounterRows
    <3> QED
      BY <1>1, <3>1, <3>4, <3>5 DEF AbsenceTakesAFrame
  <2> QED
    BY <2>2, <2>3
<1>12. AbsenceIsObserved'
  BY <1>1, <1>2 DEF AbsenceIsObserved
<1>13. DisplayRows' /\ CardStands'
  BY <1>1, <1>2, <1>10, SettlesWell
<1> QED
  BY <1>10, <1>11, <1>12, <1>13 DEF PresenceInv

LEMMA PresenceTickKeepsInv ==
  ASSUME PresenceInv, NEW expires \in BOOLEAN, PresenceTick(expires)
  PROVE  PresenceInv'
<1>1. EncounterRows /\ DisplayRows /\ CardStands /\ AbsenceTakesAFrame /\ AbsenceIsObserved
  BY DEF PresenceInv
<1>2. /\ active' = active \ Ending /\ SettledDisplay(expires)
      /\ IF \E i \in Ending : PlacementOf(i)
         THEN LET i == CHOOSE j \in Ending : PlacementOf(j)
              IN saved' = [sightings |-> sightings[i], missed |-> missed[i]]
         ELSE UNCHANGED saved
      /\ UNCHANGED <<labCamera, available, profiles, meeting, sightings, missed, labReminder, dismissed>>
  BY DEF PresenceTick
<1>3. /\ silence' \in [LabStreams -> 0..(GapTime + 1)]
      /\ \A s \in LabStreams : silence'[s] <= silence[s] + 1 /\ silence'[s] >= silence[s]
                               /\ (silence[s] < GapTime => silence'[s] = silence[s] + 1)
  <2>1. silence' = [s \in LabStreams |-> UpTo(silence[s] + 1, GapTime + 1)]
    BY DEF PresenceTick
  <2>2. \A s \in LabStreams : silence[s] \in 0..(GapTime + 1)
    BY <1>1 DEF EncounterRows
  <2>3. \A s \in LabStreams : UpTo(silence[s] + 1, GapTime + 1) \in 0..(GapTime + 1)
                              /\ UpTo(silence[s] + 1, GapTime + 1) <= silence[s] + 1
                              /\ UpTo(silence[s] + 1, GapTime + 1) >= silence[s]
                              /\ (silence[s] < GapTime => UpTo(silence[s] + 1, GapTime + 1) = silence[s] + 1)
    BY <2>2, PresenceTimesAre DEF UpTo
  <2> QED
    BY <2>1, <2>3
<1>4. obsAge' \in [Profile -> 0..(GapTime + 1)]
  <2>1. obsAge' = [i \in Profile |-> UpTo(obsAge[i] + 1, GapTime + 1)]
    BY DEF PresenceTick
  <2>2. \A i \in Profile : UpTo(obsAge[i] + 1, GapTime + 1) \in 0..(GapTime + 1)
    <3>1. \A i \in Profile : obsAge[i] \in 0..(GapTime + 1)
      BY <1>1 DEF EncounterRows
    <3>2. GapTime + 1 \in Nat
      BY PresenceTimesAre
    <3> QED
      BY <3>1, <3>2, UpToIs
  <2> QED
    BY <2>1, <2>2
<1>5. /\ age' \in [Profile -> 0..EndTime]
      /\ \A i \in Profile : age'[i] = age[i] \/ (Runs(StreamOf(i)) /\ age'[i] <= age[i] + 1)
  <2>1. age' = [i \in Profile |-> IF Runs(StreamOf(i)) THEN UpTo(age[i] + 1, EndTime) ELSE age[i]]
    BY DEF PresenceTick
  <2>2. \A i \in Profile : age[i] \in 0..EndTime
    BY <1>1 DEF EncounterRows
  <2>3. \A i \in Profile : UpTo(age[i] + 1, EndTime) \in 0..EndTime /\ UpTo(age[i] + 1, EndTime) <= age[i] + 1
    BY <2>2, PresenceTimesAre, UpToIs
  <2> QED
    BY <2>1, <2>2, <2>3
<1>6. EncounterRows'
  BY <1>1, <1>2, <1>3, <1>4, <1>5 DEF EncounterRows
<1>7. ASSUME NEW i \in Object, i \in active, missed[i] = 0
      PROVE  age'[i] <= silence'["objects"] /\ age'[i] <= GapTime
  <2>1. age[i] <= silence["objects"] /\ age[i] <= GapTime
    BY <1>1, <1>7 DEF AbsenceTakesAFrame
  <2>2. i \in Profile /\ StreamOf(i) = "objects"
    BY ProfilesAre
  <2>3. age'[i] = age[i] \/ (silence["objects"] < GapTime /\ age'[i] <= age[i] + 1)
    BY <1>5, <2>2 DEF Runs
  <2>4. age[i] \in Nat /\ age'[i] \in Nat /\ silence["objects"] \in Nat /\ silence'["objects"] \in Nat
    BY <1>1, <1>3, <1>5, <2>2, StreamsAre DEF EncounterRows
  <2>5. silence'["objects"] >= silence["objects"] /\ (silence["objects"] < GapTime => silence'["objects"] = silence["objects"] + 1)
    BY <1>3, StreamsAre
  <2> QED
    BY <2>1, <2>3, <2>4, <2>5, PresenceTimesAre
<1>8. AbsenceTakesAFrame'
  BY <1>2, <1>7 DEF AbsenceTakesAFrame
<1>9. AbsenceIsObserved'
  <2>1. CASE \E i \in Ending : PlacementOf(i)
    <3> DEFINE i == CHOOSE j \in Ending : PlacementOf(j)
    <3>1. i \in Ending /\ PlacementOf(i)
      BY <2>1
    <3>2. saved' = [sightings |-> sightings[i], missed |-> missed[i]]
      BY <1>2, <2>1
    <3> HIDE DEF i
    <3>3. i \in Object /\ sightings[i] >= 2 /\ i \in active /\ age'[i] >= EndTime
      BY <3>1 DEF PlacementOf, Ending
    <3>4. missed[i] \in 0..2 /\ i \in Profile
      BY <1>1, <3>3, ProfilesAre DEF EncounterRows
    <3>5. age'[i] \in Nat
      BY <1>5, <3>4
    <3>6. missed[i] # 0
      BY <1>7, <3>3, <3>5, PresenceTimesAre
    <3>7. missed[i] >= 1
      BY <3>4, <3>6
    <3> QED
      BY <3>2, <3>3, <3>7 DEF AbsenceIsObserved
  <2>2. CASE ~ \E i \in Ending : PlacementOf(i)
    BY <1>1, <1>2, <2>2 DEF AbsenceIsObserved
  <2> QED
    BY <2>1, <2>2
<1>10. DisplayRows' /\ CardStands'
  BY <1>1, <1>2, <1>6, SettlesWell
<1> QED
  BY <1>6, <1>8, <1>9, <1>10 DEF PresenceInv

\* A change of the display alone, or of the streams and the clip, that shows no card.
LEMMA OthersKeepTheCard ==
  ASSUME PresenceInv, EncounterRows', AbsenceTakesAFrame',
         UNCHANGED <<profiles, meeting, active, foreground, saved, labReminder, dismissed>>,
         \/ UNCHANGED <<display, cardKey>>
         \/ UNCHANGED cardKey /\ display' \in DisplayRow /\ display'.template # "profile"
  PROVE  PresenceInv'
<1>1. DisplayRows' /\ CardStands'
  BY DEF PresenceInv, DisplayRows, CardStands, Agrees, TheCardIsOfWhoIsThere
<1> QED
  BY <1>1 DEF PresenceInv, AbsenceIsObserved

LEMMA OthersKeepInv ==
  ASSUME PresenceInv, CooldownEnds \/ CameraOn \/ ClearDisplay \/ (\E i \in Profile : ShowAnswer(i))
  PROVE  PresenceInv'
<1>1. /\ UNCHANGED <<available, silence, profiles, seenVars, foreground, labReminder, dismissed, saved, cardKey>>
      /\ labCamera' \in {labCamera, TRUE}
      /\ display' = display \/ display' = Idling \/ \E i \in Profile : display' = [template |-> "answer", of |-> i, reminder |-> FALSE]
  BY DEF CooldownEnds, CameraOn, ClearDisplay, ShowAnswer
<1>2. EncounterRows'
  BY <1>1 DEF PresenceInv, EncounterRows, seenVars
<1>3. AbsenceTakesAFrame'
  BY <1>1 DEF PresenceInv, AbsenceTakesAFrame, seenVars
<1>4. display' = display \/ (display' \in DisplayRow /\ display'.template # "profile")
  <2>1. \A i \in Profile : LET a == [template |-> "answer", of |-> i, reminder |-> FALSE]
                           IN a \in DisplayRow /\ a.template # "profile"
    BY DEF DisplayRow, Whose
  <2> QED
    BY <1>1, <2>1, NoKeyIs
<1> QED
  BY <1>1, <1>2, <1>3, <1>4, OthersKeepTheCard DEF seenVars

LEMMA PresenceBoundsAre == /\ EndTime \in 0..EndTime /\ (GapTime + 1) \in 0..(GapTime + 1)
                   /\ 0 \in 0..MaxMeetings /\ 0 \in 0..2 /\ 0 \in Nat
BY PresenceTimesAre

LEMMA CameraOffKeepsInv ==
  ASSUME PresenceInv, CameraOff
  PROVE  PresenceInv'
<1>1. EncounterRows'
  <2>1. /\ labCamera' \in BOOLEAN /\ active' = {} /\ available' = [s \in LabStreams |-> FALSE]
        /\ silence' = [s \in LabStreams |-> GapTime + 1]
        /\ age' = [i \in Profile |-> EndTime] /\ obsAge' = [i \in Profile |-> GapTime + 1]
        /\ UNCHANGED <<profiles, meeting, sightings, missed, labReminder, dismissed>>
    BY DEF CameraOff
  <2> QED
    BY <2>1, PresenceBoundsAre DEF PresenceInv, EncounterRows
<1>2. AbsenceTakesAFrame'
  BY DEF CameraOff, AbsenceTakesAFrame
<1>3. foreground' = NoProfile /\ display' = Idling /\ cardKey' = NoKey
  BY DEF CameraOff
<1>4. DisplayRows' /\ CardStands'
  BY <1>3, NoKeyIs DEF DisplayRows, CardStands, Agrees, TheCardIsOfWhoIsThere, Whose
<1>5. AbsenceIsObserved'
  BY DEF CameraOff, PresenceInv, AbsenceIsObserved
<1> QED
  BY <1>1, <1>2, <1>4, <1>5 DEF PresenceInv

LEMMA StreamStateKeepsInv ==
  ASSUME PresenceInv, NEW s \in LabStreams, NEW there \in BOOLEAN, StreamState(s, there)
  PROVE  PresenceInv'
<1>1. /\ available' = [available EXCEPT ![s] = there] /\ silence' = [silence EXCEPT ![s] = GapTime + 1]
      /\ UNCHANGED <<labCamera, profiles, seenVars, foreground, labReminder, dismissed, display, cardKey, cooling, saved>>
  BY DEF StreamState
<1>2. EncounterRows'
  BY <1>1, PresenceTimesAre DEF PresenceInv, EncounterRows, seenVars
<1>3. silence'["objects"] = silence["objects"] \/ silence'["objects"] = GapTime + 1
  BY <1>1, StreamsAre DEF PresenceInv, EncounterRows
<1>4. AbsenceTakesAFrame'
  <2> SUFFICES ASSUME NEW i \in Object, i \in active, missed[i] = 0
               PROVE  age[i] <= silence'["objects"] /\ age[i] <= GapTime
    BY <1>1 DEF AbsenceTakesAFrame, seenVars
  <2>1. age[i] <= silence["objects"] /\ age[i] <= GapTime
    BY DEF PresenceInv, AbsenceTakesAFrame
  <2>2. age[i] \in Nat
    BY ProfilesAre DEF PresenceInv, EncounterRows
  <2> QED
    BY <1>3, <2>1, <2>2, PresenceTimesAre
<1> QED
  BY <1>1, <1>2, <1>4, OthersKeepTheCard DEF seenVars

LEMMA SetReminderKeepsInv ==
  ASSUME PresenceInv, NEW i \in LabPerson, NEW due \in BOOLEAN, NEW since \in Nat, SetReminder(i, due, since)
  PROVE  PresenceInv'
<1>1. /\ i \in Profile /\ labReminder' = [labReminder EXCEPT ![i] = due] /\ dismissed' = [dismissed EXCEPT ![i] = since]
      /\ UNCHANGED <<labCamera, available, silence, profiles, seenVars, foreground, cooling, saved>> /\ Refreshed(i)
  BY DEF SetReminder, Profile
<1>2. EncounterRows'
  BY <1>1 DEF PresenceInv, EncounterRows, seenVars
<1>3. AbsenceTakesAFrame' /\ AbsenceIsObserved'
  BY <1>1 DEF PresenceInv, AbsenceTakesAFrame, AbsenceIsObserved, seenVars
<1>4. DisplayRows' /\ CardStands'
  <2>1. DisplayRows /\ CardStands
    BY DEF PresenceInv
  <2>2. CASE foreground = i
    <3> DEFINE was == [key |-> cardKey, shows |-> display]
    <3>1. cardKey \in KeyRow /\ display \in DisplayRow /\ Agrees(cardKey, display)
      BY <2>1 DEF DisplayRows, CardStands
    <3>2. was \in ShownRow /\ was.key = cardKey /\ was.shows = display
      BY <3>1, ARowShown
    <3>3. Displays(Shown(i, was))
      BY <1>1, <2>2 DEF Refreshed
    <3> HIDE DEF was
    <3>4. IsOf(Shown(i, was), i)
      BY <1>1, <1>2, <3>1, <3>2, ShownIs
    <3>5. foreground' = i /\ i \in active'
      BY <1>1, <2>1, <2>2, ProfileNotNone DEF CardStands, seenVars
    <3> QED
      BY <1>2, <3>3, <3>4, <3>5, DisplayedStands
  <2>3. CASE foreground # i
    <3>1. UNCHANGED <<display, cardKey, foreground, active, meeting>>
      BY <1>1, <2>3 DEF Refreshed, seenVars
    <3>2. \A j \in LabPerson : j # i => labReminder'[j] = labReminder[j] /\ dismissed'[j] = dismissed[j]
      BY <1>1 DEF PresenceInv, EncounterRows
    <3>3. DisplayRows' /\ Agrees(cardKey, display)' /\ (foreground = NoProfile \/ foreground \in active)'
      BY <2>1, <3>1 DEF DisplayRows, CardStands, Agrees
    <3>4. ASSUME display.template = "profile"
          PROVE  /\ display.of = foreground /\ display.of \in active
                 /\ display.reminder => /\ display.of \in LabPerson /\ labReminder'[display.of]
                                        /\ dismissed'[display.of] # meeting[display.of]
      BY <2>1, <2>3, <3>2, <3>4 DEF CardStands, TheCardIsOfWhoIsThere
    <3> QED
      BY <3>1, <3>3, <3>4 DEF CardStands, TheCardIsOfWhoIsThere
  <2> QED
    BY <2>2, <2>3
<1> QED
  BY <1>2, <1>3, <1>4 DEF PresenceInv

LEMMA SnoozeEndsKeepsInv ==
  ASSUME PresenceInv, NEW i \in LabPerson, SnoozeEnds(i)
  PROVE  PresenceInv'
<1>1. /\ labReminder' = [labReminder EXCEPT ![i] = TRUE]
      /\ UNCHANGED <<labCamera, available, silence, profiles, seenVars, foreground, dismissed, display, cardKey, saved>>
  BY DEF SnoozeEnds
<1>2. EncounterRows'
  BY <1>1 DEF PresenceInv, EncounterRows, seenVars
<1>3. AbsenceTakesAFrame' /\ AbsenceIsObserved' /\ DisplayRows'
  BY <1>1 DEF PresenceInv, AbsenceTakesAFrame, AbsenceIsObserved, DisplayRows, seenVars
<1>4. \A j \in LabPerson : labReminder[j] => labReminder'[j]
  BY <1>1 DEF PresenceInv, EncounterRows
<1>5. CardStands'
  BY <1>1, <1>4 DEF PresenceInv, CardStands, Agrees, TheCardIsOfWhoIsThere, seenVars
<1> QED
  BY <1>2, <1>3, <1>5 DEF PresenceInv

LEMMA DeleteProfileKeepsInv ==
  ASSUME PresenceInv, NEW i \in LabPerson, DeleteProfile(i)
  PROVE  PresenceInv'
<1> DEFINE f == foreground'
           shows == IF foreground = i \/ display.template = "answer" THEN Idling ELSE display
           bare == [key |-> NoKey, shows |-> shows]
<1>1. /\ profiles' = profiles \ {i} /\ active' = active \ {i} /\ i \in Profile
      /\ age' = [age EXCEPT ![i] = EndTime] /\ obsAge' = [obsAge EXCEPT ![i] = GapTime + 1]
      /\ labReminder' = [labReminder EXCEPT ![i] = FALSE] /\ dismissed' = [dismissed EXCEPT ![i] = 0]
      /\ UNCHANGED <<labCamera, available, silence, meeting, sightings, missed, cooling, saved>>
      /\ f \in IF Preferred = {} THEN {NoProfile} ELSE Preferred
      /\ Displays(Refocused(bare))
  BY DEF DeleteProfile, Profile
<1>2. DisplayRows /\ CardStands /\ EncounterRows
  BY DEF PresenceInv
<1>3. EncounterRows'
  BY <1>1, <1>2, PresenceTimesAre DEF EncounterRows
<1>4. AbsenceTakesAFrame' /\ AbsenceIsObserved'
  <2>1. \A j \in Object : j # i /\ j \in Profile
    BY ProfilesAre
  <2>2. \A j \in Object : age'[j] = age[j] /\ (j \in active' <=> j \in active)
    BY <1>1, <1>2, <2>1 DEF EncounterRows
  <2> QED
    BY <1>1, <2>2 DEF PresenceInv, AbsenceTakesAFrame, AbsenceIsObserved
<1>5. f \in Whose /\ (f = NoProfile \/ (f \in Profile /\ f \in active'))
  BY <1>1, <1>3, TheForegroundIsThere
<1>6. /\ shows \in DisplayRow
      /\ shows.template = "profile" => /\ shows = display /\ foreground # i /\ display.template = "profile"
  <2>1. display \in DisplayRow
    BY <1>2 DEF DisplayRows
  <2> QED
    BY <2>1, NoKeyIs
<1>7. bare \in ShownRow /\ bare.key = NoKey /\ bare.shows = shows /\ Agrees(bare.key, bare.shows)
  <2>1. NoKey \in KeyRow
    BY NoKeyIs
  <2>2. bare \in ShownRow /\ bare.key = NoKey /\ bare.shows = shows
    BY <1>6, <2>1, ARowShown
  <2> QED
    BY <2>2 DEF Agrees
<1> HIDE DEF bare, shows
<1>8. IsOf(Refocused(bare), f) \/ (f = foreground /\ Refocused(bare) = bare)
  <2>1. CASE f # foreground
    BY <1>3, <1>5, <1>7, <2>1, RefocusedIs
  <2>2. CASE f = foreground
    BY <2>2 DEF Refocused
  <2> QED
    BY <2>1, <2>2
<1>9. DisplayRows' /\ CardStands'
  <2>1. CASE IsOf(Refocused(bare), f)
    BY <1>1, <1>3, <1>5, <2>1, DisplayedStands
  <2>2. CASE f = foreground /\ Refocused(bare) = bare
    <3>1. display' = shows /\ cardKey' = NoKey
      BY <1>1, <1>7, <2>2 DEF Displays
    <3>2. DisplayRows' /\ Agrees(cardKey, display)' /\ (foreground = NoProfile \/ foreground \in active)'
      BY <1>5, <1>6, <3>1, NoKeyIs DEF DisplayRows, Agrees
    <3>3. \A j \in LabPerson : j # i => labReminder'[j] = labReminder[j] /\ dismissed'[j] = dismissed[j]
      BY <1>1, <1>2 DEF EncounterRows
    <3>4. ASSUME shows.template = "profile"
          PROVE  /\ shows.of = f /\ shows.of \in active'
                 /\ shows.reminder => /\ shows.of \in LabPerson /\ labReminder'[shows.of]
                                      /\ dismissed'[shows.of] # meeting'[shows.of]
      <4>1. shows = display /\ foreground # i /\ display.template = "profile" /\ display.of = foreground /\ display.of \in active
        BY <1>2, <1>6, <3>4 DEF CardStands, TheCardIsOfWhoIsThere
      <4>2. display.reminder => /\ display.of \in LabPerson /\ labReminder[display.of]
                                /\ dismissed[display.of] # meeting[display.of]
        BY <1>2, <4>1 DEF CardStands, TheCardIsOfWhoIsThere
      <4> QED
        BY <1>1, <2>2, <3>3, <4>1, <4>2
    <3> QED
      BY <3>1, <3>2, <3>4 DEF CardStands, TheCardIsOfWhoIsThere
  <2> QED
    BY <1>8, <2>1, <2>2
<1> QED
  BY <1>3, <1>4, <1>9 DEF PresenceInv

-----------------------------------------------------------------------------
LEMMA PresenceStarts == PresenceInit => PresenceInv
<1> SUFFICES ASSUME PresenceInit PROVE PresenceInv
  OBVIOUS
<1>1. EncounterRows
  <2>1. LabPerson \subseteq Profile
    BY ProfilesAre
  <2> QED
    BY <2>1, PresenceBoundsAre DEF PresenceInit, EncounterRows
<1>2. AbsenceTakesAFrame /\ AbsenceIsObserved
  BY DEF PresenceInit, AbsenceTakesAFrame, AbsenceIsObserved
<1>3. DisplayRows /\ CardStands
  BY NoKeyIs DEF PresenceInit, DisplayRows, CardStands, Agrees, TheCardIsOfWhoIsThere, Whose
<1> QED
  BY <1>1, <1>2, <1>3 DEF PresenceInv

LEMMA PresenceStep == PresenceInv /\ [PresenceNext]_presenceVars => PresenceInv'
<1> SUFFICES ASSUME PresenceInv, [PresenceNext]_presenceVars PROVE PresenceInv'
  OBVIOUS
<1>1. ASSUME NEW s \in LabStreams, NEW is \in SUBSET Profile, NEW expires \in BOOLEAN, SeesFrame(s, is, expires) PROVE PresenceInv'
  BY <1>1, SeesFrameKeepsInv
<1>2. ASSUME NEW expires \in BOOLEAN, PresenceTick(expires) PROVE PresenceInv'
  BY <1>2, PresenceTickKeepsInv
<1>3. CASE CooldownEnds \/ CameraOn \/ ClearDisplay \/ (\E i \in Profile : ShowAnswer(i))
  BY <1>3, OthersKeepInv
<1>4. CASE CameraOff
  BY <1>4, CameraOffKeepsInv
<1>5. ASSUME NEW s \in LabStreams, NEW there \in BOOLEAN, StreamState(s, there) PROVE PresenceInv'
  BY <1>5, StreamStateKeepsInv
<1>6. ASSUME NEW i \in LabPerson,
             (\E next \in BOOLEAN : SaveReminder(i, next)) \/ CompleteReminder(i) \/ Snooze(i) \/ Dismiss(i)
      PROVE  PresenceInv'
  <2>1. meeting[i] \in Nat /\ dismissed[i] \in Nat
    BY ProfilesAre, PresenceTimesAre DEF PresenceInv, EncounterRows
  <2>2. \E due \in BOOLEAN, since \in Nat : SetReminder(i, due, since)
    BY <1>6, <2>1 DEF SaveReminder, CompleteReminder, Snooze, Dismiss
  <2> QED
    BY <2>2, SetReminderKeepsInv
<1>7. ASSUME NEW i \in LabPerson, SnoozeEnds(i) PROVE PresenceInv'
  BY <1>7, SnoozeEndsKeepsInv
<1>8. ASSUME NEW i \in LabPerson, DeleteProfile(i) PROVE PresenceInv'
  BY <1>8, DeleteProfileKeepsInv
<1>9. CASE UNCHANGED presenceVars
  <2>1. EncounterRows' /\ AbsenceTakesAFrame'
    BY <1>9 DEF PresenceInv, EncounterRows, AbsenceTakesAFrame, presenceVars
  <2> QED
    BY <1>9, <2>1, OthersKeepTheCard DEF presenceVars
<1> QED
  BY <1>1, <1>2, <1>3, <1>4, <1>5, <1>6, <1>7, <1>8, <1>9 DEF PresenceNext

LEMMA PresenceMeans == PresenceInv => PresenceTypeOK /\ AbsenceIsObserved /\ TheCardIsOfWhoIsThere
BY DEF PresenceInv, EncounterRows, DisplayRows, CardStands, PresenceTypeOK, DisplayRow, KeyRow, Whose

(* A clip is saved of an absence that a frame has seen, and the card on the display is *)
(* of who is in the foreground, with a reminder that is still due                      *)
(* (tools/perception_lab/product.py: _advance, _foreground, _show).                    *)
THEOREM TheCardIsTheirs == PresenceSpec => [](AbsenceIsObserved /\ TheCardIsOfWhoIsThere)
<1> QED
  BY PresenceStarts, PresenceStep, PresenceMeans, PTL DEF PresenceSpec

-----------------------------------------------------------------------------
(* Notes *)

LabSession == [open : BOOLEAN, knows : SUBSET NotePerson, late : SUBSET NotePerson, notes : SUBSET NoteRow,
               shown : SUBSET NoteRow, gone : SUBSET NoteIds, heard : SUBSET (NotePerson \X Saying)]

PeopleInv ==
    /\ faceGallery \subseteq NotePerson /\ newcomers \subseteq NotePerson /\ forgotten \subseteq NotePerson
    /\ faceGallery \cap newcomers = {} /\ faceGallery \cap forgotten = {} /\ newcomers \cap forgotten = {}
    /\ madeNotes \in 0..MaxNotes /\ wiped \subseteq NoteIds /\ halfErased \subseteq NoteIds
    /\ \A i \in wiped : i <= madeNotes

\* What was saved from conversation has left a fingerprint, until the person is forgotten.
DigestInv ==
    /\ digests \subseteq NotePerson \X Saying
    /\ savedTimes \in [NotePerson \X Saying -> 0..1]
    /\ \A p \in forgotten, s \in Saying : <<p, s>> \notin digests
    /\ \A p \in NotePerson, s \in Saying : savedTimes[<<p, s>>] = 1 => <<p, s>> \in digests \/ p \in forgotten

\* A note is about the same person wherever it is: own[i] is whom the note i is about.
RowsInv(own) ==
    /\ noteRows \subseteq NoteRow
    /\ \A n \in noteRows : /\ n.of = own[n.id] /\ n.id <= madeNotes /\ n.id \notin wiped
                           /\ n.of \notin newcomers /\ n.of \notin forgotten

SessionInv(s, own) ==
    /\ s \in LabSession
    /\ \A p \in s.knows : p \notin newcomers /\ p \notin forgotten
    /\ \A n \in s.notes : /\ n.of = own[n.id] /\ n.id <= madeNotes /\ n.of \in s.knows /\ n.id \notin wiped
                          /\ n.id \notin halfErased => n \in noteRows
    /\ \A n \in s.shown : /\ n.of = own[n.id] /\ n.id <= madeNotes /\ (n.of \in s.knows \/ n.of \in forgotten)
                          /\ n.id \in wiped => n.id \in s.gone \/ n.of \in forgotten
    /\ \A n \in noteRows : n.of \in s.knows /\ n.of \notin s.late => n \in s.notes
    /\ ~s.open => s = NoLabSession

SessionsInv(own) ==
    /\ lab = [t \in NoteTab |-> lab[t]]
    /\ \A t \in NoteTab : \A s : s = lab[t] => SessionInv(s, own)

NotesInv == PeopleInv /\ DigestInv /\ \E own : RowsInv(own) /\ SessionsInv(own)

LEMMA NoteIdsAre == NoteIds \subseteq Nat /\ MaxNotes \in Nat /\ Typed \notin Saying
<1>1. MaxNotes \in Nat
  BY LabNotesAssumption
<1>2. Typed \notin Saying
  BY LabNotesAssumption DEF Typed
<1> QED
  BY <1>1, <1>2 DEF NoteIds

LEMMA NoteRowIs ==
  ASSUME NEW n \in NoteRow
  PROVE  n.id \in NoteIds /\ n.of \in NotePerson /\ n.text \in Saying /\ n.heard \in Saying \cup {Typed}
BY DEF NoteRow

LEMMA ANoteIs ==
  ASSUME NEW i \in NoteIds, NEW p \in NotePerson, NEW text \in Saying, NEW heard \in Saying \cup {Typed},
         NEW n, n = [id |-> i, of |-> p, text |-> text, heard |-> heard]
  PROVE  n \in NoteRow /\ n.id = i /\ n.of = p /\ n.text = text /\ n.heard = heard
BY DEF NoteRow

LEMMA AnEditIs ==
  ASSUME NEW n \in NoteRow, NEW text \in Saying, NEW m, m = [n EXCEPT !.text = text]
  PROVE  m \in NoteRow /\ m.id = n.id /\ m.of = n.of /\ m.heard = n.heard
BY DEF NoteRow

-----------------------------------------------------------------------------
(* What a session does. *)

LEMMA SessionIs ==
  ASSUME NEW s \in LabSession
  PROVE  /\ s.open \in BOOLEAN /\ s.knows \subseteq NotePerson /\ s.late \subseteq NotePerson /\ s.notes \subseteq NoteRow
         /\ s.shown \subseteq NoteRow /\ s.gone \subseteq NoteIds /\ s.heard \subseteq NotePerson \X Saying
BY DEF LabSession

LEMMA NoSessionIs ==
  /\ NoLabSession \in LabSession /\ NoLabSession.open = FALSE /\ NoLabSession.knows = {} /\ NoLabSession.late = {}
  /\ NoLabSession.notes = {} /\ NoLabSession.shown = {} /\ NoLabSession.gone = {} /\ NoLabSession.heard = {}
BY DEF NoLabSession, LabSession

LEMMA WithoutIs ==
  ASSUME NEW rows, NEW i
  PROVE  \A n : n \in Without(rows, i) <=> n \in rows /\ n.id # i
BY DEF Without

\* u is s with the note n written.
Has(u, s, n) ==
    /\ u \in LabSession /\ u.open = s.open /\ u.knows = s.knows /\ u.late = s.late /\ u.gone = s.gone
    /\ u.notes = Without(s.notes, n.id) \cup {n} /\ u.shown = Without(s.shown, n.id) \cup {n}

LEMMA UpsertIs ==
  ASSUME NEW s \in LabSession, NEW n \in NoteRow
  PROVE  Has(Upsert(s, n), s, n) /\ Upsert(s, n).heard = s.heard
<1>1. Without(s.notes, n.id) \subseteq NoteRow /\ Without(s.shown, n.id) \subseteq NoteRow
  BY SessionIs, WithoutIs
<1> DEFINE notes == Without(s.notes, n.id) \cup {n}
           shown == Without(s.shown, n.id) \cup {n}
<1>2. notes \in SUBSET NoteRow /\ shown \in SUBSET NoteRow
  BY <1>1
<1>3. Upsert(s, n) = [s EXCEPT !.notes = notes, !.shown = shown]
  BY DEF Upsert
<1> HIDE DEF notes, shown
<1>4. /\ [s EXCEPT !.notes = notes, !.shown = shown] \in LabSession
      /\ [s EXCEPT !.notes = notes, !.shown = shown].open = s.open
      /\ [s EXCEPT !.notes = notes, !.shown = shown].knows = s.knows
      /\ [s EXCEPT !.notes = notes, !.shown = shown].late = s.late
      /\ [s EXCEPT !.notes = notes, !.shown = shown].gone = s.gone
      /\ [s EXCEPT !.notes = notes, !.shown = shown].heard = s.heard
      /\ [s EXCEPT !.notes = notes, !.shown = shown].notes = notes
      /\ [s EXCEPT !.notes = notes, !.shown = shown].shown = shown
  BY <1>2 DEF LabSession
<1> QED
  BY <1>3, <1>4 DEF Has, notes, shown

LEMMA HeardIs ==
  ASSUME NEW s \in LabSession, NEW n \in NoteRow, NEW p \in NotePerson, NEW heard \in Saying,
         NEW v, Has(v, s, n), NEW u, u = [v EXCEPT !.heard = @ \cup {<<p, heard>>}]
  PROVE  Has(u, s, n)
<1>1. v \in LabSession
  BY DEF Has
<1>2. u \in LabSession /\ u.open = v.open /\ u.knows = v.knows /\ u.late = v.late /\ u.gone = v.gone
      /\ u.notes = v.notes /\ u.shown = v.shown
  BY <1>1 DEF LabSession
<1> QED
  BY <1>2 DEF Has

LEMMA RemoveNoteIs ==
  ASSUME NEW s \in LabSession, NEW i \in NoteIds, NEW u, u = RemoveNote(s, i)
  PROVE  /\ u \in LabSession /\ u.open = s.open /\ u.knows = s.knows /\ u.late = s.late /\ u.shown = s.shown
         /\ u.notes = Without(s.notes, i) /\ u.gone = s.gone \cup {i}
<1> DEFINE notes == Without(s.notes, i)
           gone == s.gone \cup {i}
<1>1. notes \in SUBSET NoteRow /\ gone \in SUBSET NoteIds
  BY SessionIs, WithoutIs
<1>2. u = [s EXCEPT !.notes = notes, !.gone = gone]
  BY DEF RemoveNote
<1> HIDE DEF notes, gone
<1>3. u \in LabSession /\ u.open = s.open /\ u.knows = s.knows /\ u.late = s.late /\ u.shown = s.shown
      /\ u.notes = notes /\ u.gone = gone
  BY <1>1, <1>2 DEF LabSession
<1> QED
  BY <1>3 DEF notes, gone

Learns(s, p) == [s EXCEPT !.knows = @ \cup {p}]
LearnsLate(s, p) == [s EXCEPT !.knows = @ \cup {p}, !.late = @ \cup {p}]
Forgets(s, p) == [s EXCEPT !.knows = @ \ {p}, !.late = @ \ {p}, !.notes = @ \ NotesOf(@, p), !.heard = {k \in @ : k[1] # p}]
Opened(knows, notes) == [NoLabSession EXCEPT !.open = TRUE, !.knows = knows, !.notes = notes, !.shown = notes]

HasLearned(u, s, p) == /\ u \in LabSession /\ u.open = s.open /\ u.knows = s.knows \cup {p}
                       /\ u.late = s.late \/ u.late = s.late \cup {p}
                       /\ u.shown = s.shown /\ u.notes = s.notes /\ u.gone = s.gone

LEMMA LearnsIs ==
  ASSUME NEW s \in LabSession, NEW p \in NotePerson, NEW u,
         u = Learns(s, p) \/ u = LearnsLate(s, p)
  PROVE  HasLearned(u, s, p) /\ (u = LearnsLate(s, p) => u.late = s.late \cup {p})
<1> DEFINE knows == s.knows \cup {p}
           late == s.late \cup {p}
<1>1. knows \in SUBSET NotePerson /\ late \in SUBSET NotePerson /\ s.late \in SUBSET NotePerson
  BY SessionIs
<1>2. u = [s EXCEPT !.knows = knows] \/ u = [s EXCEPT !.knows = knows, !.late = late]
  BY DEF LabSession, Learns, LearnsLate
<1> HIDE DEF knows, late
<1>3. ASSUME NEW v, v = [s EXCEPT !.knows = knows]
      PROVE  /\ v \in LabSession /\ v.open = s.open /\ v.knows = knows /\ v.late = s.late
             /\ v.shown = s.shown /\ v.notes = s.notes /\ v.gone = s.gone
  BY <1>1, <1>3 DEF LabSession
<1>4. ASSUME NEW v, v = [s EXCEPT !.knows = knows, !.late = late]
      PROVE  /\ v \in LabSession /\ v.open = s.open /\ v.knows = knows /\ v.late = late
             /\ v.shown = s.shown /\ v.notes = s.notes /\ v.gone = s.gone
  BY <1>1, <1>4 DEF LabSession
<1>5. u = LearnsLate(s, p) => u = [s EXCEPT !.knows = knows, !.late = late]
  BY DEF LabSession, knows, late, LearnsLate
<1> QED
  BY <1>2, <1>3, <1>4, <1>5 DEF knows, late, HasLearned

HasForgotten(u, s, p) ==
    /\ u \in LabSession /\ u.open = s.open /\ u.knows = s.knows \ {p} /\ u.late = s.late \ {p}
    /\ u.shown = s.shown /\ u.notes = s.notes \ NotesOf(s.notes, p) /\ u.gone = s.gone
    /\ s = NoLabSession => u = NoLabSession

LEMMA ForgetsIs ==
  ASSUME NEW s \in LabSession, NEW p \in NotePerson, NEW u, u = Forgets(s, p)
  PROVE  HasForgotten(u, s, p)
<1> DEFINE notes == s.notes \ NotesOf(s.notes, p)
           heard == {k \in s.heard : k[1] # p}
<1>1. u = [s EXCEPT !.knows = s.knows \ {p}, !.late = s.late \ {p}, !.notes = notes, !.heard = heard]
  BY DEF LabSession, Forgets
<1>2. notes \in SUBSET NoteRow /\ heard \in SUBSET (NotePerson \X Saying)
  BY SessionIs
<1>3. s = NoLabSession => notes = {} /\ heard = {}
  BY NoSessionIs
<1> HIDE DEF notes, heard
<1>4. u \in LabSession /\ u.open = s.open /\ u.knows = s.knows \ {p} /\ u.late = s.late \ {p}
      /\ u.shown = s.shown /\ u.notes = notes /\ u.gone = s.gone
  BY <1>1, <1>2 DEF LabSession
<1>5. ASSUME s = NoLabSession PROVE u = NoLabSession
  <2>1. s.knows \ {p} = {} /\ s.late \ {p} = {} /\ notes = {} /\ heard = {}
    BY <1>3, <1>5, NoSessionIs
  <2>2. u = [s EXCEPT !.knows = {}, !.late = {}, !.notes = {}, !.heard = {}]
    BY <1>1, <2>1
  <2> QED
    BY <1>5, <2>2 DEF NoLabSession
<1> QED
  BY <1>4, <1>5 DEF notes, HasForgotten

HasOpened(u, knows, notes) == /\ u \in LabSession /\ u.open = TRUE /\ u.knows = knows /\ u.late = {}
                              /\ u.shown = notes /\ u.notes = notes /\ u.gone = {}

LEMMA OpensIs ==
  ASSUME NEW knows, knows \subseteq NotePerson, NEW notes, notes \subseteq NoteRow
  PROVE  HasOpened(Opened(knows, notes), knows, notes)
BY DEF LabSession, NoLabSession, Opened, HasOpened

-----------------------------------------------------------------------------
(* A note is written: in the memory, in the session that asked for it and in its peers. *)

PutDown(n) == /\ noteRows' = Without(noteRows, n.id) \cup {n}
              /\ halfErased' = halfErased \ {n.id} \/ UNCHANGED halfErased
              /\ UNCHANGED <<faceGallery, newcomers, wiped, forgotten>>
              /\ madeNotes' \in 0..MaxNotes /\ madeNotes <= madeNotes' /\ n.id <= madeNotes'

\* Whom the notes are about, with the note n.
With(own, n) == [i \in NoteIds |-> IF i = n.id THEN n.of ELSE own[i]]

MayBe(own, n) == /\ n \in NoteRow /\ n.id \notin wiped /\ n.of \notin newcomers /\ n.of \notin forgotten
                 /\ n.id > madeNotes \/ n.of = own[n.id]

LEMMA OwnersAgree ==
  ASSUME PeopleInv, NEW own, NEW n, MayBe(own, n), NEW m \in NoteRow, m.of = own[m.id], m.id <= madeNotes
  PROVE  m.of = With(own, n)[m.id] /\ (m.id = n.id => m.of = n.of)
<1>1. m.id \in NoteIds /\ n.id \in NoteIds
  BY NoteRowIs DEF MayBe
<1>2. m.id = n.id => m.of = n.of
  <2>1. n.id \in Nat /\ m.id \in Nat
    BY <1>1, NoteIdsAre
  <2>3. madeNotes \in Nat
    BY NoteIdsAre DEF PeopleInv
  <2>2. m.id = n.id => ~(n.id > madeNotes)
    BY <2>1, <2>3
  <2> QED
    BY <2>2 DEF MayBe
<1> QED
  BY <1>1, <1>2 DEF With

LEMMA MadeBefore ==
  ASSUME NEW m \in NoteRow, NEW k \in Nat, NEW l \in Nat, m.id <= k, k <= l
  PROVE  m.id <= l
<1>1. m.id \in Nat
  BY NoteRowIs, NoteIdsAre
<1> QED
  BY <1>1

LEMMA TheWrittenFits ==
  ASSUME PeopleInv, NEW own, NEW n, MayBe(own, n), PutDown(n), NEW s, SessionInv(s, own), n.of \in s.knows, NEW u, Has(u, s, n)
  PROVE  SessionInv(u, With(own, n))'
<1>1. u \in LabSession /\ u.open = s.open /\ u.knows = s.knows /\ u.late = s.late /\ u.gone = s.gone
      /\ u.notes = Without(s.notes, n.id) \cup {n} /\ u.shown = Without(s.shown, n.id) \cup {n}
  BY DEF Has
<1>2. n \in NoteRow /\ n.id \in NoteIds /\ n.of = With(own, n)[n.id] /\ n.id \notin wiped /\ s \in LabSession
  BY NoteRowIs DEF MayBe, With, SessionInv
<1>3. s.notes \subseteq NoteRow /\ s.shown \subseteq NoteRow
  BY <1>2, SessionIs
<1>4. s.open /\ s # NoLabSession
  BY NoSessionIs DEF SessionInv
<1>5. /\ noteRows' = Without(noteRows, n.id) \cup {n} /\ wiped' = wiped /\ newcomers' = newcomers /\ forgotten' = forgotten
      /\ madeNotes' \in Nat /\ madeNotes \in Nat /\ madeNotes <= madeNotes' /\ n.id <= madeNotes'
      /\ \A i : i # n.id => (i \in halfErased' <=> i \in halfErased)
  BY NoteIdsAre DEF PutDown, PeopleInv
<1>6. ASSUME NEW m \in s.notes, m.id # n.id
      PROVE  /\ m.of = With(own, n)[m.id] /\ m.id <= madeNotes' /\ m.of \in s.knows /\ m.id \notin wiped
             /\ m.id \notin halfErased' => m \in noteRows'
  <2>1. m \in NoteRow /\ m.of = own[m.id] /\ m.id <= madeNotes /\ m.of \in s.knows /\ m.id \notin wiped
        /\ (m.id \notin halfErased => m \in noteRows)
    BY <1>3 DEF SessionInv
  <2>2. m.of = With(own, n)[m.id]
    BY <2>1, OwnersAgree
  <2>3. m.id <= madeNotes'
    BY <1>5, <2>1, MadeBefore
  <2>4. m.id \notin halfErased' => m \in noteRows'
    BY <1>5, <1>6, <2>1, WithoutIs
  <2> QED
    BY <2>1, <2>2, <2>3, <2>4
<1>7. ASSUME NEW m \in s.shown, m.id # n.id
      PROVE  /\ m.of = With(own, n)[m.id] /\ m.id <= madeNotes' /\ (m.of \in s.knows \/ m.of \in forgotten)
             /\ m.id \in wiped => m.id \in s.gone \/ m.of \in forgotten
  <2>1. m \in NoteRow /\ m.of = own[m.id] /\ m.id <= madeNotes /\ (m.of \in s.knows \/ m.of \in forgotten)
        /\ (m.id \in wiped => m.id \in s.gone \/ m.of \in forgotten)
    BY <1>3 DEF SessionInv
  <2>2. m.of = With(own, n)[m.id]
    BY <2>1, OwnersAgree
  <2>3. m.id <= madeNotes'
    BY <1>5, <2>1, MadeBefore
  <2> QED
    BY <2>1, <2>2, <2>3
<1>8. ASSUME NEW m \in noteRows', m.of \in s.knows, m.of \notin s.late PROVE m \in u.notes
  BY <1>1, <1>5, <1>8, WithoutIs DEF SessionInv
<1>9. \A m \in u.notes : m = n \/ (m \in s.notes /\ m.id # n.id)
  BY <1>1, WithoutIs
<1>10. \A m \in u.shown : m = n \/ (m \in s.shown /\ m.id # n.id)
  BY <1>1, WithoutIs
<1>11. n \in noteRows'
  BY <1>5
<1>12. \A p \in s.knows : p \notin newcomers /\ p \notin forgotten
  BY DEF SessionInv
<1> QED
  BY <1>1, <1>2, <1>4, <1>5, <1>6, <1>7, <1>8, <1>9, <1>10, <1>11, <1>12 DEF SessionInv

LEMMA TheOthersFit ==
  ASSUME PeopleInv, NEW own, NEW n, MayBe(own, n), PutDown(n), NEW s, SessionInv(s, own), n.of \notin s.knows
  PROVE  SessionInv(s, With(own, n))'
<1>1. n \in NoteRow /\ n.id \in NoteIds /\ n.of \notin forgotten /\ s \in LabSession
  BY NoteRowIs DEF MayBe, SessionInv
<1>2. s.notes \subseteq NoteRow /\ s.shown \subseteq NoteRow
  BY <1>1, SessionIs
<1>3. /\ noteRows' = Without(noteRows, n.id) \cup {n} /\ wiped' = wiped /\ newcomers' = newcomers /\ forgotten' = forgotten
      /\ madeNotes' \in Nat /\ madeNotes \in Nat /\ madeNotes <= madeNotes'
      /\ \A i : i # n.id => (i \in halfErased' <=> i \in halfErased)
  BY NoteIdsAre DEF PutDown, PeopleInv
<1>4. ASSUME NEW m \in s.notes
      PROVE  /\ m.of = With(own, n)[m.id] /\ m.id <= madeNotes' /\ m.of \in s.knows /\ m.id \notin wiped
             /\ m.id \notin halfErased' => m \in noteRows'
  <2>1. m \in NoteRow /\ m.of = own[m.id] /\ m.id <= madeNotes /\ m.of \in s.knows /\ m.id \notin wiped
        /\ (m.id \notin halfErased => m \in noteRows)
    BY <1>2 DEF SessionInv
  <2>2. m.of = With(own, n)[m.id] /\ m.id # n.id
    BY <2>1, OwnersAgree
  <2>3. m.id <= madeNotes'
    BY <1>3, <2>1, MadeBefore
  <2>4. m.id \notin halfErased' => m \in noteRows'
    BY <1>3, <2>1, <2>2, WithoutIs
  <2> QED
    BY <2>1, <2>2, <2>3, <2>4
<1>5. ASSUME NEW m \in s.shown
      PROVE  /\ m.of = With(own, n)[m.id] /\ m.id <= madeNotes' /\ (m.of \in s.knows \/ m.of \in forgotten)
             /\ m.id \in wiped => m.id \in s.gone \/ m.of \in forgotten
  <2>1. m \in NoteRow /\ m.of = own[m.id] /\ m.id <= madeNotes /\ (m.of \in s.knows \/ m.of \in forgotten)
        /\ (m.id \in wiped => m.id \in s.gone \/ m.of \in forgotten)
    BY <1>2 DEF SessionInv
  <2>2. m.of = With(own, n)[m.id]
    BY <2>1, OwnersAgree
  <2>3. m.id <= madeNotes'
    BY <1>3, <2>1, MadeBefore
  <2> QED
    BY <2>1, <2>2, <2>3
<1>6. ASSUME NEW m \in noteRows', m.of \in s.knows, m.of \notin s.late PROVE m \in s.notes
  BY <1>3, <1>6, WithoutIs DEF SessionInv
<1>7. (\A p \in s.knows : p \notin newcomers /\ p \notin forgotten) /\ (~s.open => s = NoLabSession)
  BY DEF SessionInv
<1> QED
  BY <1>1, <1>3, <1>4, <1>5, <1>6, <1>7 DEF SessionInv

LEMMA WrittenKeepsInv ==
  ASSUME PeopleInv, NEW own, RowsInv(own), SessionsInv(own), NEW t \in NoteTab, NEW n, MayBe(own, n), n.of \in lab[t].knows,
         PutDown(n), lab' = [o \in NoteTab |-> lab'[o]],
         \A o \in NoteTab : IF o \in {t} \cup Peers(t, n.of) THEN Has(lab'[o], lab[o], n) ELSE lab'[o] = lab[o]
  PROVE  PeopleInv' /\ RowsInv(With(own, n))' /\ SessionsInv(With(own, n))'
<1>1. PeopleInv'
  <2>1. madeNotes' \in Nat /\ madeNotes \in Nat /\ madeNotes <= madeNotes' /\ madeNotes' \in 0..MaxNotes
        /\ halfErased' \subseteq halfErased /\ UNCHANGED <<faceGallery, newcomers, wiped, forgotten>>
    BY NoteIdsAre DEF PutDown, PeopleInv
  <2>2. \A i \in wiped : i <= madeNotes'
    BY <2>1, NoteIdsAre DEF PeopleInv
  <2> QED
    BY <2>1, <2>2 DEF PeopleInv
<1>2. RowsInv(With(own, n))'
  <2>1. /\ noteRows' = Without(noteRows, n.id) \cup {n} /\ wiped' = wiped /\ newcomers' = newcomers /\ forgotten' = forgotten
        /\ madeNotes' \in Nat /\ madeNotes \in Nat /\ madeNotes <= madeNotes' /\ n.id <= madeNotes'
    BY NoteIdsAre DEF PutDown, PeopleInv
  <2>2. n \in NoteRow /\ n.id \in NoteIds /\ n.of = With(own, n)[n.id]
    BY NoteRowIs DEF MayBe, With
  <2>3. ASSUME NEW m \in noteRows
        PROVE  /\ m \in NoteRow /\ m.of = With(own, n)[m.id] /\ m.id <= madeNotes' /\ m.id \notin wiped
               /\ m.of \notin newcomers /\ m.of \notin forgotten
    <3>1. m \in NoteRow /\ m.of = own[m.id] /\ m.id <= madeNotes /\ m.id \notin wiped
          /\ m.of \notin newcomers /\ m.of \notin forgotten
      BY DEF RowsInv
    <3> QED
      BY <2>1, <3>1, OwnersAgree, MadeBefore
  <2>4. \A m \in noteRows' : m = n \/ m \in noteRows
    BY <2>1, WithoutIs
  <2> QED
    BY <2>1, <2>2, <2>3, <2>4 DEF RowsInv, MayBe
<1>3. ASSUME NEW o \in NoteTab, NEW u, u = lab'[o] PROVE SessionInv(u, With(own, n))'
  <2> DEFINE s == lab[o]
  <2>1. SessionInv(s, own)
    BY DEF SessionsInv
  <2>2. CASE o \in {t} \cup Peers(t, n.of)
    <3>1. Has(u, s, n) /\ n.of \in s.knows
      BY <1>3, <2>2 DEF Peers
    <3> QED
      BY <2>1, <3>1, TheWrittenFits
  <2>3. CASE o \notin {t} \cup Peers(t, n.of)
    <3>1. u = s
      BY <1>3, <2>3
    <3>2. n.of \notin s.knows
      BY <2>1, <2>3, NoSessionIs DEF Peers, OpenTabs, SessionInv
    <3> QED
      BY <2>1, <3>1, <3>2, TheOthersFit
  <2> QED
    BY <2>2, <2>3
<1> QED
  BY <1>1, <1>2, <1>3 DEF SessionsInv

-----------------------------------------------------------------------------
(* A note is deleted. *)

LEMMA RemovedKeepsInv ==
  ASSUME PeopleInv, NEW own, RowsInv(own), SessionsInv(own), NEW t \in NoteTab, NEW n \in lab[t].notes,
         noteRows' = Without(noteRows, n.id), TellRemove(t, n),
         wiped' = wiped \cup {n.id}, halfErased' = halfErased \ {n.id},
         UNCHANGED <<faceGallery, newcomers, madeNotes, forgotten>>
  PROVE  PeopleInv' /\ RowsInv(own)' /\ SessionsInv(own)'
<1>1. SessionInv(lab[t], own)
  BY DEF SessionsInv
<1>2. n.of = own[n.id] /\ n.of \in lab[t].knows /\ n.id <= madeNotes /\ n.of \notin forgotten /\ n \in NoteRow
  BY <1>1, SessionIs DEF SessionInv
<1>3. n.id \in NoteIds
  BY <1>2, NoteRowIs
<1>4. PeopleInv'
  BY <1>2, <1>3 DEF PeopleInv
<1>5. RowsInv(own)'
  BY WithoutIs DEF RowsInv
<1>6. ASSUME NEW o \in NoteTab, NEW u, u = lab'[o] PROVE SessionInv(u, own)'
  <2> DEFINE s == lab[o]
  <2>1. SessionInv(s, own) /\ s \in LabSession
    BY DEF SessionsInv, SessionInv
  <2>2. u = IF o \in {t} \cup Peers(t, n.of) THEN RemoveNote(s, n.id) ELSE s
    BY <1>6 DEF TellRemove, SyncRemove
  <2>3. n.of \in s.knows => u = RemoveNote(s, n.id)
    BY <2>1, <2>2, NoSessionIs DEF Peers, OpenTabs, SessionInv
  <2>4. CASE n.of \in s.knows
    <3>1. /\ u \in LabSession /\ u.open = s.open /\ u.knows = s.knows /\ u.late = s.late /\ u.shown = s.shown
          /\ u.notes = Without(s.notes, n.id) /\ u.gone = s.gone \cup {n.id}
      BY <1>3, <2>1, <2>3, <2>4, RemoveNoteIs
    <3>2. s.open
      BY <2>1, <2>4, NoSessionIs DEF SessionInv
    <3>3. \A m \in u.notes : m \in s.notes /\ m.id # n.id
      BY <3>1, WithoutIs
    <3>4. \A m \in noteRows' : m \in noteRows /\ m.id # n.id
      BY WithoutIs
    <3>5. \A m \in noteRows : m.id # n.id => m \in noteRows'
      BY WithoutIs
    <3>6. ASSUME NEW m \in noteRows', m.of \in u.knows, m.of \notin u.late PROVE m \in u.notes
      BY <2>1, <3>1, <3>4, <3>6, WithoutIs DEF SessionInv
    <3>7. \A m \in u.notes : /\ m.of = own[m.id] /\ m.id <= madeNotes' /\ m.of \in u.knows /\ m.id \notin wiped'
                             /\ m.id \notin halfErased' => m \in noteRows'
      BY <2>1, <3>1, <3>3, <3>5 DEF SessionInv
    <3>8. \A m \in u.shown : /\ m.of = own[m.id] /\ m.id <= madeNotes' /\ (m.of \in u.knows \/ m.of \in forgotten')
                             /\ m.id \in wiped' => m.id \in u.gone \/ m.of \in forgotten'
      BY <2>1, <3>1 DEF SessionInv
    <3>9. \A p \in u.knows : p \notin newcomers' /\ p \notin forgotten'
      BY <2>1, <3>1 DEF SessionInv
    <3> QED
      BY <3>1, <3>2, <3>6, <3>7, <3>8, <3>9 DEF SessionInv
  <2>5. CASE n.of \notin s.knows
    <3>1. u = s
      <4>1. o # t
        BY <1>2, <2>5
      <4>2. o \notin Peers(t, n.of)
        BY <2>5 DEF Peers
      <4> QED
        BY <2>2, <4>1, <4>2
    <3>2. \A m \in s.notes : m.id # n.id
      BY <1>2, <2>1, <2>5 DEF SessionInv
    <3>3. \A m \in s.shown : m.id # n.id
      BY <1>2, <2>1, <2>5 DEF SessionInv
    <3>4. \A m : m \in noteRows' <=> m \in noteRows /\ m.id # n.id
      BY WithoutIs
    <3> QED
      BY <2>1, <3>1, <3>2, <3>3, <3>4 DEF SessionInv
  <2> QED
    BY <2>4, <2>5
<1> QED
  BY <1>4, <1>5, <1>6 DEF SessionsInv, TellRemove

\* Rows are gone that the sessions still have, which is reported as a failure.
LEMMA HalfErasedKeepsInv ==
  ASSUME PeopleInv, NEW own, RowsInv(own), SessionsInv(own), NEW ids \in SUBSET NoteIds,
         noteRows' \subseteq noteRows, \A n \in noteRows : n \in noteRows' \/ n.id \in ids,
         halfErased' = halfErased \cup ids, faceGallery' \subseteq faceGallery,
         UNCHANGED <<newcomers, madeNotes, wiped, forgotten, lab>>
  PROVE  PeopleInv' /\ RowsInv(own)' /\ SessionsInv(own)'
<1>1. PeopleInv'
  BY DEF PeopleInv
<1>2. RowsInv(own)'
  BY DEF RowsInv
<1>3. ASSUME NEW o \in NoteTab, NEW s, s = lab'[o] PROVE SessionInv(s, own)'
  <2>1. SessionInv(s, own)
    BY <1>3 DEF SessionsInv
  <2>2. \A m \in s.notes : m.id \notin halfErased' => m \in noteRows'
    BY <2>1 DEF SessionInv
  <2>3. \A m \in noteRows' : m.of \in s.knows /\ m.of \notin s.late => m \in s.notes
    BY <2>1 DEF SessionInv
  <2> QED
    BY <2>1, <2>2, <2>3 DEF SessionInv
<1> QED
  BY <1>1, <1>2, <1>3 DEF SessionsInv

\* A person is forgotten: everywhere.
LEMMA ForgottenKeepsInv ==
  ASSUME PeopleInv, NEW own, RowsInv(own), SessionsInv(own), NEW p \in NotePerson, p \notin newcomers,
         noteRows' = noteRows \ NotesOf(noteRows, p), faceGallery' = faceGallery \ {p}, forgotten' = forgotten \cup {p},
         lab' = [o \in NoteTab |-> [lab[o] EXCEPT !.knows = @ \ {p}, !.late = @ \ {p}, !.notes = @ \ NotesOf(@, p),
                                                  !.heard = {k \in @ : k[1] # p}]],
         UNCHANGED <<newcomers, madeNotes, wiped, halfErased>>
  PROVE  PeopleInv' /\ RowsInv(own)' /\ SessionsInv(own)'
<1>1. PeopleInv'
  BY DEF PeopleInv
<1>2. \A n : n \in noteRows' <=> n \in noteRows /\ n.of # p
  BY DEF NotesOf
<1>3. RowsInv(own)'
  BY <1>2 DEF RowsInv
<1>4. ASSUME NEW o \in NoteTab, NEW u, u = lab'[o] PROVE SessionInv(u, own)'
  <2> DEFINE s == lab[o]
  <2>1. SessionInv(s, own) /\ s \in LabSession
    BY DEF SessionsInv, SessionInv
  <2>2. /\ u \in LabSession /\ u.open = s.open /\ u.knows = s.knows \ {p} /\ u.late = s.late \ {p}
        /\ u.shown = s.shown /\ u.notes = s.notes \ NotesOf(s.notes, p) /\ u.gone = s.gone
        /\ s = NoLabSession => u = NoLabSession
    <3>1. u = Forgets(s, p)
      BY <1>4 DEF Forgets
    <3> HIDE DEF s
    <3>2. HasForgotten(u, s, p)
      BY <2>1, <3>1, ForgetsIs
    <3> QED
      BY <3>2 DEF HasForgotten
  <2>3. \A n : n \in u.notes <=> n \in s.notes /\ n.of # p
    BY <2>2 DEF NotesOf
  <2>4. \A n \in noteRows' : n.of \in u.knows /\ n.of \notin u.late => n \in u.notes
    BY <1>2, <2>1, <2>2, <2>3 DEF SessionInv
  <2>5. \A m \in u.notes : /\ m.of = own[m.id] /\ m.id <= madeNotes' /\ m.of \in u.knows /\ m.id \notin wiped'
                           /\ m.id \notin halfErased' => m \in noteRows'
    BY <1>2, <2>1, <2>2, <2>3 DEF SessionInv
  <2>6. \A m \in u.shown : /\ m.of = own[m.id] /\ m.id <= madeNotes' /\ (m.of \in u.knows \/ m.of \in forgotten')
                           /\ m.id \in wiped' => m.id \in u.gone \/ m.of \in forgotten'
    BY <2>1, <2>2 DEF SessionInv
  <2>7. (\A q \in u.knows : q \notin newcomers' /\ q \notin forgotten') /\ (~u.open => u = NoLabSession)
    BY <2>1, <2>2 DEF SessionInv
  <2> QED
    BY <2>2, <2>4, <2>5, <2>6, <2>7 DEF SessionInv
<1> QED
  BY <1>1, <1>3, <1>4 DEF SessionsInv

-----------------------------------------------------------------------------
(* Sessions that begin, end and hear of somebody. *)

\* The sessions alone change, and who is enrolled.
LEMMA SessionsKeepInv ==
  ASSUME PeopleInv, NEW own, RowsInv(own), UNCHANGED <<noteRows, madeNotes, wiped, halfErased, forgotten>>,
         newcomers' \subseteq newcomers, faceGallery' \subseteq NotePerson,
         faceGallery' \cap newcomers' = {}, faceGallery' \cap forgotten = {},
         lab' = [o \in NoteTab |-> lab'[o]], \A o \in NoteTab : \A u : u = lab'[o] => SessionInv(u, own)'
  PROVE  PeopleInv' /\ RowsInv(own)' /\ SessionsInv(own)'
<1>1. PeopleInv'
  BY DEF PeopleInv
<1>2. RowsInv(own)'
  BY DEF RowsInv
<1> QED
  BY <1>1, <1>2 DEF SessionsInv

LEMMA ASessionStays ==
  ASSUME NEW own, NEW s, SessionInv(s, own), UNCHANGED <<noteRows, madeNotes, wiped, halfErased, forgotten>>,
         newcomers' \subseteq newcomers
  PROVE  SessionInv(s, own)'
BY DEF SessionInv

LEMMA NoSessionFits ==
  ASSUME NEW own
  PROVE  SessionInv(NoLabSession, own)'
BY NoSessionIs DEF SessionInv

LEMMA OpenTabKeepsInv ==
  ASSUME PeopleInv, NEW own, RowsInv(own), SessionsInv(own), NEW t \in NoteTab, OpenTab(t)
  PROVE  PeopleInv' /\ RowsInv(own)' /\ SessionsInv(own)'
<1> DEFINE notes == {n \in noteRows : n.of \in faceGallery}
<1>1. /\ lab' = [lab EXCEPT ![t] = [NoLabSession EXCEPT !.open = TRUE, !.knows = faceGallery, !.notes = notes, !.shown = notes]]
      /\ UNCHANGED <<faceGallery, newcomers, noteRows, madeNotes, wiped, halfErased, forgotten>>
  BY DEF OpenTab
<1>2. notes \in SUBSET NoteRow /\ faceGallery \in SUBSET NotePerson
  BY DEF RowsInv, PeopleInv
<1>3. ASSUME NEW o \in NoteTab, NEW u, u = lab'[o] PROVE SessionInv(u, own)'
  <2>1. CASE o = t
    <3>1. u = Opened(faceGallery, notes)
      BY <1>1, <1>3, <2>1 DEF SessionsInv, Opened
    <3>2. \A n : n \in notes <=> n \in noteRows /\ n.of \in faceGallery
      OBVIOUS
    <3> HIDE DEF notes
    <3>3. PICK knows : knows = faceGallery
      OBVIOUS
    <3>4. /\ u \in LabSession /\ u.open = TRUE /\ u.knows = knows /\ u.late = {}
          /\ u.shown = notes /\ u.notes = notes /\ u.gone = {}
      <4>1. HasOpened(Opened(knows, notes), knows, notes)
        BY <1>2, <3>3, OpensIs
      <4> QED
        BY <3>1, <3>3, <4>1 DEF HasOpened
    <3>5. \A n \in notes : /\ n.of = own[n.id] /\ n.id <= madeNotes /\ n.of \in faceGallery /\ n.id \notin wiped /\ n \in noteRows
      BY <3>2 DEF RowsInv
    <3>6. \A q \in faceGallery : q \notin newcomers /\ q \notin forgotten
      BY DEF PeopleInv
    <3>7. (\A q \in u.knows : q \notin newcomers' /\ q \notin forgotten') /\ (~u.open => u = NoLabSession)
      BY <1>1, <3>3, <3>4, <3>6
    <3>8. \A n \in u.notes : /\ n.of = own[n.id] /\ n.id <= madeNotes' /\ n.of \in u.knows /\ n.id \notin wiped'
                             /\ n.id \notin halfErased' => n \in noteRows'
      BY <1>1, <3>3, <3>4, <3>5
    <3>9. \A n \in u.shown : /\ n.of = own[n.id] /\ n.id <= madeNotes' /\ (n.of \in u.knows \/ n.of \in forgotten')
                             /\ n.id \in wiped' => n.id \in u.gone \/ n.of \in forgotten'
      BY <1>1, <3>3, <3>4, <3>5
    <3>10. \A n \in noteRows' : n.of \in u.knows /\ n.of \notin u.late => n \in u.notes
      BY <1>1, <3>2, <3>3, <3>4
    <3> QED
      BY <3>4, <3>7, <3>8, <3>9, <3>10 DEF SessionInv
  <2>2. CASE o # t
    <3>1. u = lab[o] /\ SessionInv(u, own)
      BY <1>1, <1>3, <2>2 DEF SessionsInv
    <3> QED
      BY <1>1, <3>1, ASessionStays
  <2> QED
    BY <2>1, <2>2
<1>4. lab' = [o \in NoteTab |-> lab'[o]]
  BY <1>1 DEF SessionsInv
<1> QED
  BY <1>1, <1>3, <1>4, SessionsKeepInv DEF PeopleInv

LEMMA SessionsEndKeepsInv ==
  ASSUME PeopleInv, NEW own, RowsInv(own), SessionsInv(own), SessionsEnd
  PROVE  PeopleInv' /\ RowsInv(own)' /\ SessionsInv(own)'
<1>1. PICK over \in SUBSET OpenTabs :
        /\ lab' = [t \in NoteTab |-> IF t \in over THEN NoLabSession ELSE lab[t]]
        /\ UNCHANGED <<faceGallery, newcomers, noteRows, madeNotes, wiped, halfErased, forgotten>>
  BY DEF SessionsEnd
<1>2. ASSUME NEW o \in NoteTab, NEW u, u = lab'[o] PROVE SessionInv(u, own)'
  <2>1. u = NoLabSession \/ (u = lab[o] /\ SessionInv(u, own))
    BY <1>1, <1>2 DEF SessionsInv
  <2> QED
    BY <1>1, <2>1, NoSessionFits, ASessionStays
<1> QED
  BY <1>1, <1>2, SessionsKeepInv DEF PeopleInv

\* A session hears of a person about whom there is nothing, or late.
LEMMA ASessionLearns ==
  ASSUME NEW own, NEW s, SessionInv(s, own), UNCHANGED <<noteRows, madeNotes, wiped, halfErased, forgotten>>,
         newcomers' \subseteq newcomers, s.open, NEW p \in NotePerson, p \notin newcomers', p \notin forgotten,
         NEW u, u \in LabSession, u.open = s.open, u.knows = s.knows \cup {p}, u.shown = s.shown, u.notes = s.notes, u.gone = s.gone,
         s.late \subseteq u.late, p \in u.late \/ \A n \in noteRows : n.of # p
  PROVE  SessionInv(u, own)'
<1>1. (\A q \in u.knows : q \notin newcomers' /\ q \notin forgotten') /\ u.open
  BY DEF SessionInv
<1>2. \A n \in u.notes : /\ n.of = own[n.id] /\ n.id <= madeNotes' /\ n.of \in u.knows /\ n.id \notin wiped'
                         /\ n.id \notin halfErased' => n \in noteRows'
  BY DEF SessionInv
<1>3. \A n \in u.shown : /\ n.of = own[n.id] /\ n.id <= madeNotes' /\ (n.of \in u.knows \/ n.of \in forgotten')
                         /\ n.id \in wiped' => n.id \in u.gone \/ n.of \in forgotten'
  BY DEF SessionInv
<1>4. \A n \in noteRows' : n.of \in u.knows /\ n.of \notin u.late => n \in u.notes
  BY DEF SessionInv
<1> QED
  BY <1>1, <1>2, <1>3, <1>4 DEF SessionInv

LEMMA EnrollKeepsInv ==
  ASSUME PeopleInv, NEW own, RowsInv(own), SessionsInv(own), NEW t \in NoteTab, NEW p \in NotePerson, EnrollPerson(t, p)
  PROVE  PeopleInv' /\ RowsInv(own)' /\ SessionsInv(own)'
<1>1. /\ lab[t].open /\ p \in newcomers /\ newcomers' = newcomers \ {p} /\ faceGallery' = faceGallery \cup {p}
      /\ lab' = [lab EXCEPT ![t].knows = @ \cup {p}]
      /\ UNCHANGED <<noteRows, madeNotes, wiped, halfErased, forgotten>>
  BY DEF EnrollPerson
<1>2. p \notin forgotten /\ p \notin newcomers' /\ newcomers' \subseteq newcomers /\ \A n \in noteRows : n.of # p
  BY <1>1 DEF PeopleInv, RowsInv
<1>3. ASSUME NEW o \in NoteTab, NEW u, u = lab'[o] PROVE SessionInv(u, own)'
  <2> DEFINE s == lab[o]
  <2>1. SessionInv(s, own) /\ s \in LabSession
    BY DEF SessionsInv, SessionInv
  <2>2. CASE o = t
    <3>1. u = Learns(s, p) /\ s.open
      BY <1>1, <1>3, <2>2 DEF SessionsInv, Learns
    <3> HIDE DEF s
    <3>3. /\ u \in LabSession /\ u.open = s.open /\ u.knows = s.knows \cup {p}
          /\ u.late = s.late \/ u.late = s.late \cup {p}
          /\ u.shown = s.shown /\ u.notes = s.notes /\ u.gone = s.gone
      <4>1. HasLearned(u, s, p)
        BY <2>1, <3>1, LearnsIs
      <4> QED
        BY <4>1 DEF HasLearned
    <3>2. /\ u \in LabSession /\ u.open = s.open /\ u.knows = s.knows \cup {p} /\ s.late \subseteq u.late
          /\ u.shown = s.shown /\ u.notes = s.notes /\ u.gone = s.gone
      BY <3>3
    <3> QED
      BY <1>1, <1>2, <2>1, <3>1, <3>2, ASessionLearns
  <2>3. CASE o # t
    <3>1. u = s
      BY <1>1, <1>3, <2>3 DEF SessionsInv
    <3> QED
      BY <1>1, <1>2, <2>1, <3>1, ASessionStays
  <2> QED
    BY <2>2, <2>3
<1>4. lab' = [o \in NoteTab |-> lab'[o]]
  BY <1>1 DEF SessionsInv
<1>5. faceGallery' \subseteq NotePerson /\ faceGallery' \cap newcomers' = {} /\ faceGallery' \cap forgotten = {}
  BY <1>1, <1>2 DEF PeopleInv
<1> QED
  BY <1>1, <1>2, <1>3, <1>4, <1>5, SessionsKeepInv

LEMMA RenameKeepsInv ==
  ASSUME PeopleInv, NEW own, RowsInv(own), SessionsInv(own), NEW p \in NotePerson, RenamePerson(p)
  PROVE  PeopleInv' /\ RowsInv(own)' /\ SessionsInv(own)'
<1>1. /\ p \in faceGallery
      /\ lab' = [t \in NoteTab |-> IF t \notin OpenTabs \/ p \in lab[t].knows THEN lab[t]
                                   ELSE [lab[t] EXCEPT !.knows = @ \cup {p}, !.late = @ \cup {p}]]
      /\ UNCHANGED <<faceGallery, newcomers, noteRows, madeNotes, wiped, halfErased, forgotten>>
  BY DEF RenamePerson
<1>2. p \notin forgotten /\ p \notin newcomers'
  BY <1>1 DEF PeopleInv
<1>3. ASSUME NEW o \in NoteTab, NEW u, u = lab'[o] PROVE SessionInv(u, own)'
  <2> DEFINE s == lab[o]
  <2>1. SessionInv(s, own) /\ s \in LabSession
    BY DEF SessionsInv, SessionInv
  <2>2. CASE ~(o \notin OpenTabs \/ p \in s.knows)
    <3>1. u = LearnsLate(s, p)
      BY <1>1, <1>3, <2>2 DEF LearnsLate
    <3>0. s.open
      BY <2>2 DEF OpenTabs
    <3> HIDE DEF s
    <3>2. /\ u \in LabSession /\ u.open = s.open /\ u.knows = s.knows \cup {p} /\ u.late = s.late \cup {p}
          /\ u.shown = s.shown /\ u.notes = s.notes /\ u.gone = s.gone
      <4>1. HasLearned(u, s, p) /\ u.late = s.late \cup {p}
        BY <2>1, <3>1, LearnsIs
      <4> QED
        BY <4>1 DEF HasLearned
    <3> QED
      BY <1>1, <1>2, <2>1, <3>0, <3>2, ASessionLearns
  <2>3. CASE o \notin OpenTabs \/ p \in s.knows
    <3>1. u = s
      BY <1>1, <1>3, <2>3
    <3> QED
      BY <1>1, <2>1, <3>1, ASessionStays
  <2> QED
    BY <2>2, <2>3
<1> QED
  BY <1>1, <1>3, SessionsKeepInv DEF PeopleInv

-----------------------------------------------------------------------------
(* What is remembered. *)

LEMMA DigestsStay ==
  ASSUME DigestInv, UNCHANGED <<digests, savedTimes, forgotten>>
  PROVE  DigestInv'
BY DEF DigestInv

\* A note that is written may leave a fingerprint.
LEMMA WritingKeepsDigests ==
  ASSUME DigestInv, NEW n \in NoteRow, n.of \notin forgotten, WriteNote(n), UNCHANGED <<savedTimes, forgotten>>
  PROVE  DigestInv'
<1>1. n.of \in NotePerson /\ (n.heard # Typed => n.heard \in Saying)
  BY NoteRowIs
<1>2. digests' = digests \/ (n.heard # Typed /\ digests' = digests \cup {<<n.of, n.heard>>})
  BY DEF WriteNote
<1> QED
  BY <1>1, <1>2 DEF DigestInv

LEMMA RememberingKeepsDigests ==
  ASSUME DigestInv, NEW p \in NotePerson, NEW s \in Saying, p \notin forgotten, <<p, s>> \notin digests,
         digests' = digests \cup {<<p, s>>}, savedTimes' = [savedTimes EXCEPT ![<<p, s>>] = @ + 1], UNCHANGED forgotten
  PROVE  DigestInv'
<1>1. savedTimes[<<p, s>>] = 0
  BY DEF DigestInv
<1>2. savedTimes' = [savedTimes EXCEPT ![<<p, s>>] = 1]
  BY <1>1
<1> QED
  BY <1>2 DEF DigestInv

LEMMA WipingKeepsDigests ==
  ASSUME DigestInv, NEW p \in NotePerson, digests' = {k \in digests : k[1] # p},
         \/ forgotten' = forgotten \cup {p} /\ UNCHANGED savedTimes
         \/ UNCHANGED forgotten /\ savedTimes' = [k \in DOMAIN savedTimes |-> IF k[1] = p THEN 0 ELSE savedTimes[k]]
  PROVE  DigestInv'
<1>1. \A q \in NotePerson, s \in Saying : <<q, s>> \in digests' <=> <<q, s>> \in digests /\ q # p
  OBVIOUS
<1>2. digests' \subseteq digests
  OBVIOUS
<1>3. savedTimes' \in [NotePerson \X Saying -> 0..1]
  BY DEF DigestInv
<1>4. ASSUME NEW q \in NotePerson, NEW s \in Saying, savedTimes'[<<q, s>>] = 1
      PROVE  <<q, s>> \in digests' \/ q \in forgotten'
  <2>1. CASE forgotten' = forgotten \cup {p} /\ UNCHANGED savedTimes
    BY <1>1, <1>4, <2>1 DEF DigestInv
  <2>2. CASE UNCHANGED forgotten /\ savedTimes' = [k \in DOMAIN savedTimes |-> IF k[1] = p THEN 0 ELSE savedTimes[k]]
    <3>1. <<q, s>> \in DOMAIN savedTimes /\ <<q, s>>[1] = q
      BY DEF DigestInv
    <3>2. q # p /\ savedTimes[<<q, s>>] = 1
      BY <1>4, <2>2, <3>1
    <3> QED
      BY <1>1, <2>2, <3>2 DEF DigestInv
  <2> QED
    BY <2>1, <2>2
<1>5. ASSUME NEW q \in forgotten', NEW s \in Saying PROVE <<q, s>> \notin digests'
  BY <1>2 DEF DigestInv
<1> QED
  BY <1>2, <1>3, <1>4, <1>5 DEF DigestInv

-----------------------------------------------------------------------------
(* The actions. *)

LEMMA SaveNoteKeepsInv ==
  ASSUME NotesInv, NEW own, RowsInv(own), SessionsInv(own), NEW t \in NoteTab, NEW n, MayBe(own, n), SaveNote(t, n),
         madeNotes' \in 0..MaxNotes, madeNotes <= madeNotes', n.id <= madeNotes',
         UNCHANGED <<faceGallery, newcomers, wiped, forgotten, savedTimes>>
  PROVE  NotesInv'
<1>1. lab[t].open /\ n.of \in lab[t].knows /\ WriteNote(n) /\ TellUpsert(t, n) /\ halfErased' = halfErased \ {n.id}
  BY DEF SaveNote
<1>2. n \in NoteRow /\ n.of \notin forgotten
  BY DEF MayBe
<1>3. PutDown(n)
  BY <1>1 DEF PutDown, WriteNote
<1>4. lab' = [o \in NoteTab |-> IF o \in {t} \cup Peers(t, n.of) THEN Upsert(lab[o], n) ELSE lab[o]]
  BY <1>1 DEF TellUpsert
<1>5. ASSUME NEW o \in NoteTab
      PROVE  IF o \in {t} \cup Peers(t, n.of) THEN Has(lab'[o], lab[o], n) ELSE lab'[o] = lab[o]
  <2>1. lab[o] \in LabSession
    BY DEF SessionsInv, SessionInv
  <2>2. Has(Upsert(lab[o], n), lab[o], n)
    BY <1>2, <2>1, UpsertIs
  <2> QED
    BY <1>4, <2>2
<1>6. lab' = [o \in NoteTab |-> lab'[o]]
  BY <1>4
<1>7. PeopleInv' /\ RowsInv(With(own, n))' /\ SessionsInv(With(own, n))'
  BY <1>1, <1>3, <1>5, <1>6, WrittenKeepsInv DEF NotesInv
<1>8. DigestInv'
  BY <1>1, <1>2, WritingKeepsDigests DEF NotesInv
<1>9. \E f : RowsInv(f)' /\ SessionsInv(f)'
  BY <1>7
<1> QED
  BY <1>7, <1>8, <1>9 DEF NotesInv

LEMMA NextNote ==
  ASSUME NotesInv, madeNotes < MaxNotes
  PROVE  /\ madeNotes + 1 \in NoteIds /\ madeNotes + 1 \in 0..MaxNotes /\ madeNotes <= madeNotes + 1
         /\ madeNotes + 1 > madeNotes /\ madeNotes + 1 <= madeNotes + 1 /\ madeNotes + 1 \notin wiped
<1>1. madeNotes \in 0..MaxNotes /\ \A i \in wiped : i <= madeNotes
  BY DEF NotesInv, PeopleInv
<1>2. MaxNotes \in Nat
  BY NoteIdsAre
<1>3. ~(madeNotes + 1 <= madeNotes)
  BY <1>1, <1>2
<1> QED
  BY <1>1, <1>2, <1>3 DEF NoteIds

LEMMA KnownIs ==
  ASSUME NEW own, SessionsInv(own), NEW t \in NoteTab, NEW p \in lab[t].knows
  PROVE  p \in NotePerson /\ p \notin newcomers /\ p \notin forgotten
<1>1. SessionInv(lab[t], own) /\ lab[t] \in LabSession
  BY DEF SessionsInv, SessionInv
<1> QED
  BY <1>1, SessionIs DEF SessionInv

LEMMA NewNoteKeepsInv ==
  ASSUME NotesInv, NEW t \in NoteTab, NEW p \in NotePerson, NEW text \in Saying, NewNote(t, p, text)
  PROVE  NotesInv'
<1>1. PICK own : RowsInv(own) /\ SessionsInv(own)
  BY DEF NotesInv
<1> DEFINE i == madeNotes + 1
           n == [id |-> i, of |-> p, text |-> text, heard |-> Typed]
<1>2. /\ madeNotes < MaxNotes /\ madeNotes' = i /\ SaveNote(t, n)
      /\ UNCHANGED <<faceGallery, newcomers, noteTroubles, wiped, forgotten, savedTimes>>
  BY DEF NewNote
<1>3. i \in NoteIds /\ i \in 0..MaxNotes /\ madeNotes <= i /\ i > madeNotes /\ i <= i /\ i \notin wiped
  BY <1>2, NextNote
<1>4. n \in NoteRow /\ n.id = i /\ n.of = p
  BY <1>3, ANoteIs
<1> HIDE DEF n, i
<1>5. p \notin newcomers /\ p \notin forgotten
  BY <1>1, <1>2, <1>4, KnownIs DEF SaveNote
<1>6. MayBe(own, n)
  BY <1>3, <1>4, <1>5 DEF MayBe
<1> QED
  BY <1>1, <1>2, <1>3, <1>4, <1>6, SaveNoteKeepsInv

LEMMA EditNoteKeepsInv ==
  ASSUME NotesInv, NEW t \in NoteTab, NEW n \in lab[t].shown, NEW text \in Saying, EditNote(t, n, text)
  PROVE  NotesInv'
<1>1. PICK own : RowsInv(own) /\ SessionsInv(own)
  BY DEF NotesInv
<1>2. SessionInv(lab[t], own) /\ lab[t] \in LabSession
  BY <1>1 DEF SessionsInv, SessionInv
<1>3. n \in NoteRow
  BY <1>2, SessionIs
<1> DEFINE m == [n EXCEPT !.text = text]
<1>4. m \in NoteRow /\ m.id = n.id /\ m.of = n.of
  BY <1>3, AnEditIs
<1>5. SaveNote(t, m) /\ UNCHANGED <<faceGallery, newcomers, madeNotes, noteTroubles, wiped, forgotten, savedTimes>>
  BY DEF EditNote
<1> HIDE DEF m
<1>6. n.of \in lab[t].knows /\ n.id \notin lab[t].gone
  BY <1>4, <1>5 DEF SaveNote
<1>7. n.of \notin newcomers /\ n.of \notin forgotten
  BY <1>1, <1>6, KnownIs
<1>8. n.of = own[n.id] /\ n.id <= madeNotes /\ n.id \notin wiped
  BY <1>2, <1>6, <1>7 DEF SessionInv
<1>9. MayBe(own, m)
  BY <1>4, <1>7, <1>8 DEF MayBe
<1>10. madeNotes' \in 0..MaxNotes /\ madeNotes <= madeNotes' /\ m.id <= madeNotes'
  <2>1. madeNotes \in 0..MaxNotes /\ madeNotes' = madeNotes
    BY <1>5 DEF NotesInv, PeopleInv
  <2>2. madeNotes <= madeNotes
    BY <2>1, NoteIdsAre
  <2> QED
    BY <1>4, <1>8, <2>1, <2>2
<1> QED
  BY <1>1, <1>5, <1>9, <1>10, SaveNoteKeepsInv

LEMMA RememberKeepsInv ==
  ASSUME NotesInv, NEW t \in NoteTab, NEW p \in NotePerson, NEW s \in Saying, RememberConversation(t, p, s)
  PROVE  NotesInv'
<1>1. PICK own : RowsInv(own) /\ SessionsInv(own)
  BY DEF NotesInv
<1> DEFINE i == madeNotes + 1
<1>n. PICK n : n = [id |-> i, of |-> p, text |-> s, heard |-> s]
  OBVIOUS
<1>2. /\ p \in lab[t].knows /\ ~Remembered(t, p, s) /\ madeNotes < MaxNotes /\ madeNotes' = i /\ WriteNote(n)
      /\ lab' = [o \in NoteTab |->
                   IF o = t THEN [Upsert(lab[o], n) EXCEPT !.heard = @ \cup {<<p, s>>}]
                   ELSE IF o \in Peers(t, p) THEN Upsert(lab[o], n) ELSE lab[o]]
      /\ savedTimes' = [savedTimes EXCEPT ![<<p, s>>] = @ + 1]
      /\ UNCHANGED <<faceGallery, newcomers, noteTroubles, wiped, halfErased, forgotten>>
  BY <1>n DEF RememberConversation
<1>3. i \in NoteIds /\ i \in 0..MaxNotes /\ madeNotes <= i /\ i > madeNotes /\ i <= i /\ i \notin wiped
  BY <1>2, NextNote
<1>4. n \in NoteRow /\ n.id = i /\ n.of = p /\ n.heard = s
  BY <1>3, <1>n, ANoteIs
<1> HIDE DEF i
<1>5. p \notin newcomers /\ p \notin forgotten
  BY <1>1, <1>2, KnownIs
<1>6. MayBe(own, n)
  BY <1>3, <1>4, <1>5 DEF MayBe
<1>7. PutDown(n)
  BY <1>2, <1>3, <1>4 DEF PutDown, WriteNote
<1>8. ASSUME NEW o \in NoteTab
      PROVE  IF o \in {t} \cup Peers(t, n.of) THEN Has(lab'[o], lab[o], n) ELSE lab'[o] = lab[o]
  <2>1. lab[o] \in LabSession
    BY <1>1 DEF SessionsInv, SessionInv
  <2>2. Has(Upsert(lab[o], n), lab[o], n)
    BY <1>4, <2>1, UpsertIs
  <2> DEFINE v == Upsert(lab[o], n)
             u == [v EXCEPT !.heard = @ \cup {<<p, s>>}]
  <2> HIDE DEF v
  <2>3. Has(u, lab[o], n)
    BY <1>4, <2>1, <2>2, HeardIs DEF v
  <2>4. o = t => lab'[o] = u
    BY <1>2 DEF v
  <2> HIDE DEF u
  <2> QED
    BY <1>2, <1>4, <2>2, <2>3, <2>4
<1>9. lab' = [o \in NoteTab |-> lab'[o]]
  BY <1>2
<1>10. PeopleInv' /\ RowsInv(With(own, n))' /\ SessionsInv(With(own, n))'
  <2>1. n.of \in lab[t].knows /\ PeopleInv
    BY <1>2, <1>4 DEF NotesInv
  <2> QED
    BY <1>1, <1>6, <1>7, <1>8, <1>9, <2>1, WrittenKeepsInv
<1>11. DigestInv'
  <2>1. s # Typed
    BY NoteIdsAre
  <2>2. digests' = digests \cup {<<p, s>>}
    BY <1>2, <1>4, <2>1 DEF WriteNote
  <2>3. <<p, s>> \notin digests
    BY <1>2 DEF Remembered
  <2> QED
    BY <1>2, <1>5, <2>2, <2>3, RememberingKeepsDigests DEF NotesInv
<1>12. \E f : RowsInv(f)' /\ SessionsInv(f)'
  BY <1>10
<1> QED
  BY <1>10, <1>11, <1>12 DEF NotesInv

LEMMA DeleteNoteKeepsInv ==
  ASSUME NotesInv, NEW t \in NoteTab, NEW n, DeleteNote(t, n)
  PROVE  NotesInv'
<1>1. PICK own : RowsInv(own) /\ SessionsInv(own)
  BY DEF NotesInv
<1>2. n \in lab[t].notes /\ noteRows' = Without(noteRows, n.id)
      /\ UNCHANGED <<faceGallery, newcomers, digests, madeNotes, forgotten, savedTimes>>
  BY DEF DeleteNote
<1>3. n \in NoteRow /\ n.id \in NoteIds
  <2>1. lab[t] \in LabSession
    BY <1>1 DEF SessionsInv, SessionInv
  <2> QED
    BY <1>2, <2>1, SessionIs, NoteRowIs
<1>4. DigestInv'
  BY <1>2, DigestsStay DEF NotesInv
<1>5. CASE TellRemove(t, n) /\ wiped' = wiped \cup {n.id} /\ halfErased' = halfErased \ {n.id}
  <2>1. PeopleInv' /\ RowsInv(own)' /\ SessionsInv(own)'
    BY <1>1, <1>2, <1>5, RemovedKeepsInv DEF NotesInv
  <2> QED
    BY <1>4, <2>1 DEF NotesInv
<1>6. CASE halfErased' = halfErased \cup {n.id} /\ UNCHANGED <<lab, wiped>>
  <2>1. \A m \in noteRows : m \in noteRows' \/ m.id \in {n.id}
    BY <1>2, WithoutIs
  <2>2. noteRows' \subseteq noteRows /\ {n.id} \in SUBSET NoteIds /\ faceGallery' \subseteq faceGallery
    BY <1>2, <1>3, WithoutIs
  <2>3. PeopleInv' /\ RowsInv(own)' /\ SessionsInv(own)'
    BY <1>1, <1>2, <1>6, <2>1, <2>2, HalfErasedKeepsInv DEF NotesInv
  <2> QED
    BY <1>4, <2>3 DEF NotesInv
<1> QED
  BY <1>5, <1>6 DEF DeleteNote

LEMMA ForgetPersonKeepsInv ==
  ASSUME NotesInv, NEW t \in NoteTab, NEW p \in NotePerson, ForgetPerson(t, p)
  PROVE  NotesInv'
<1>1. PICK own : RowsInv(own) /\ SessionsInv(own)
  BY DEF NotesInv
<1>2. p \in lab[t].knows /\ faceGallery' = faceGallery \ {p} /\ UNCHANGED <<newcomers, madeNotes, wiped>>
  BY DEF ForgetPerson
<1>3. p \notin newcomers
  BY <1>1, <1>2, KnownIs
<1>4. CASE /\ WipePerson(p) /\ forgotten' = forgotten \cup {p}
           /\ lab' = [o \in NoteTab |-> [lab[o] EXCEPT !.knows = @ \ {p}, !.late = @ \ {p}, !.notes = @ \ NotesOf(@, p),
                                                       !.heard = {k \in @ : k[1] # p}]]
           /\ UNCHANGED <<halfErased, savedTimes>>
  <2>1. PeopleInv' /\ RowsInv(own)' /\ SessionsInv(own)'
    BY <1>1, <1>2, <1>3, <1>4, ForgottenKeepsInv DEF NotesInv, WipePerson
  <2>2. DigestInv'
    BY <1>4, WipingKeepsDigests DEF NotesInv, WipePerson
  <2> QED
    BY <2>1, <2>2 DEF NotesInv
<1>5. CASE UNCHANGED <<noteRows, digests, lab, halfErased, savedTimes, forgotten>>
  <2>1. DigestInv'
    BY <1>5, DigestsStay DEF NotesInv
  <2>2. halfErased' = halfErased \cup {} /\ {} \in SUBSET NoteIds /\ faceGallery' \subseteq faceGallery /\ noteRows' \subseteq noteRows
        /\ \A n \in noteRows : n \in noteRows' \/ n.id \in {}
    BY <1>2, <1>5
  <2>3. PeopleInv' /\ RowsInv(own)' /\ SessionsInv(own)'
    BY <1>1, <1>2, <1>5, <2>2, HalfErasedKeepsInv DEF NotesInv
  <2> QED
    BY <2>1, <2>3 DEF NotesInv
<1>6. CASE /\ WipePerson(p) /\ UNCHANGED <<lab, forgotten>>
           /\ halfErased' = halfErased \cup {n.id : n \in NotesOf(noteRows, p)}
           /\ savedTimes' = [k \in DOMAIN savedTimes |-> IF k[1] = p THEN 0 ELSE savedTimes[k]]
  <2> DEFINE ids == {n.id : n \in NotesOf(noteRows, p)}
  <2>1. DigestInv'
    BY <1>6, WipingKeepsDigests DEF NotesInv, WipePerson
  <2>2. \A n \in noteRows : n \in noteRows' \/ n.id \in ids
    BY <1>6 DEF WipePerson
  <2>3. \A n \in NotesOf(noteRows, p) : n.id \in NoteIds
    BY <1>1, NoteRowIs DEF NotesOf, RowsInv
  <2>4. ids \in SUBSET NoteIds
    BY <2>3
  <2>5. noteRows' \subseteq noteRows /\ faceGallery' \subseteq faceGallery
    BY <1>2, <1>6 DEF WipePerson
  <2>6. halfErased' = halfErased \cup ids
    BY <1>6
  <2> HIDE DEF ids
  <2>7. PeopleInv' /\ RowsInv(own)' /\ SessionsInv(own)'
    BY <1>1, <1>2, <1>6, <2>2, <2>4, <2>5, <2>6, HalfErasedKeepsInv DEF NotesInv
  <2> QED
    BY <2>1, <2>7 DEF NotesInv
<1> QED
  BY <1>4, <1>5, <1>6 DEF ForgetPerson

-----------------------------------------------------------------------------
LEMMA NotesStart == NotesInit => NotesInv
<1> SUFFICES ASSUME NotesInit PROVE NotesInv
  OBVIOUS
<1>1. PeopleInv
  BY NoteIdsAre DEF NotesInit, PeopleInv
<1>2. DigestInv
  BY DEF NotesInit, DigestInv
<1>3. RowsInv(0)
  BY DEF NotesInit, RowsInv
<1>4. SessionsInv(0)
  BY NoSessionIs DEF NotesInit, SessionsInv, SessionInv
<1> QED
  BY <1>1, <1>2, <1>3, <1>4 DEF NotesInv

LEMMA NotesStep == NotesInv /\ [NotesNext]_noteVars => NotesInv'
<1> SUFFICES ASSUME NotesInv, [NotesNext]_noteVars PROVE NotesInv'
  OBVIOUS
<1>0. PICK own : RowsInv(own) /\ SessionsInv(own)
  BY DEF NotesInv
<1>1. CASE SessionsEnd
  <2>1. DigestInv'
    BY <1>1, DigestsStay DEF NotesInv, SessionsEnd
  <2>2. PeopleInv' /\ RowsInv(own)' /\ SessionsInv(own)'
    BY <1>0, <1>1, SessionsEndKeepsInv DEF NotesInv
  <2> QED
    BY <2>1, <2>2 DEF NotesInv
<1>2. ASSUME NEW p \in NotePerson, RenamePerson(p) PROVE NotesInv'
  <2>1. DigestInv'
    BY <1>2, DigestsStay DEF NotesInv, RenamePerson
  <2>2. PeopleInv' /\ RowsInv(own)' /\ SessionsInv(own)'
    BY <1>0, <1>2, RenameKeepsInv DEF NotesInv
  <2> QED
    BY <2>1, <2>2 DEF NotesInv
<1>3. ASSUME NEW t \in NoteTab, OpenTab(t) PROVE NotesInv'
  <2>1. DigestInv'
    BY <1>3, DigestsStay DEF NotesInv, OpenTab
  <2>2. PeopleInv' /\ RowsInv(own)' /\ SessionsInv(own)'
    BY <1>0, <1>3, OpenTabKeepsInv DEF NotesInv
  <2> QED
    BY <2>1, <2>2 DEF NotesInv
<1>4. ASSUME NEW t \in NoteTab, NEW p \in NotePerson, EnrollPerson(t, p) PROVE NotesInv'
  <2>1. DigestInv'
    BY <1>4, DigestsStay DEF NotesInv, EnrollPerson
  <2>2. PeopleInv' /\ RowsInv(own)' /\ SessionsInv(own)'
    BY <1>0, <1>4, EnrollKeepsInv DEF NotesInv
  <2> QED
    BY <2>1, <2>2 DEF NotesInv
<1>5. ASSUME NEW t \in NoteTab, NEW p \in NotePerson, ForgetPerson(t, p) PROVE NotesInv'
  BY <1>5, ForgetPersonKeepsInv
<1>6. ASSUME NEW t \in NoteTab, NEW p \in NotePerson, NEW s \in Saying, NewNote(t, p, s) \/ RememberConversation(t, p, s)
      PROVE  NotesInv'
  BY <1>6, NewNoteKeepsInv, RememberKeepsInv
<1>7. ASSUME NEW t \in NoteTab, NEW n \in lab[t].shown, DeleteNote(t, n) PROVE NotesInv'
  BY <1>7, DeleteNoteKeepsInv
<1>8. ASSUME NEW t \in NoteTab, NEW n \in lab[t].shown, NEW s \in Saying, EditNote(t, n, s) PROVE NotesInv'
  BY <1>8, EditNoteKeepsInv
<1>9. CASE UNCHANGED noteVars
  <2>1. DigestInv'
    BY <1>9, DigestsStay DEF NotesInv, noteVars
  <2>2. PeopleInv' /\ RowsInv(own)' /\ SessionsInv(own)'
    BY <1>0, <1>9 DEF NotesInv, noteVars, PeopleInv, RowsInv, SessionsInv, SessionInv
  <2> QED
    BY <2>1, <2>2 DEF NotesInv
<1> QED
  BY <1>1, <1>2, <1>3, <1>4, <1>5, <1>6, <1>7, <1>8, <1>9 DEF NotesNext

LEMMA NotesMean == NotesInv => NotesTypeOK /\ TabsAgree /\ DeletedStaysDeleted /\ RememberedOnce
<1> SUFFICES ASSUME NotesInv PROVE NotesTypeOK /\ TabsAgree /\ DeletedStaysDeleted /\ RememberedOnce
  OBVIOUS
<1>0. PICK own : RowsInv(own) /\ SessionsInv(own)
  BY DEF NotesInv
<1>1. \A t \in NoteTab : SessionInv(lab[t], own) /\ lab[t].notes \subseteq NoteRow /\ lab[t].knows \subseteq NotePerson
  <2> TAKE t \in NoteTab
  <2>1. SessionInv(lab[t], own) /\ lab[t] \in LabSession
    BY <1>0 DEF SessionsInv, SessionInv
  <2> QED
    BY <2>1, SessionIs
<1>2. NotesTypeOK
  BY <1>0, <1>1 DEF NotesInv, NotesTypeOK, PeopleInv, DigestInv, RowsInv
<1>3. TabsAgree
  BY <1>1 DEF TabsAgree, OpenTabs, NotesOf, SessionInv
<1>4. DeletedStaysDeleted
  <2>1. {n.id : n \in noteRows} \cap wiped = {}
    BY <1>0 DEF RowsInv
  <2>2. ASSUME NEW p \in forgotten PROVE p \notin faceGallery /\ NotesOf(noteRows, p) = {} /\ \A k \in digests : k[1] # p
    <3>1. p \notin faceGallery /\ NotesOf(noteRows, p) = {}
      BY <1>0 DEF NotesInv, PeopleInv, RowsInv, NotesOf
    <3>2. ASSUME NEW k \in digests PROVE k[1] # p
      BY DEF NotesInv, DigestInv
    <3> QED
      BY <3>1, <3>2
  <2>3. ASSUME NEW p \in forgotten, NEW t \in OpenTabs PROVE p \notin lab[t].knows /\ NotesOf(lab[t].notes, p) = {}
    BY <1>1 DEF OpenTabs, NotesOf, SessionInv
  <2> QED
    BY <2>1, <2>2, <2>3 DEF DeletedStaysDeleted
<1>5. RememberedOnce
  BY DEF NotesInv, DigestInv, RememberedOnce
<1> QED
  BY <1>2, <1>3, <1>4, <1>5

(* All tabs have the notes that are on disk, a note or a person whose deletion was      *)
(* confirmed stays deleted, and what was said is remembered once, whatever fails and    *)
(* however often sessions begin (tools/perception_lab/product_routes.py).               *)
THEOREM NotesAreKept == NotesSpec => [](TabsAgree /\ DeletedStaysDeleted /\ RememberedOnce)
<1> QED
  BY NotesStart, NotesStep, NotesMean, PTL DEF NotesSpec

-----------------------------------------------------------------------------
(* Clips *)

PruneType == [at : {"idle", "loop"}, left : SUBSET Moment, unlinking : SUBSET Moment]

ClipSorts ==
    /\ ClipsTypeOK
    /\ footage \subseteq Moment /\ prune \in PruneType
    /\ prune.at = "idle" => prune.unlinking = {}

(* What is true of one moment, in any state of the session... *)
MarkedFirst(m) ==
    /\ moment[m] = "none" => clip[m] = "none" /\ worker[m] = "none" /\ m \notin records
    /\ m \in records => clip[m] # "none"
    /\ m \in prune.left => clip[m] \notin Unfinished \cup {"none"}

(* ...and until the session is closed and its footage removed. *)
Accounted(m) ==
    /\ m \in prune.unlinking => clip[m] = "expired" /\ m \notin records /\ worker[m] = "done"
    /\ worker[m] \in {"queued", "encoder"} /\ m \notin cancelled => clip[m] = "encoding"
    /\ worker[m] = "encoder" => m \in footage
    /\ worker[m] = "waiting" => clip[m] # "encoding"
    /\ worker[m] = "clearing" => clip[m] \notin Unfinished
    /\ clip[m] \in Unfinished => AtWork(m) /\ m \in records
    /\ clip[m] = "saved" => worker[m] = "done"
    /\ moment[m] = "saved" => m \in records /\ clip[m] = "saved" /\ m \in footage
    /\ m \in footage => m \in records \/ AtWork(m) \/ m \in prune.unlinking
    /\ m \in footage /\ clip[m] \in FailedStates => AtWork(m) \/ m \in prune.unlinking

ClipsInv ==
    /\ ClipSorts
    /\ \A m \in Moment : MarkedFirst(m)
    /\ clips # "closed" => \A m \in Moment : Accounted(m)

LEMMA ClipsStart == ClipsInit => ClipsInv
  <1> SUFFICES ASSUME ClipsInit PROVE ClipsInv
    OBVIOUS
  <1>1. Cardinality(Moment) \in Nat
    BY ClipsAssumption, FS_CardinalityType
  <1>2. ClipSorts
    BY <1>1 DEF ClipsInit, ClipSorts, ClipsTypeOK, PruneType, Idle, Unfinished, FailedStates
  <1>3. \A m \in Moment : MarkedFirst(m) /\ Accounted(m)
    BY DEF ClipsInit, MarkedFirst, Accounted, Idle, Unfinished, FailedStates, AtWork
  <1> QED
    BY <1>2, <1>3 DEF ClipsInv

(* A moment that is not marked yet finds a place. *)
LEMMA ThereIsAPlace ==
    ASSUME NEW m \in Moment, moment[m] = "none"
    PROVE  1 + Cardinality(MarkedMoments) \in 0..Cardinality(Moment)
  <1>1. MarkedMoments \subseteq Moment \ {m} /\ IsFiniteSet(Moment \ {m}) /\ IsFiniteSet(Moment)
    BY ClipsAssumption, FS_RemoveElement DEF MarkedMoments
  <1>2. Cardinality(MarkedMoments) <= Cardinality(Moment \ {m}) /\ IsFiniteSet(MarkedMoments)
    BY <1>1, FS_Subset
  <1>3. Cardinality(Moment \ {m}) = Cardinality(Moment) - 1
    BY <1>1, FS_RemoveElement
  <1>4. Cardinality(MarkedMoments) \in Nat /\ Cardinality(Moment) \in Nat
    BY <1>1, <1>2, FS_CardinalityType
  <1> QED
    BY <1>2, <1>3, <1>4

LEMMA SetKeepsTheTypes ==
    ASSUME ClipSorts, NEW ms \in SUBSET Moment, NEW s \in {"saved"} \cup Unfinished \cup FailedStates, SetTo(ms, s)
    PROVE  /\ moment' \in [Moment -> {"none", "recording", "saved", "failed", "deleted"}]
           /\ clip' \in [Moment -> {"none", "saved"} \cup Unfinished \cup FailedStates]
  BY DEF SetTo, Told, ClipSorts, ClipsTypeOK

(* What the loop of _prune_once() does with the record it takes. *)
PruneOneIs(m) ==
    /\ prune.unlinking = {} /\ prune.at = "loop" /\ prune'.at = "loop"
    /\ UNCHANGED <<place, worker, cancelled, footage, deleting, clips>>
    /\ prune'.left = prune.left \ {m} /\ prune' \in PruneType
    /\ IF m \notin records
         THEN UNCHANGED <<moment, records, clip, dirty>> /\ prune'.unlinking = {}
         ELSE records' = records \ {m} /\ ExpireClip(m) /\ prune'.unlinking = IF clip[m] = "saved" THEN {m} ELSE {}

LEMMA PruneOneOf == ClipSorts /\ PruneOne => \E m \in prune.left : PruneOneIs(m)
  <1> SUFFICES ASSUME ClipSorts, PruneOne PROVE \E m \in prune.left : PruneOneIs(m)
    OBVIOUS
  <1>1. PICK m \in prune.left :
          IF m \notin records
          THEN PruneWithout(m, {}) /\ UNCHANGED <<moment, records, clip, dirty>>
          ELSE /\ records' = records \ {m}
               /\ ExpireClip(m)
               /\ PruneWithout(m, IF clip[m] = "saved" THEN {m} ELSE {})
    BY DEF PruneOne
  <1>2. prune \in PruneType /\ m \in Moment
    BY <1>1 DEF ClipSorts, PruneType
  <1>3. PruneLoops /\ UNCHANGED <<place, worker, cancelled, footage, deleting, clips>>
    BY DEF PruneOne
  <1>4. CASE m \notin records
    BY <1>1, <1>2, <1>3, <1>4 DEF PruneOneIs, PruneLoops, PruneType, PruneWithout
  <1>5. CASE m \in records
    BY <1>1, <1>2, <1>3, <1>5 DEF PruneOneIs, PruneLoops, PruneType, PruneWithout
  <1> QED
    BY <1>1, <1>4, <1>5

LEMMA ClipSortsStay == ClipSorts /\ [ClipsNext]_clipVars => ClipSorts'
  <1> SUFFICES ASSUME ClipSorts, [ClipsNext]_clipVars PROVE ClipSorts'
    OBVIOUS
  <1> USE DEF ClipSorts, ClipsTypeOK, PruneType
  <1>1. ASSUME NEW m \in Moment, MarkMoment(m) PROVE ClipSorts'
    BY <1>1, ThereIsAPlace DEF MarkMoment, Unfinished
  <1>2. ASSUME NEW m \in Moment, SampleLimit(m) PROVE ClipSorts'
    BY <1>2, SetKeepsTheTypes DEF SampleLimit, FailedStates
  <1>3. ASSUME NEW m \in Moment, TailEnds(m) PROVE ClipSorts'
    BY <1>3, SetKeepsTheTypes DEF TailEnds, FailedStates, Unfinished
  <1>4. ASSUME NEW m \in Moment, Encode(m) \/ Cleared(m) PROVE ClipSorts'
    BY <1>4 DEF Encode, Cleared, Leaves
  <1>5. ASSUME NEW m \in Moment, EncodeEnds(m) PROVE ClipSorts'
    BY <1>5, SetKeepsTheTypes DEF EncodeEnds, FailedStates
  <1>6. ASSUME NEW m \in Moment, Interrupted(m) PROVE ClipSorts'
    BY <1>6, SetKeepsTheTypes DEF Interrupted, FailedStates
  <1>7. CASE PruneStarts \/ PruneUnlinks \/ PruneEnds
    BY <1>7 DEF PruneStarts, PruneUnlinks, PruneEnds, Completed, Idle, PruneLoops
  <1>8. CASE PruneOne
    <2>1. PICK m \in prune.left : PruneOneIs(m)
      BY <1>8, PruneOneOf
    <2>2. m \in Moment
      BY <2>1
    <2>3. CASE ExpireClip(m) /\ records' = records \ {m}
      BY <2>1, <2>2, <2>3, SetKeepsTheTypes DEF PruneOneIs, ExpireClip, FailedStates
    <2>4. CASE UNCHANGED <<moment, records, clip>>
      BY <2>1, <2>2, <2>4 DEF PruneOneIs
    <2> QED
      BY <2>1, <2>3, <2>4 DEF PruneOneIs
  <1>9. ASSUME NEW m \in Moment, Delete(m) PROVE ClipSorts'
    BY <1>9, SetKeepsTheTypes DEF Delete, FailedStates
  <1>10. ASSUME NEW m \in Moment, DeleteEnds(m) \/ DeleteFails(m) PROVE ClipSorts'
    BY <1>10 DEF DeleteEnds, DeleteFails
  <1>11. ASSUME NEW next, Halt(next) PROVE ClipSorts'
    BY <1>11, SetKeepsTheTypes DEF Halt, Tails, FailedStates
  <1>12. CASE Stopped \/ Resume \/ Closed
    BY <1>12 DEF Stopped, Resume, Closed
  <1>13. CASE UNCHANGED clipVars
    BY <1>13 DEF clipVars
  <1> QED
    BY <1>1, <1>2, <1>3, <1>4, <1>5, <1>6, <1>7, <1>8, <1>9, <1>10, <1>11, <1>12, <1>13
    DEF ClipsNext, Work, Retention, StopClips, Close

LEMMA MarkedFirstStays ==
    ClipsInv /\ [ClipsNext]_clipVars => \A m \in Moment : MarkedFirst(m)'
  <1> SUFFICES ASSUME ClipsInv, [ClipsNext]_clipVars, NEW n \in Moment PROVE MarkedFirst(n)'
    OBVIOUS
  <1> USE DEF MarkedFirst, ClipsInv, ClipSorts, ClipsTypeOK, PruneType, Unfinished
  <1>1. ASSUME NEW m \in Moment, MarkMoment(m) PROVE MarkedFirst(n)'
    BY <1>1 DEF MarkMoment
  <1>2. ASSUME NEW m \in Moment, SampleLimit(m) PROVE MarkedFirst(n)'
    BY <1>2 DEF SampleLimit, SetTo, Told, FailedStates
  <1>3. ASSUME NEW m \in Moment, TailEnds(m) PROVE MarkedFirst(n)'
    <2>1. UNCHANGED <<records, cancelled, footage, prune>>
      BY <1>3 DEF TailEnds
    <2>2. CASE SetTo({m}, "encoding") /\ clip[m] = "recording" /\ worker' = [worker EXCEPT ![m] = "queued"]
      BY <2>1, <2>2, <1>3 DEF SetTo, Told, FailedStates, TailEnds
    <2>3. CASE SetTo({m}, "failed") /\ clip[m] = "recording" /\ worker' = [worker EXCEPT ![m] = "clearing"]
      BY <2>1, <2>3, <1>3 DEF SetTo, Told, FailedStates, TailEnds
    <2>4. CASE worker' = [worker EXCEPT ![m] = "clearing"] /\ clip[m] # "recording" /\ UNCHANGED <<moment, clip, dirty>>
      BY <2>1, <2>4, <1>3 DEF TailEnds
    <2> QED
      BY <1>3, <2>2, <2>3, <2>4 DEF TailEnds
  <1>4. ASSUME NEW m \in Moment, Encode(m) \/ Cleared(m) PROVE MarkedFirst(n)'
    <2>1. UNCHANGED <<moment, records, clip, prune>> /\ worker[m] # "none" /\ \E w : worker' = [worker EXCEPT ![m] = w]
      BY <1>4 DEF Encode, Cleared
    <2> QED
      BY <2>1
  <1>5. ASSUME NEW m \in Moment, EncodeEnds(m) PROVE MarkedFirst(n)'
    BY <1>5 DEF EncodeEnds, SetTo, Told, FailedStates
  <1>6. ASSUME NEW m \in Moment, Interrupted(m) PROVE MarkedFirst(n)'
    BY <1>6 DEF Interrupted, SetTo, Told, FailedStates
  <1>7. CASE PruneStarts \/ PruneUnlinks \/ PruneEnds
    BY <1>7 DEF PruneStarts, PruneUnlinks, PruneEnds, Completed, Idle, PruneLoops
  <1>8. CASE PruneOne
    <2>1. PICK m \in prune.left : PruneOneIs(m)
      BY <1>8, PruneOneOf
    <2>2. m \in Moment
      BY <2>1
    <2>3. CASE ExpireClip(m) /\ records' = records \ {m}
      BY <2>1, <2>2, <2>3 DEF PruneOneIs, ExpireClip, SetTo, Told, FailedStates
    <2>4. CASE UNCHANGED <<moment, records, clip>>
      BY <2>1, <2>2, <2>4 DEF PruneOneIs
    <2> QED
      BY <2>1, <2>3, <2>4 DEF PruneOneIs
  <1>9. ASSUME NEW m \in Moment, Delete(m) PROVE MarkedFirst(n)'
    BY <1>9 DEF Delete, SetTo, Told, FailedStates
  <1>10. ASSUME NEW m \in Moment, DeleteEnds(m) \/ DeleteFails(m) PROVE MarkedFirst(n)'
    BY <1>10 DEF DeleteEnds, DeleteFails
  <1>11. ASSUME NEW next, Halt(next) PROVE MarkedFirst(n)'
    BY <1>11 DEF Halt, Tails, SetTo, Told, FailedStates
  <1>12. CASE Stopped \/ Resume \/ Closed
    BY <1>12 DEF Stopped, Resume, Closed
  <1>13. CASE UNCHANGED clipVars
    BY <1>13 DEF clipVars
  <1> QED
    BY <1>1, <1>2, <1>3, <1>4, <1>5, <1>6, <1>7, <1>8, <1>9, <1>10, <1>11, <1>12, <1>13
    DEF ClipsNext, Work, Retention, StopClips, Close

LEMMA AccountedStays ==
    ClipsInv /\ clips # "closed" /\ clips' # "closed" /\ [ClipsNext]_clipVars => \A m \in Moment : Accounted(m)'
  <1> SUFFICES ASSUME ClipsInv, clips # "closed", clips' # "closed", [ClipsNext]_clipVars, NEW n \in Moment
               PROVE  Accounted(n)'
    OBVIOUS
  <1> USE DEF MarkedFirst, Accounted, ClipsInv, ClipSorts, ClipsTypeOK, PruneType, Unfinished, FailedStates, AtWork
  <1>1. ASSUME NEW m \in Moment, MarkMoment(m) PROVE Accounted(n)'
    BY <1>1 DEF MarkMoment
  <1>2. ASSUME NEW m \in Moment, SampleLimit(m) PROVE Accounted(n)'
    BY <1>2 DEF SampleLimit, SetTo, Told
  <1>3. ASSUME NEW m \in Moment, TailEnds(m) PROVE Accounted(n)'
    <2>1. UNCHANGED <<records, cancelled, footage, prune>> /\ worker[m] = "waiting" /\ m \notin cancelled
      BY <1>3 DEF TailEnds
    <2>2. CASE SetTo({m}, "encoding") /\ clip[m] = "recording" /\ worker' = [worker EXCEPT ![m] = "queued"]
      <3>1. clip' = [clip EXCEPT ![m] = "encoding"] /\ moment' = moment
        BY <2>2 DEF SetTo, Told
      <3>2. CASE n = m
        BY <2>1, <2>2, <3>1, <3>2
      <3>3. CASE n # m
        BY <2>1, <2>2, <3>1, <3>3
      <3> QED
        BY <3>2, <3>3
    <2>3. CASE SetTo({m}, "failed") /\ clip[m] = "recording" /\ worker' = [worker EXCEPT ![m] = "clearing"]
      BY <2>1, <2>3 DEF SetTo, Told
    <2>4. CASE worker' = [worker EXCEPT ![m] = "clearing"] /\ clip[m] # "recording" /\ UNCHANGED <<moment, clip, dirty>>
      BY <2>1, <2>4
    <2> QED
      BY <1>3, <2>2, <2>3, <2>4 DEF TailEnds
  <1>4. ASSUME NEW m \in Moment, Encode(m) PROVE Accounted(n)'
    BY <1>4 DEF Encode
  <1>5. ASSUME NEW m \in Moment, EncodeEnds(m) PROVE Accounted(n)'
    BY <1>5 DEF EncodeEnds, SetTo, Told
  <1>6. ASSUME NEW m \in Moment, Interrupted(m) PROVE Accounted(n)'
    BY <1>6 DEF Interrupted, SetTo, Told
  <1>7. ASSUME NEW m \in Moment, Cleared(m) PROVE Accounted(n)'
    BY <1>7 DEF Cleared, Leaves
  <1>8. CASE PruneStarts
    BY <1>8 DEF PruneStarts, Completed
  <1>9. CASE PruneOne
    <2>1. PICK m \in prune.left : PruneOneIs(m)
      BY <1>9, PruneOneOf
    <2>2. m \in Moment
      BY <2>1
    <2>3. CASE m \notin records
      BY <2>1, <2>2, <2>3 DEF PruneOneIs
    <2>4. CASE m \in records /\ clip[m] = "saved"
      BY <2>1, <2>2, <2>4 DEF PruneOneIs, ExpireClip, SetTo, Told
    <2>5. CASE m \in records /\ clip[m] # "saved"
      BY <2>1, <2>2, <2>5 DEF PruneOneIs, ExpireClip, SetTo, Told
    <2> QED
      BY <2>3, <2>4, <2>5
  <1>10. CASE PruneUnlinks \/ PruneEnds
    BY <1>10 DEF PruneUnlinks, PruneEnds, PruneLoops, Idle
  <1>11. ASSUME NEW m \in Moment, Delete(m) PROVE Accounted(n)'
    BY <1>11 DEF Delete, SetTo, Told
  <1>12. ASSUME NEW m \in Moment, DeleteEnds(m) \/ DeleteFails(m) PROVE Accounted(n)'
    BY <1>12 DEF DeleteEnds, DeleteFails
  <1>13. ASSUME NEW next, Halt(next) PROVE Accounted(n)'
    BY <1>13 DEF Halt, Tails, SetTo, Told
  <1>14. CASE Stopped \/ Resume
    BY <1>14 DEF Stopped, Resume
  <1>15. CASE Closed
    BY <1>15 DEF Closed
  <1>16. CASE UNCHANGED clipVars
    BY <1>16 DEF clipVars
  <1> QED
    BY <1>1, <1>2, <1>3, <1>4, <1>5, <1>6, <1>7, <1>8, <1>9, <1>10, <1>11, <1>12, <1>13, <1>14, <1>15, <1>16
    DEF ClipsNext, Work, Retention, StopClips, Close

LEMMA ClosedIsClosed == [ClipsNext]_clipVars /\ clips = "closed" => clips' = "closed"
  <1> SUFFICES ASSUME [ClipsNext]_clipVars, clips = "closed" PROVE clips' = "closed"
    OBVIOUS
  <1> QED
    BY DEF ClipsNext, clipVars, MarkMoment, SampleLimit, Work, TailEnds, Encode, EncodeEnds, Interrupted, Cleared, Delete,
           DeleteEnds, DeleteFails, Retention, PruneStarts, PruneOne, PruneUnlinks, PruneEnds, StopClips, Stopped,
           Resume, Close, Closed, Halt

LEMMA ClipsStep == ClipsInv /\ [ClipsNext]_clipVars => ClipsInv'
  BY ClipSortsStay, MarkedFirstStays, AccountedStays, ClosedIsClosed DEF ClipsInv

LEMMA ClipsMean == ClipsInv => ClipsTypeOK /\ FootageIsAccountedFor
  BY DEF ClipsInv, ClipSorts, Accounted, FootageIsAccountedFor

(* FootageIsAccountedFor: a moment shown as saved can be played until it is  *)
(* deleted, and no footage is left that nothing answers for, however         *)
(* retention, deletion, Stop and the encoders interleave                     *)
(* (tools/perception_lab/clips.py).                                          *)
THEOREM FootageIsKept == ClipsSpec => []FootageIsAccountedFor
  <1>1. ClipsSpec => ClipsInit /\ [][ClipsNext]_clipVars
    BY PTL DEF ClipsSpec
  <1> QED
    BY <1>1, ClipsStart, ClipsStep, ClipsMean, PTL

-----------------------------------------------------------------------------
(* What a tab shows *)

(* The changes of a session and the answers to a hello, as the queue holds them. *)
Changes ==
    [type : {"person", "forget"}, id : FeedPerson, value : {0}]
    \cup [type : {"note"}, id : LabNote, value : 0..NoteVersions] \cup [type : {"unnote"}, id : LabNote, value : {0}]
    \cup [type : {"film"}, id : LabMoment, value : MomentStatus] \cup [type : {"discard"}, id : LabMoment, value : {0}]
Acks == [type : {"ack"}, snapshot : Records]
Tab == [rec : Records, gonePeople : SUBSET FeedPerson, goneFilms : SUBSET LabMoment]

(* What a tab that shows s makes of a change it reads; StaleIn(tabShows, e) is Stale(e). *)
ReadTab(s, e) ==
    [rec |-> After(s.rec, e),
     gonePeople |-> s.gonePeople \cup (IF e.type = "forget" THEN {e.id} ELSE {}),
     goneFilms |-> s.goneFilms \cup (IF e.type = "discard" THEN {e.id} ELSE {})]
StaleIn(s, e) ==
    \/ e.type = "person" /\ e.id \in s.gonePeople
    \/ e.type = "note" /\ (NoteAbout[e.id] \in s.gonePeople \/ s.rec.notes[e.id] > e.value)
    \/ e.type = "film" /\ (e.id \in s.goneFilms \/ s.rec.films[e.id] \notin {"none", "recording", e.value})

(* s is the session as a tab may show it: what it knows to be deleted is not there, and was. *)
IsTheSession(s) ==
    /\ s.rec = feedSession
    /\ \A p \in s.gonePeople : p \notin feedSession.people /\ p \in usedIds
    /\ \A m \in s.goneFilms : feedSession.films[m] = "none" /\ m \in usedIds

(* f[i] is what the tab shows when it has read i of the messages in the queue, from what it   *)
(* shows now (k = 0) or from the snapshot at place k; the last of them is the session.         *)
Leads(k, f) ==
    /\ k \in 0..Len(labQueue) /\ f \in [k..Len(labQueue) -> Tab]
    /\ k = 0 => helloAcked /\ f[0] = tabShows
    /\ k # 0 => ~helloAcked /\ labQueue[k] \in Acks /\ f[k] = FeedShown(labQueue[k].snapshot)
    /\ \A i \in 1..Len(labQueue) : i # k => labQueue[i] \in Changes
    /\ \A i \in (k + 1)..Len(labQueue) : ~StaleIn(f[i - 1], labQueue[i]) /\ f[i] = ReadTab(f[i - 1], labQueue[i])
    /\ IsTheSession(f[Len(labQueue)])

FeedSorts ==
    /\ feedSession \in Records /\ tabShows \in Tab
    /\ labQueue \in Seq(Changes \cup Acks) /\ Len(labQueue) <= QueueLimit
    /\ tabLink \in {"none", "open", "greeted"}
    /\ overflowed \in BOOLEAN /\ attached \in BOOLEAN /\ helloAcked \in BOOLEAN
    /\ \A m \in LabMoment : feedSession.films[m] # "none" => m \in usedIds

LinkInv ==
    /\ tabLink # "none" => attached
    /\ helloAcked => tabLink = "greeted"
    /\ ~overflowed /\ tabLink = "open" => \A i \in 1..Len(labQueue) : labQueue[i] \in Changes

QueueLeads == ~overflowed /\ tabLink = "greeted" => \E k, f : Leads(k, f)

LabFeedInv == FeedSorts /\ LinkInv /\ QueueLeads

-----------------------------------------------------------------------------
LEMMA TabShowsAre == NoRecords \in Records /\ \A r \in Records : FeedShown(r) \in Tab /\ FeedShown(r).rec = r
  <1>1. NoRecords \in Records
    BY LabFeedAssumption DEF NoRecords, Records, MomentStatus
  <1>2. \A r \in Records : FeedShown(r) \in Tab /\ FeedShown(r).rec = r
    BY DEF FeedShown, Tab
  <1> QED
    BY <1>1, <1>2

LEMMA LabFeedStart == FeedInit => LabFeedInv
  <1> SUFFICES ASSUME FeedInit PROVE LabFeedInv
    OBVIOUS
  <1>1. feedSession = NoRecords /\ labQueue = <<>> /\ tabShows = FeedShown(NoRecords) /\ tabLink = "none"
    BY DEF FeedInit
  <1>2. feedSession \in Records /\ tabShows \in Tab
    BY <1>1, TabShowsAre
  <1>3. overflowed = FALSE /\ attached = FALSE /\ helloAcked = FALSE
    BY DEF FeedInit
  <1>4. labQueue \in Seq(Changes \cup Acks) /\ Len(labQueue) <= QueueLimit
    BY <1>1, LabFeedAssumption
  <1>5. \A m \in LabMoment : feedSession.films[m] = "none"
    BY <1>1 DEF NoRecords
  <1> QED
    BY <1>1, <1>2, <1>3, <1>4, <1>5 DEF LabFeedInv, FeedSorts, LinkInv, QueueLeads

(* What a change makes of the records. *)
Made(r, rec, e) ==
    /\ r \in Records
    /\ e.type = "person" => r.people = rec.people \cup {e.id} /\ r.films = rec.films
    /\ e.type = "forget" => r.people = rec.people \ {e.id} /\ r.films = rec.films
    /\ e.type \in {"note", "unnote"} => r.people = rec.people /\ r.films = rec.films
    /\ e.type \in {"film", "discard"} => r.people = rec.people
    /\ e.type = "film" => r.films = [rec.films EXCEPT ![e.id] = e.value]
    /\ e.type = "discard" => r.films = [rec.films EXCEPT ![e.id] = "none"]

LEMMA AfterMakes ==
    ASSUME NEW rec \in Records, NEW e \in Changes, NEW r, r = After(rec, e)
    PROVE  Made(r, rec, e)
  <1> USE DEF Records
  <1>1. CASE e \in [type : {"person", "forget"}, id : FeedPerson, value : {0}] /\ e.type = "person"
    <2>1. r = [rec EXCEPT !.people = rec.people \cup {e.id}]
      BY <1>1 DEF After
    <2> QED
      BY <1>1, <2>1 DEF Made
  <1>2. CASE e \in [type : {"person", "forget"}, id : FeedPerson, value : {0}] /\ e.type = "forget"
    <2>1. r = [rec EXCEPT !.people = rec.people \ {e.id}, !.notes = NotesWithout(rec, e.id)]
      BY <1>2 DEF After
    <2>2. NotesWithout(rec, e.id) \in [LabNote -> 0..NoteVersions]
      BY LabFeedAssumption DEF NotesWithout
    <2> QED
      BY <1>2, <2>1, <2>2 DEF Made
  <1>3. CASE e \in [type : {"note"}, id : LabNote, value : 0..NoteVersions]
    <2>1. r = [rec EXCEPT !.notes = [rec.notes EXCEPT ![e.id] = e.value]]
      BY <1>3 DEF After
    <2> QED
      BY <1>3, <2>1 DEF Made
  <1>4. CASE e \in [type : {"unnote"}, id : LabNote, value : {0}]
    <2>1. r = [rec EXCEPT !.notes = [rec.notes EXCEPT ![e.id] = 0]]
      BY <1>4 DEF After
    <2>2. 0 \in 0..NoteVersions
      BY LabFeedAssumption
    <2> QED
      BY <1>4, <2>1, <2>2 DEF Made
  <1>5. CASE e \in [type : {"film"}, id : LabMoment, value : MomentStatus]
    <2>1. r = [rec EXCEPT !.films = [rec.films EXCEPT ![e.id] = e.value]]
      BY <1>5 DEF After
    <2> QED
      BY <1>5, <2>1 DEF Made
  <1>6. CASE e \in [type : {"discard"}, id : LabMoment, value : {0}]
    <2>1. r = [rec EXCEPT !.films = [rec.films EXCEPT ![e.id] = "none"]]
      BY <1>6 DEF After
    <2> QED
      BY <1>6, <2>1 DEF Made, MomentStatus
  <1> QED
    BY <1>1, <1>2, <1>3, <1>4, <1>5, <1>6 DEF Changes

LEMMA ReadIsATab ==
    ASSUME NEW s \in Tab, NEW e \in Changes
    PROVE  ReadTab(s, e) \in Tab /\ ReadTab(s, e).rec = After(s.rec, e)
  <1>1. s.rec \in Records /\ s.gonePeople \in SUBSET FeedPerson /\ s.goneFilms \in SUBSET LabMoment
    BY DEF Tab
  <1>2. After(s.rec, e) \in Records
    BY <1>1, AfterMakes DEF Made
  <1>3. (e.type = "forget" => e.id \in FeedPerson) /\ (e.type = "discard" => e.id \in LabMoment)
    BY DEF Changes
  <1> QED
    BY <1>1, <1>2, <1>3 DEF ReadTab, Tab

(* A change the session makes. *)
FromTheSession(e) ==
    /\ e \in Changes
    /\ e.type = "person" => e.id \notin usedIds
    /\ e.type = "note" => NoteAbout[e.id] \in feedSession.people /\ feedSession.notes[e.id] < e.value
    /\ e.type = "film" => (e.id \notin usedIds \/ feedSession.films[e.id] = "recording")

LEMMA PossibleChanges == ASSUME FeedSorts, NEW e \in Possible PROVE FromTheSession(e)
  <1> USE DEF Envelope
  <1>1. ASSUME NEW p \in FeedPerson \ usedIds, e = Envelope("person", p, 0) PROVE FromTheSession(e)
    BY <1>1 DEF FromTheSession, Changes
  <1>2. ASSUME NEW p \in feedSession.people, e = Envelope("forget", p, 0) PROVE FromTheSession(e)
    <2>1. p \in FeedPerson
      BY DEF FeedSorts, Records
    <2> QED
      BY <2>1, <1>2 DEF FromTheSession, Changes
  <1>3. ASSUME NEW n \in LabNote, MayWrite(n), e = Envelope("note", n, feedSession.notes[n] + 1) PROVE FromTheSession(e)
    <2>1. PICK v : v = feedSession.notes[n]
      OBVIOUS
    <2>2. v \in 0..NoteVersions /\ NoteVersions \in Nat
      BY <2>1, LabFeedAssumption DEF FeedSorts, Records
    <2>3. v < NoteVersions /\ NoteAbout[n] \in feedSession.people
      BY <1>3, <2>1 DEF MayWrite
    <2>4. v + 1 \in 0..NoteVersions /\ v < v + 1
      BY <2>2, <2>3
    <2>5. e \in [type : {"note"}, id : LabNote, value : 0..NoteVersions] /\ e.id = n /\ e.value = v + 1 /\ e.type = "note"
      BY <1>3, <2>1, <2>4
    <2> QED
      BY <2>1, <2>3, <2>4, <2>5 DEF FromTheSession, Changes
  <1>4. ASSUME NEW n \in LabNote, e = Envelope("unnote", n, 0) PROVE FromTheSession(e)
    BY <1>4 DEF FromTheSession, Changes
  <1>5. ASSUME NEW m \in LabMoment, m \notin usedIds, e = Envelope("film", m, "recording") PROVE FromTheSession(e)
    <2>1. e \in [type : {"film"}, id : LabMoment, value : MomentStatus] /\ e.id = m /\ e.type = "film"
      BY <1>5 DEF MomentStatus
    <2> QED
      BY <2>1, <1>5 DEF FromTheSession, Changes
  <1>6. ASSUME NEW m \in LabMoment, feedSession.films[m] = "recording", NEW s \in {"saved", "failed"}, e = Envelope("film", m, s)
        PROVE  FromTheSession(e)
    <2>1. e \in [type : {"film"}, id : LabMoment, value : MomentStatus] /\ e.id = m /\ e.type = "film"
      BY <1>6 DEF MomentStatus
    <2> QED
      BY <2>1, <1>6 DEF FromTheSession, Changes
  <1>7. ASSUME NEW m \in LabMoment, e = Envelope("discard", m, 0) PROVE FromTheSession(e)
    BY <1>7 DEF FromTheSession, Changes
  <1> QED
    BY <1>1, <1>2, <1>3, <1>4, <1>5, <1>6, <1>7 DEF Possible

(* No change of the session is stale to a tab that shows the session. *)
LEMMA ChangeIsNews ==
    ASSUME FeedSorts, NEW s \in Tab, IsTheSession(s), NEW e, FromTheSession(e)
    PROVE  ~StaleIn(s, e)
  <1>1. s.rec = feedSession /\ feedSession \in Records
    BY DEF IsTheSession, FeedSorts
  <1>2. CASE e.type = "person"
    BY <1>2 DEF FromTheSession, IsTheSession, StaleIn
  <1>3. CASE e.type = "note"
    <2>1. e \in [type : {"note"}, id : LabNote, value : 0..NoteVersions]
      BY <1>3 DEF FromTheSession, Changes
    <2>2. s.rec.notes[e.id] \in 0..NoteVersions /\ e.value \in 0..NoteVersions /\ NoteVersions \in Nat
      BY <1>1, <2>1, LabFeedAssumption DEF Records
    <2>3. s.rec.notes[e.id] < e.value
      BY <1>1, <1>3 DEF FromTheSession
    <2>4. ~ (s.rec.notes[e.id] > e.value)
      BY <2>2, <2>3
    <2>5. NoteAbout[e.id] \notin s.gonePeople
      BY <1>3 DEF FromTheSession, IsTheSession
    <2> QED
      BY <1>3, <2>4, <2>5 DEF StaleIn
  <1>4. CASE e.type = "film"
    <2>1. e.id \in LabMoment
      BY <1>4 DEF FromTheSession, Changes
    <2>2. e.id \notin usedIds \/ feedSession.films[e.id] = "recording"
      BY <1>4 DEF FromTheSession
    <2>3. e.id \notin s.goneFilms
      BY <2>2 DEF IsTheSession
    <2>4. feedSession.films[e.id] \in {"none", "recording"}
      BY <2>1, <2>2 DEF FeedSorts
    <2> QED
      BY <1>1, <1>4, <2>3, <2>4 DEF StaleIn
  <1> QED
    BY <1>2, <1>3, <1>4 DEF StaleIn

LEMMA ChangeKeepsTheSession ==
    ASSUME FeedSorts, NEW s \in Tab, IsTheSession(s), NEW e, FromTheSession(e),
           feedSession' = After(feedSession, e), usedIds' = usedIds \cup {e.id}, NEW u, u = ReadTab(s, e)
    PROVE  IsTheSession(u)'
  <1>1. feedSession \in Records /\ e \in Changes /\ s.rec = feedSession
    BY DEF FeedSorts, IsTheSession, FromTheSession
  <1>2. Made(feedSession', feedSession, e)
    BY <1>1, AfterMakes
  <1>3. u.rec = feedSession'
    BY <1>1, ReadIsATab
  <1>4. u.gonePeople = s.gonePeople \cup (IF e.type = "forget" THEN {e.id} ELSE {})
        /\ u.goneFilms = s.goneFilms \cup (IF e.type = "discard" THEN {e.id} ELSE {})
    BY DEF ReadTab
  <1>5. e.type \in {"person", "forget", "note", "unnote", "film", "discard"}
    BY <1>1 DEF Changes
  <1>6. ASSUME NEW p \in u.gonePeople PROVE p \notin feedSession'.people /\ p \in usedIds'
    BY <1>2, <1>4, <1>5, <1>6 DEF Made, IsTheSession, FromTheSession
  <1>7. ASSUME NEW m \in u.goneFilms PROVE feedSession'.films[m] = "none" /\ m \in usedIds'
    <2>1. feedSession.films \in [LabMoment -> MomentStatus] /\ s.goneFilms \subseteq LabMoment
      BY <1>1 DEF Records, Tab
    <2>2. (e.type = "discard" => e.id \in LabMoment) /\ (e.type = "film" => e.id \in LabMoment)
      BY <1>1 DEF Changes
    <2>3. CASE m \in s.goneFilms
      <3>1. feedSession.films[m] = "none" /\ m \in usedIds /\ m \in LabMoment
        BY <2>1, <2>3 DEF IsTheSession
      <3>2. e.type = "film" => m # e.id
        BY <3>1 DEF FromTheSession
      <3> QED
        BY <1>2, <1>5, <2>1, <3>1, <3>2 DEF Made
    <2>4. CASE m \notin s.goneFilms
      BY <1>2, <1>4, <1>7, <2>1, <2>2, <2>4 DEF Made
    <2> QED
      BY <2>3, <2>4
  <1> QED
    BY <1>3, <1>6, <1>7 DEF IsTheSession

-----------------------------------------------------------------------------
LEMMA Enqueued ==
    ASSUME FeedSorts, NEW e \in Changes \cup Acks, EnqueueUpdate(<<e>>)
    PROVE  /\ labQueue' \in Seq(Changes \cup Acks) /\ Len(labQueue') <= QueueLimit /\ overflowed' \in BOOLEAN
           /\ ~overflowed' => /\ ~overflowed /\ Len(labQueue') = Len(labQueue) + 1
                              /\ \A i \in 1..Len(labQueue) : labQueue'[i] = labQueue[i]
                              /\ labQueue'[Len(labQueue) + 1] = e
  <1>1. labQueue \in Seq(Changes \cup Acks) /\ Len(labQueue) <= QueueLimit /\ overflowed \in BOOLEAN
    BY DEF FeedSorts
  <1>2. CASE Len(labQueue) < QueueLimit
    <2>1. labQueue' = labQueue \o <<e>> /\ overflowed' = overflowed
      BY <1>2 DEF EnqueueUpdate
    <2>2. <<e>> \in Seq(Changes \cup Acks) /\ Len(<<e>>) = 1 /\ <<e>>[1] = e
      OBVIOUS
    <2>3. labQueue' \in Seq(Changes \cup Acks) /\ Len(labQueue') = Len(labQueue) + 1
      BY <1>1, <2>1, <2>2
    <2>4. \A i \in 1..Len(labQueue) : labQueue'[i] = labQueue[i]
      BY <1>1, <2>1, <2>2
    <2>5. labQueue'[Len(labQueue) + 1] = e
      BY <1>1, <2>1, <2>2
    <2>6. Len(labQueue') <= QueueLimit
      BY <1>1, <1>2, <2>3, LabFeedAssumption
    <2> QED
      BY <1>1, <2>1, <2>3, <2>4, <2>5, <2>6
  <1>3. CASE ~ (Len(labQueue) < QueueLimit)
    <2>1. labQueue' = labQueue /\ overflowed' = TRUE
      BY <1>3 DEF EnqueueUpdate, Full
    <2> QED
      BY <1>1, <2>1
  <1> QED
    BY <1>2, <1>3

LEMMA FeedChanges == ASSUME LabFeedInv, NEW e \in Possible, Change(e) PROVE LabFeedInv'
  <1>1. FeedSorts /\ LinkInv /\ QueueLeads
    BY DEF LabFeedInv
  <1>2. FromTheSession(e)
    BY <1>1, PossibleChanges
  <1>3. e \in Changes /\ EnqueueUpdate(<<e>>) /\ feedSession' = After(feedSession, e) /\ usedIds' = usedIds \cup {e.id}
        /\ UNCHANGED <<attached, tabLink, helloAcked, tabShows>>
    BY <1>2 DEF Change, FromTheSession
  <1>4. Made(feedSession', feedSession, e)
    BY <1>1, <1>3, AfterMakes DEF FeedSorts
  <1>5. ASSUME NEW m \in LabMoment, feedSession'.films[m] # "none" PROVE m \in usedIds'
    <2>1. feedSession.films \in [LabMoment -> MomentStatus] /\ (feedSession.films[m] # "none" => m \in usedIds)
      BY <1>1 DEF FeedSorts, Records
    <2>2. e.type \in {"person", "forget", "note", "unnote", "film", "discard"}
      BY <1>3 DEF Changes
    <2> QED
      BY <1>3, <1>4, <1>5, <2>1, <2>2 DEF Made
  <1>6. FeedSorts'
    <2>1. labQueue' \in Seq(Changes \cup Acks) /\ Len(labQueue') <= QueueLimit /\ overflowed' \in BOOLEAN
      BY <1>1, <1>3, Enqueued
    <2>2. feedSession' \in Records
      BY <1>4 DEF Made
    <2> QED
      BY <1>1, <1>3, <1>5, <2>1, <2>2 DEF FeedSorts
  <1>7. CASE overflowed'
    <2>1. overflowed' = TRUE
      BY <1>6, <1>7 DEF FeedSorts
    <2> QED
      BY <1>1, <1>3, <1>6, <2>1 DEF LabFeedInv, LinkInv, QueueLeads
  <1>8. CASE ~overflowed'
    <2>1. ~overflowed /\ Len(labQueue') = Len(labQueue) + 1 /\ labQueue'[Len(labQueue) + 1] = e
          /\ \A i \in 1..Len(labQueue) : labQueue'[i] = labQueue[i]
      BY <1>1, <1>3, <1>8, Enqueued
    <2>2. Len(labQueue) \in Nat
      BY <1>1 DEF FeedSorts
    <2>3. LinkInv'
      <3>1. tabLink = "open" => \A i \in 1..Len(labQueue') : labQueue'[i] \in Changes
        BY <1>1, <1>3, <2>1, <2>2 DEF LinkInv
      <3> QED
        BY <1>1, <1>3, <3>1 DEF LinkInv
    <2>4. ASSUME tabLink = "greeted" PROVE \E k, f : Leads(k, f)'
      <3>1. PICK k, f : Leads(k, f)
        BY <1>1, <2>1, <2>4 DEF QueueLeads
      <3>0. PICK N : N = Len(labQueue)
        OBVIOUS
      <3> DEFINE t == ReadTab(f[N], e)
                 g == [i \in k..(N + 1) |-> IF i = N + 1 THEN t ELSE f[i]]
      <3>2. k \in 0..N /\ f \in [k..N -> Tab] /\ N \in Nat
        BY <2>2, <3>0, <3>1 DEF Leads
      <3>3. f[N] \in Tab /\ IsTheSession(f[N])
        BY <3>0, <3>1, <3>2 DEF Leads
      <3>4. t \in Tab
        BY <1>3, <3>3, ReadIsATab
      <3>5. ~StaleIn(f[N], e)
        BY <1>1, <1>2, <3>3, ChangeIsNews
      <3>6. IsTheSession(t)'
        BY <1>1, <1>2, <1>3, <3>3, ChangeKeepsTheSession
      <3> HIDE DEF t
      <3>7. g \in [k..(N + 1) -> Tab] /\ g[N + 1] = t /\ \A i \in k..N : g[i] = f[i]
        BY <3>2, <3>4
      <3> HIDE DEF g
      <3>8. k = 0 => helloAcked /\ g[0] = tabShows
        BY <3>1, <3>2, <3>7 DEF Leads
      <3>9. k # 0 => ~helloAcked /\ labQueue'[k] \in Acks /\ g[k] = FeedShown(labQueue'[k].snapshot)
        BY <3>0, <3>1, <3>2, <3>7, <2>1 DEF Leads
      <3>10. ASSUME NEW i \in 1..(N + 1), i # k PROVE labQueue'[i] \in Changes
        <4>1. CASE i = N + 1
          BY <2>1, <3>0, <4>1, <1>3
        <4>2. CASE i \in 1..N
          BY <2>1, <3>0, <3>1, <4>2, <3>10 DEF Leads
        <4> QED
          BY <4>1, <4>2, <3>2
      <3>11. ASSUME NEW i \in (k + 1)..(N + 1) PROVE ~StaleIn(g[i - 1], labQueue'[i]) /\ g[i] = ReadTab(g[i - 1], labQueue'[i])
        <4>1. CASE i = N + 1
          <5>1. g[i - 1] = f[N] /\ labQueue'[i] = e /\ g[i] = t
            BY <2>1, <3>0, <4>1, <3>2, <3>7
          <5> QED
            BY <5>1, <3>5 DEF t
        <4>2. CASE i \in (k + 1)..N
          <5>1. g[i - 1] = f[i - 1] /\ g[i] = f[i] /\ labQueue'[i] = labQueue[i]
            BY <4>2, <3>0, <3>2, <3>7, <2>1
          <5>2. ~StaleIn(f[i - 1], labQueue[i]) /\ f[i] = ReadTab(f[i - 1], labQueue[i])
            BY <3>0, <3>1, <4>2 DEF Leads
          <5> QED
            BY <5>1, <5>2
        <4> QED
          BY <4>1, <4>2, <3>2
      <3> HIDE DEF t
      <3>12. Len(labQueue') = N + 1 /\ k \in 0..(N + 1)
        BY <2>1, <3>0, <3>2
      <3>13. IsTheSession(g[N + 1])'
        BY <3>6, <3>7
      <3>14. \A n : n = Len(labQueue') => k \in 0..n /\ g \in [k..n -> Tab] /\ IsTheSession(g[n])'
        BY <3>7, <3>12, <3>13
      <3>15. Leads(k, g)'
        BY <1>3, <3>8, <3>9, <3>10, <3>11, <3>12, <3>14 DEF Leads
      <3> QED
        BY <3>15
    <2> QED
      BY <1>3, <1>6, <2>3, <2>4 DEF LabFeedInv, QueueLeads
  <1> QED
    BY <1>7, <1>8

LEMMA FeedGreets == LabFeedInv /\ Hello => LabFeedInv'
  <1> SUFFICES ASSUME LabFeedInv, Hello PROVE LabFeedInv'
    OBVIOUS
  <1>1. FeedSorts /\ LinkInv
    BY DEF LabFeedInv
  <1>2. PICK e : e = [type |-> "ack", snapshot |-> feedSession]
    OBVIOUS
  <1>3. EnqueueUpdate(<<e>>) /\ tabLink = "open" /\ tabLink' = "greeted"
        /\ UNCHANGED <<feedSession, usedIds, attached, helloAcked, tabShows>>
    BY <1>2 DEF Hello, Greeting
  <1>4. feedSession \in Records /\ e \in Acks /\ e.snapshot = feedSession
    BY <1>1, <1>2 DEF Acks, FeedSorts
  <1>5. FeedSorts'
    <2>1. labQueue' \in Seq(Changes \cup Acks) /\ Len(labQueue') <= QueueLimit /\ overflowed' \in BOOLEAN
      BY <1>1, <1>3, <1>4, Enqueued
    <2> QED
      BY <1>1, <1>3, <2>1 DEF FeedSorts
  <1>6. LinkInv' /\ helloAcked = FALSE
    BY <1>1, <1>3 DEF LinkInv, FeedSorts
  <1>7. ASSUME ~overflowed' PROVE \E k, f : Leads(k, f)'
    <2>1. PICK N : N = Len(labQueue)
      OBVIOUS
    <2>2. N \in Nat
      BY <1>1, <2>1 DEF FeedSorts
    <2>3. ~overflowed /\ Len(labQueue') = N + 1 /\ labQueue'[N + 1] = e /\ \A i \in 1..N : labQueue'[i] = labQueue[i]
      BY <1>1, <1>3, <1>4, <1>7, <2>1, Enqueued
    <2>4. \A i \in 1..N : labQueue'[i] \in Changes
      BY <1>1, <1>3, <2>1, <2>3 DEF LinkInv
    <2>5. PICK s : s = FeedShown(feedSession)
      OBVIOUS
    <2>6. s \in Tab /\ s.rec = feedSession
      BY <1>4, <2>5, TabShowsAre
    <2>7. IsTheSession(s)'
      BY <1>3, <2>5, <2>6 DEF IsTheSession, FeedShown
    <2> DEFINE g == [i \in (N + 1)..(N + 1) |-> s]
    <2>8. g \in [(N + 1)..(N + 1) -> Tab] /\ g[N + 1] = s
      BY <2>2, <2>6
    <2> HIDE DEF g
    <2>9. \A n : n = Len(labQueue') => N + 1 \in 0..n /\ g \in [(N + 1)..n -> Tab] /\ IsTheSession(g[n])'
      BY <2>2, <2>3, <2>7, <2>8
    <2>10. labQueue'[N + 1] \in Acks /\ g[N + 1] = FeedShown(labQueue'[N + 1].snapshot)
      BY <1>4, <2>3, <2>5, <2>8
    <2>11. N + 1 # 0 /\ (\A i \in 1..Len(labQueue') : i # N + 1 => i \in 1..N) /\ ~ (\E i \in (N + 2)..Len(labQueue') : TRUE)
      BY <2>2, <2>3
    <2>12. \A i \in (N + 1 + 1)..Len(labQueue') : FALSE
      BY <2>2, <2>3
    <2>13. Leads(N + 1, g)'
      BY <1>3, <1>6, <2>4, <2>9, <2>10, <2>11, <2>12 DEF Leads
    <2> QED
      BY <2>13
  <1> QED
    BY <1>3, <1>5, <1>6, <1>7 DEF LabFeedInv, QueueLeads

LEMMA FeedReads == LabFeedInv /\ TabReads => LabFeedInv'
  <1> SUFFICES ASSUME LabFeedInv, TabReads PROVE LabFeedInv'
    OBVIOUS
  <1>1. FeedSorts /\ LinkInv /\ QueueLeads
    BY DEF LabFeedInv
  <1>2. attached /\ tabLink # "none" /\ labQueue # <<>> /\ UNCHANGED <<feedSession, usedIds, overflowed, attached>>
    BY DEF TabReads
  <1>3. CASE overflowed
    <2>1. tabLink' = "none" /\ helloAcked' = FALSE /\ UNCHANGED <<labQueue, tabShows>>
      BY <1>3 DEF TabReads
    <2> QED
      BY <1>1, <1>2, <2>1 DEF LabFeedInv, FeedSorts, LinkInv, QueueLeads
  <1>4. CASE ~overflowed
    <2>1. PICK N : N = Len(labQueue)
      OBVIOUS
    <2>2. N \in Nat \ {0} /\ labQueue \in Seq(Changes \cup Acks)
      BY <1>1, <1>2, <2>1 DEF FeedSorts
    <2>3. PICK e : e = labQueue[1]
      OBVIOUS
    <2>4. e = Head(labQueue) /\ e \in Changes \cup Acks
      BY <2>1, <2>2, <2>3
    <2>5. labQueue' = Tail(labQueue) /\ UNCHANGED tabLink
      BY <1>4 DEF TabReads
    <2>6. labQueue' \in Seq(Changes \cup Acks) /\ Len(labQueue') = N - 1 /\ \A i \in 1..(N - 1) : labQueue'[i] = labQueue[i + 1]
      BY <1>2, <2>1, <2>2, <2>5, HeadTailProperties
    <2>7. helloAcked' = (helloAcked \/ e.type \in {"ack", "greeted"})
      BY <1>4, <2>4 DEF TabReads
    <2>8. tabShows' = IF e.type = "ack" THEN FeedShown(e.snapshot)
                      ELSE IF e.type = "greeted" \/ StaleIn(tabShows, e) THEN tabShows ELSE ReadTab(tabShows, e)
      BY <1>4, <2>4, Zenon DEF TabReads, Stale, StaleIn, ReadTab
    <2>9. CASE e \in Changes
      <3>1. e.type \notin {"ack", "greeted"}
        BY <2>9 DEF Changes
      <3>2. helloAcked' = helloAcked
        BY <1>1, <2>7, <3>1 DEF FeedSorts
      <3>3. tabShows' = IF StaleIn(tabShows, e) THEN tabShows ELSE ReadTab(tabShows, e)
        BY <2>8, <3>1
      <3>4. tabShows' \in Tab
        BY <1>1, <2>9, <3>3, ReadIsATab DEF FeedSorts
      <3>5. FeedSorts'
        BY <1>1, <1>2, <2>1, <2>5, <2>6, <3>2, <3>4, LabFeedAssumption DEF FeedSorts
      <3>6. LinkInv'
        BY <1>1, <1>2, <2>1, <2>2, <2>5, <2>6, <3>2 DEF LinkInv
      <3>7. ASSUME tabLink = "greeted" PROVE \E k, f : Leads(k, f)'
        <4>1. PICK k, f : Leads(k, f)
          BY <1>1, <1>4, <3>7 DEF QueueLeads
        <4>2. k \in 0..N /\ f \in [k..N -> Tab]
          BY <2>1, <4>1 DEF Leads
        <4>3. CASE k = 0
          <5> DEFINE g == [i \in 0..(N - 1) |-> f[i + 1]]
          <5>1. g \in [0..(N - 1) -> Tab] /\ \A i \in 0..(N - 1) : g[i] = f[i + 1]
            BY <2>2, <4>2, <4>3
          <5> HIDE DEF g
          <5>2. ~StaleIn(f[0], labQueue[1]) /\ f[1] = ReadTab(f[0], labQueue[1]) /\ f[0] = tabShows /\ helloAcked
            BY <2>1, <2>2, <4>1, <4>3 DEF Leads
          <5>3. g[0] = tabShows'
            BY <2>2, <2>3, <3>3, <5>1, <5>2
          <5>4. \A i \in 1..(N - 1) : labQueue'[i] \in Changes
            BY <2>1, <2>2, <2>6, <4>1, <4>3 DEF Leads
          <5>5. ASSUME NEW i \in 1..(N - 1) PROVE ~StaleIn(g[i - 1], labQueue'[i]) /\ g[i] = ReadTab(g[i - 1], labQueue'[i])
            <6>1. g[i - 1] = f[i] /\ g[i] = f[i + 1] /\ labQueue'[i] = labQueue[i + 1] /\ i + 1 \in 1..N /\ (i + 1) - 1 = i
              BY <2>2, <2>6, <5>1
            <6> QED
              BY <2>1, <4>1, <4>3, <6>1 DEF Leads
          <5>6. IsTheSession(g[N - 1])'
            <6>1. g[N - 1] = f[N]
              BY <2>2, <5>1
            <6>2. IsTheSession(f[N])
              BY <2>1, <4>1 DEF Leads
            <6> QED
              BY <1>2, <6>1, <6>2 DEF IsTheSession
          <5>7. \A n : n = Len(labQueue') => 0 \in 0..n /\ g \in [0..n -> Tab] /\ IsTheSession(g[n])'
            BY <2>2, <2>6, <5>1, <5>6
          <5>8. \A i \in (0 + 1)..Len(labQueue') : i \in 1..(N - 1)
            BY <2>6
          <5>9. Leads(0, g)'
            BY <2>6, <3>2, <5>2, <5>3, <5>4, <5>5, <5>7, <5>8 DEF Leads
          <5> QED
            BY <5>9
        <4>4. CASE k # 0
          <5>1. k # 1
            <6>1. k = 1 => e.type = "ack"
              BY <2>3, <4>1 DEF Leads, Acks
            <6> QED
              BY <3>1, <6>1
          <5>2. k \in 2..N /\ k - 1 \in 1..(N - 1)
            BY <2>2, <4>2, <4>4, <5>1
          <5> DEFINE g == [i \in (k - 1)..(N - 1) |-> f[i + 1]]
          <5>3. g \in [(k - 1)..(N - 1) -> Tab] /\ \A i \in (k - 1)..(N - 1) : g[i] = f[i + 1]
            BY <2>2, <4>2, <5>2
          <5> HIDE DEF g
          <5>4. labQueue'[k - 1] = labQueue[k] /\ g[k - 1] = f[k]
            BY <2>2, <2>6, <5>2, <5>3
          <5>5. ~helloAcked /\ labQueue[k] \in Acks /\ f[k] = FeedShown(labQueue[k].snapshot)
            BY <4>1, <4>4 DEF Leads
          <5>6. ASSUME NEW i \in 1..(N - 1), i # k - 1 PROVE labQueue'[i] \in Changes
            <6>1. labQueue'[i] = labQueue[i + 1] /\ i + 1 \in 1..N /\ i + 1 # k
              BY <2>2, <2>6, <5>2, <5>6
            <6> QED
              BY <2>1, <4>1, <6>1 DEF Leads
          <5>7. ASSUME NEW i \in k..(N - 1) PROVE ~StaleIn(g[i - 1], labQueue'[i]) /\ g[i] = ReadTab(g[i - 1], labQueue'[i])
            <6>0. i - 1 \in (k - 1)..(N - 1) /\ i \in (k - 1)..(N - 1) /\ i \in 1..(N - 1) /\ (i - 1) + 1 = i
              BY <2>2, <5>2
            <6>1. g[i - 1] = f[i] /\ g[i] = f[i + 1] /\ labQueue'[i] = labQueue[i + 1] /\ i + 1 \in (k + 1)..N /\ (i + 1) - 1 = i
              BY <2>2, <2>6, <5>2, <5>3, <6>0
            <6> QED
              BY <2>1, <4>1, <6>1 DEF Leads
          <5>8. IsTheSession(g[N - 1])'
            <6>1. g[N - 1] = f[N]
              BY <2>2, <5>2, <5>3
            <6>2. IsTheSession(f[N])
              BY <2>1, <4>1 DEF Leads
            <6> QED
              BY <1>2, <6>1, <6>2 DEF IsTheSession
          <5>9. \A n : n = Len(labQueue') => k - 1 \in 0..n /\ g \in [(k - 1)..n -> Tab] /\ IsTheSession(g[n])'
            BY <2>2, <2>6, <5>2, <5>3, <5>8
          <5>10. k - 1 # 0 /\ \A i \in ((k - 1) + 1)..Len(labQueue') : i \in k..(N - 1)
            BY <2>6, <5>2
          <5>11. Leads(k - 1, g)'
            BY <2>6, <3>2, <5>4, <5>5, <5>6, <5>7, <5>9, <5>10 DEF Leads
          <5> QED
            BY <5>11
        <4> QED
          BY <4>3, <4>4
      <3> QED
        BY <1>2, <2>5, <3>5, <3>6, <3>7 DEF LabFeedInv, QueueLeads
    <2>10. CASE e \notin Changes
      <3>1. e \in Acks /\ e.type = "ack"
        BY <2>4, <2>10 DEF Acks
      <3>2. tabLink = "greeted"
        BY <1>1, <1>2, <1>4, <2>1, <2>2, <2>3, <2>10 DEF LinkInv, FeedSorts
      <3>3. helloAcked' = TRUE /\ tabShows' = FeedShown(e.snapshot) /\ tabShows' \in Tab
        <4>1. e.snapshot \in Records
          BY <3>1 DEF Acks
        <4> QED
          BY <2>7, <2>8, <3>1, <4>1, TabShowsAre
      <3>4. FeedSorts'
        BY <1>1, <1>2, <2>1, <2>2, <2>5, <2>6, <3>3, LabFeedAssumption DEF FeedSorts
      <3>5. LinkInv'
        BY <1>1, <1>2, <2>5, <3>2 DEF LinkInv
      <3>6. PICK k, f : Leads(k, f)
        BY <1>1, <1>4, <3>2 DEF QueueLeads
      <3>7. k = 1
        BY <2>1, <2>2, <2>3, <2>10, <3>6 DEF Leads
      <3>8. f \in [1..N -> Tab] /\ f[1] = FeedShown(e.snapshot)
        BY <2>1, <2>3, <3>6, <3>7 DEF Leads
      <3> DEFINE g == [i \in 0..(N - 1) |-> f[i + 1]]
      <3>9. g \in [0..(N - 1) -> Tab] /\ \A i \in 0..(N - 1) : g[i] = f[i + 1]
        BY <2>2, <3>8
      <3> HIDE DEF g
      <3>10. g[0] = tabShows'
        BY <2>2, <3>3, <3>8, <3>9
      <3>11. ASSUME NEW i \in 1..(N - 1)
             PROVE  /\ labQueue'[i] \in Changes
                    /\ ~StaleIn(g[i - 1], labQueue'[i]) /\ g[i] = ReadTab(g[i - 1], labQueue'[i])
        <4>1. g[i - 1] = f[i] /\ g[i] = f[i + 1] /\ labQueue'[i] = labQueue[i + 1] /\ i + 1 \in 2..N /\ (i + 1) - 1 = i
          BY <2>2, <2>6, <3>9
        <4> QED
          BY <2>1, <3>6, <3>7, <4>1 DEF Leads
      <3>12. IsTheSession(g[N - 1])'
        <4>1. g[N - 1] = f[N]
          BY <2>2, <3>9
        <4>2. IsTheSession(f[N])
          BY <2>1, <3>6 DEF Leads
        <4> QED
          BY <1>2, <4>1, <4>2 DEF IsTheSession
      <3>13. \A n : n = Len(labQueue') => 0 \in 0..n /\ g \in [0..n -> Tab] /\ IsTheSession(g[n])'
        BY <2>2, <2>6, <3>9, <3>12
      <3>14. \A i \in (0 + 1)..Len(labQueue') : i \in 1..(N - 1)
        BY <2>6
      <3>15. Leads(0, g)'
        BY <2>6, <3>3, <3>10, <3>11, <3>13, <3>14 DEF Leads
      <3> QED
        BY <3>4, <3>5, <3>15 DEF LabFeedInv, QueueLeads
    <2> QED
      BY <2>9, <2>10
  <1> QED
    BY <1>1, <1>3, <1>4 DEF FeedSorts

LEMMA FeedLinks == LabFeedInv /\ (Attach \/ LoadPage \/ LinkEnds \/ Detach \/ UNCHANGED feedVars) => LabFeedInv'
  <1> SUFFICES ASSUME LabFeedInv, Attach \/ LoadPage \/ LinkEnds \/ Detach \/ UNCHANGED feedVars PROVE LabFeedInv'
    OBVIOUS
  <1>1. FeedSorts /\ LinkInv /\ QueueLeads
    BY DEF LabFeedInv
  <1>2. CASE Attach
    <2>1. /\ labQueue' = <<>> /\ tabLink' = "open"
          /\ overflowed' = FALSE /\ attached' = TRUE /\ helloAcked' = FALSE
          /\ UNCHANGED <<feedSession, usedIds, tabShows>>
      BY <1>2 DEF Attach
    <2>2. labQueue' \in Seq(Changes \cup Acks) /\ Len(labQueue') = 0 /\ 0 <= QueueLimit
      BY <2>1, LabFeedAssumption
    <2>3. FeedSorts'
      BY <1>1, <2>1, <2>2 DEF FeedSorts
    <2>4. \A i \in 1..Len(labQueue') : FALSE
      BY <2>2
    <2>5. LinkInv' /\ QueueLeads'
      BY <2>1, <2>4 DEF LinkInv, QueueLeads
    <2> QED
      BY <2>3, <2>5 DEF LabFeedInv
  <1>3. CASE LoadPage
    <2>1. tabLink = "none" /\ tabShows' = FeedShown(feedSession)
          /\ UNCHANGED <<feedSession, usedIds, labQueue, overflowed, attached, tabLink, helloAcked>>
      BY <1>3 DEF LoadPage
    <2>2. tabShows' \in Tab
      BY <1>1, <2>1, TabShowsAre DEF FeedSorts
    <2> QED
      BY <1>1, <2>1, <2>2 DEF LabFeedInv, FeedSorts, LinkInv, QueueLeads
  <1>4. CASE LinkEnds
    BY <1>1, <1>4 DEF LinkEnds, LabFeedInv, FeedSorts, LinkInv, QueueLeads
  <1>5. CASE Detach
    BY <1>1, <1>5 DEF Detach, LabFeedInv, FeedSorts, LinkInv, QueueLeads
  <1>6. CASE UNCHANGED feedVars
    BY <1>1, <1>6 DEF feedVars, LabFeedInv, FeedSorts, LinkInv, QueueLeads, Leads, IsTheSession
  <1> QED
    BY <1>2, <1>3, <1>4, <1>5, <1>6

LEMMA LabFeedStep == LabFeedInv /\ [FeedNext]_feedVars => LabFeedInv'
  BY FeedChanges, FeedGreets, FeedReads, FeedLinks DEF FeedNext

LEMMA LabFeedMeans == LabFeedInv => FeedTypeOK /\ TheTabIsTheSession
  <1> SUFFICES ASSUME LabFeedInv PROVE FeedTypeOK /\ TheTabIsTheSession
    OBVIOUS
  <1>1. FeedSorts /\ LinkInv /\ QueueLeads
    BY DEF LabFeedInv
  <1>2. FeedTypeOK
    BY <1>1 DEF FeedSorts, FeedTypeOK, Tab
  <1>3. ASSUME helloAcked, labQueue = <<>>, ~overflowed PROVE tabShows.rec = feedSession
    <2>1. PICK k, f : Leads(k, f)
      BY <1>1, <1>3 DEF LinkInv, QueueLeads
    <2>2. Len(labQueue) = 0
      BY <1>3
    <2>3. k = 0
      BY <2>1, <2>2 DEF Leads
    <2> QED
      BY <2>1, <2>2, <2>3 DEF Leads, IsTheSession
  <1> QED
    BY <1>2, <1>3 DEF TheTabIsTheSession

(* TheTabIsTheSession: a tab that is connected and has read its queue shows what *)
(* the session has, whatever it missed (tools/perception_lab/product_routes.py,  *)
(* static/remember/store/store.js).                                              *)
THEOREM TabsShowTheSession == FeedSpec => []TheTabIsTheSession
  BY LabFeedStart, LabFeedStep, LabFeedMeans, PTL DEF FeedSpec
=============================================================================
