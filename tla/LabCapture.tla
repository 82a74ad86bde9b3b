------------------------------ MODULE LabCapture ------------------------------
(***************************************************************************)
(* Capture in a tab of the perception lab: the devices of the page, the    *)
(* control connection, and what the session on the service is told of it.  *)
(* A start asks for the camera and the microphone, waits for both, and for *)
(* the word of the session; a stop, a device that ends, or a lost          *)
(* connection may come in between.                                         *)
(***************************************************************************)
EXTENDS Integers, Sequences, FiniteSets

CONSTANTS
    Device,        \* camera, microphone
    CaptureStarts, \* bound: starts
    ControlLinks   \* bound: control connections

ASSUME LabCaptureAssumption == IsFiniteSet(Device) /\ {CaptureStarts, ControlLinks} \subseteq Nat

VARIABLES
    captureGen,   \* starts so far
    startPhase,   \* of the last start: idle, asking, telling, capturing
    asking,       \* start -> devices it has asked for and not been given yet
    liveTracks,         \* <<start, device>>: tracks that are live
    control,      \* the control connection of the page: none, open (hello answered)
    controlLinks,
    toSession,    \* what the session has not read: the devices the page says are live
    ackDue,       \* the acknowledgement the start waits for is on its way: none, coming, here
    serves,       \* the session has a socket
    believedLive,     \* the devices the session holds to be live
    doubted       \* the page has given up waiting for the session to say that it knows

captureVars == <<captureGen, startPhase, asking, liveTracks, control, controlLinks, toSession, ackDue, serves, believedLive, doubted>>

CaptureGens == 1..CaptureStarts
LiveDevices == {d \in Device : <<captureGen, d>> \in liveTracks}

CaptureInit ==
    /\ captureGen = 0 /\ startPhase = "idle" /\ asking = [g \in CaptureGens |-> {}] /\ liveTracks = {}
    /\ control = "none" /\ controlLinks = 0 /\ toSession = <<>> /\ ackDue = "none"
    /\ serves = FALSE /\ believedLive = {} /\ doubted = FALSE

-----------------------------------------------------------------------------
(* capture.stop(): the tracks that are held are stopped; what is still awaited is given back *)
(* when it comes.                                                                             *)
Tell(devices) == toSession' = IF control = "open" THEN Append(toSession, devices) ELSE toSession

(* stopCapture(), and the word to the session that all is off. *)
EndCapture == startPhase' = "idle" /\ liveTracks' = {} /\ ackDue' = "none"

UserStops ==
    /\ startPhase # "idle" /\ EndCapture /\ Tell({}) /\ doubted' = FALSE
    /\ UNCHANGED <<captureGen, asking, control, controlLinks, serves, believedLive>>

(* startCapture(): not while one goes on, and only when the session has answered. *)
RequestCapture(wants) ==
    /\ startPhase = "idle" /\ control = "open" /\ captureGen < CaptureStarts /\ wants # {}
    /\ captureGen' = captureGen + 1 /\ startPhase' = "asking"
    /\ asking' = [asking EXCEPT ![captureGen + 1] = wants]
    /\ UNCHANGED <<liveTracks, control, controlLinks, toSession, ackDue, serves, believedLive, doubted>>

StillCurrent(g) == g = captureGen /\ startPhase # "idle"

(* getUserMedia() answers: a device or a refusal. *)
DeviceAnswers(g, d, granted) ==
    /\ d \in asking[g] /\ asking' = [asking EXCEPT ![g] = @ \ {d}]
    /\ liveTracks' = IF granted /\ StillCurrent(g) THEN liveTracks \cup {<<g, d>>} ELSE liveTracks
    /\ UNCHANGED <<captureGen, startPhase, control, controlLinks, toSession, ackDue, serves, believedLive, doubted>>

(* All have answered: none is live, or the session is told - if it can be. *)
Granted ==
    /\ startPhase = "asking" /\ asking[captureGen] = {}
    /\ IF LiveDevices = {} \/ control # "open"
       THEN EndCapture /\ UNCHANGED toSession
       ELSE /\ startPhase' = "telling" /\ Tell(LiveDevices) /\ ackDue' = "coming" /\ UNCHANGED liveTracks
    /\ UNCHANGED <<captureGen, asking, control, controlLinks, serves, believedLive, doubted>>

CaptureOn ==
    /\ startPhase = "telling" /\ ackDue = "here" /\ startPhase' = "capturing" /\ ackDue' = "none"
    /\ UNCHANGED <<captureGen, asking, liveTracks, control, controlLinks, toSession, serves, believedLive, doubted>>

(* Ten seconds without an answer: the devices are released, and the session is not told. *)
AckTimeout ==
    /\ startPhase = "telling" /\ EndCapture /\ doubted' = TRUE
    /\ UNCHANGED <<captureGen, asking, control, controlLinks, toSession, serves, believedLive>>

(* A track ends on its own: the other one is stopped as well. *)
TrackEnds == liveTracks # {} /\ UserStops

-----------------------------------------------------------------------------
(* The control connection: lost, and made again once the session is rid of the last one. *)
ControlLost ==
    /\ control = "open" /\ control' = "none"
    /\ toSession' = <<>>
    /\ IF startPhase \in {"telling", "capturing"} THEN EndCapture ELSE UNCHANGED <<startPhase, liveTracks, ackDue>>
    /\ doubted' = FALSE
    /\ UNCHANGED <<captureGen, asking, controlLinks, serves, believedLive>>

ControlOpens ==
    /\ control = "none" /\ ~serves /\ controlLinks < ControlLinks
    /\ control' = "open" /\ controlLinks' = controlLinks + 1 /\ serves' = TRUE
    /\ UNCHANGED <<captureGen, startPhase, asking, liveTracks, toSession, ackDue, believedLive, doubted>>

(* capture.status in the session, which starts and stops its clips and its decisions by it. *)
SessionHears ==
    /\ toSession # <<>> /\ toSession' = Tail(toSession) /\ believedLive' = Head(toSession)
    /\ ackDue' = IF ackDue = "coming" /\ Len(toSession) = 1 THEN "here" ELSE ackDue
    /\ UNCHANGED <<captureGen, startPhase, asking, liveTracks, control, controlLinks, serves, doubted>>

Paused == {}

(* pause(): the page is gone. *)
SessionPauses ==
    /\ serves /\ control = "none" /\ serves' = FALSE /\ believedLive' = Paused
    /\ UNCHANGED <<captureGen, startPhase, asking, liveTracks, control, controlLinks, toSession, ackDue, doubted>>

CaptureNext ==
    \/ \E wants \in SUBSET Device : RequestCapture(wants)
    \/ \E g \in CaptureGens, d \in Device, granted \in BOOLEAN : DeviceAnswers(g, d, granted)
    \/ UserStops \/ Granted \/ CaptureOn \/ AckTimeout \/ TrackEnds
    \/ ControlLost \/ ControlOpens \/ SessionHears \/ SessionPauses

CaptureSpec == CaptureInit /\ [][CaptureNext]_captureVars

-----------------------------------------------------------------------------
CaptureTypeOK ==
    /\ captureGen \in 0..CaptureStarts /\ startPhase \in {"idle", "asking", "telling", "capturing"}
    /\ asking \in [CaptureGens -> SUBSET Device] /\ liveTracks \subseteq CaptureGens \X Device
    /\ control \in {"none", "open"} /\ toSession \in Seq(SUBSET Device) /\ ackDue \in {"none", "coming", "here"}
    /\ believedLive \subseteq Device

(* A device is live for the start that goes on and for no other: one that is given after a stop, *)
(* or to a start that has been replaced, is released.                                             *)
NoDeviceIsLeftOn == \A h \in liveTracks : h[1] = captureGen /\ startPhase # "idle"

(* Once it has read what the page has said, the session believes the devices live that are, or that *)
(* a start that goes on is about to say are - unless the page gave up waiting for its answer.        *)
TheSessionKnowsWhatIsOn ==
    /\ toSession = <<>> /\ control = "open" /\ ~doubted /\ startPhase # "asking" => believedLive = LiveDevices
    /\ startPhase = "capturing" => control = "open" /\ LiveDevices # {}
    /\ control = "none" /\ ~serves => believedLive = {}
===============================================================================
