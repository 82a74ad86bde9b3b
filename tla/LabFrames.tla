------------------------------ MODULE LabFrames ------------------------------
(***************************************************************************)
(* A stream of frames of the perception lab: the page grabs a frame of the *)
(* camera, sends it, and attributes the next reply to it - so that one     *)
(* frame at most may be out.  The face stream also carries commands of the *)
(* page, which the same service answers in turn.                           *)
(***************************************************************************)
EXTENDS Integers, Sequences, SequencesExt, FiniteSets

CONSTANTS
    FaceStream,    \* the stream of faces, or that of objects
    FrameStarts,   \* bound: times the stream is started
    MaxLabFrames,     \* bound: frames that are sent
    FrameCommands  \* bound: commands (to enroll a face)

ASSUME LabFramesAssumption ==
    FaceStream \in BOOLEAN /\ {FrameStarts, MaxLabFrames, FrameCommands} \subseteq Nat

VARIABLES
    frameRun,    \* the number of the run of the last start()
    framePhase,  \* of that run: idle when it has ended
    tickDue,     \* its loop timer is set
    grabbing,    \* run -> ticks that await a picture of the camera
    inFlight,    \* the frame a reply is awaited for (0: none)
    toService,   \* on the socket of the run, what the service has not read
    fromService, \* on the socket of the run, what the page has not read
    socketShut,  \* the service has closed it
    sentFrames,
    sentCommands,
    credited,    \* of the run: <<the frame a reply is of, the frame it was attributed to>>
    frameEnds,   \* run -> terminal statuses
    freed        \* a reply of something else has released the slot of a frame that was out

frameVars == <<frameRun, framePhase, tickDue, grabbing, inFlight, toService, fromService, socketShut, sentFrames,
               sentCommands, credited, frameEnds, freed>>

FrameRuns == 1..FrameStarts
Frames == 1..MaxLabFrames
\* What the service reads: a frame, or a command.
CommandMsg == 0
\* A reply with the frame it is of, or the refusal of a command.
FrameReply == [type : {"frame", "busy", "error"}, of : 0..MaxLabFrames]
ReadyMsg == [type |-> "ready", of |-> 0]

FramesInit ==
    /\ frameRun = 0 /\ framePhase = "idle" /\ tickDue = FALSE /\ grabbing = [r \in FrameRuns |-> 0] /\ inFlight = 0
    /\ toService = <<>> /\ fromService = <<>> /\ socketShut = FALSE
    /\ sentFrames = 0 /\ sentCommands = 0 /\ credited = {} /\ frameEnds = [r \in FrameRuns |-> 0] /\ freed = FALSE

\* Frames the service has not answered, or whose answer the page has not read.
FramesOut == {f \in Frames : f \in Range(toService) \/ \E m \in Range(fromService) : m.of = f}
FrameSocketOpen == framePhase # "idle" /\ ~socketShut

-----------------------------------------------------------------------------
(* end(): the handlers are detached, the socket is closed, the timers are cleared; *)
(* a picture that is awaited is still going to arrive.                             *)
RunOver ==
    /\ framePhase' = "idle" /\ tickDue' = FALSE /\ inFlight' = 0
    /\ toService' = <<>> /\ fromService' = <<>> /\ socketShut' = FALSE

StopFrames ==
    /\ framePhase # "idle" /\ RunOver
    /\ frameEnds' = [frameEnds EXCEPT ![frameRun] = @ + 1]
    /\ UNCHANGED <<frameRun, grabbing, sentFrames, sentCommands, credited, freed>>

(* begin(): a run that goes on is ended first. *)
StartFrames ==
    /\ frameRun < FrameStarts /\ frameRun' = frameRun + 1
    /\ framePhase' = "connecting" /\ tickDue' = FALSE /\ inFlight' = 0
    /\ toService' = <<>> /\ fromService' = <<ReadyMsg>> /\ socketShut' = FALSE
    /\ credited' = {} /\ freed' = FALSE
    /\ frameEnds' = IF framePhase = "idle" THEN frameEnds ELSE [frameEnds EXCEPT ![frameRun] = @ + 1]
    /\ UNCHANGED <<grabbing, sentFrames, sentCommands>>

-----------------------------------------------------------------------------
(* tick(): the loop timer rings.  An error that arrives while a picture is awaited sets it again: *)
(* two ticks may await one.                                                                       *)
Tick ==
    /\ tickDue /\ tickDue' = FALSE
    /\ grabbing' = IF FrameSocketOpen /\ inFlight = 0 THEN [grabbing EXCEPT ![frameRun] = @ + 1] ELSE grabbing
    /\ UNCHANGED <<frameRun, framePhase, inFlight, toService, fromService, socketShut, sentFrames, sentCommands,
                   credited, frameEnds, freed>>

StillOurs(r) == r = frameRun /\ framePhase = "running"
MaySend(r) == StillOurs(r) /\ inFlight = 0 /\ FrameSocketOpen

(* The picture arrives, or there is none: the run may have ended, and another tick of the *)
(* same run may have sent one since.                                                       *)
Grabbed(r, picture) ==
    /\ grabbing[r] > 0 /\ grabbing' = [grabbing EXCEPT ![r] = @ - 1]
    /\ IF picture /\ MaySend(r)
       THEN /\ sentFrames < MaxLabFrames /\ sentFrames' = sentFrames + 1
            /\ inFlight' = sentFrames + 1 /\ toService' = Append(toService, sentFrames + 1)
            /\ UNCHANGED tickDue
       ELSE /\ tickDue' = (tickDue \/ StillOurs(r))
            /\ UNCHANGED <<inFlight, toService, sentFrames>>
    /\ UNCHANGED <<frameRun, framePhase, fromService, socketShut, sentCommands, credited, frameEnds, freed>>

(* No reply in time: end() with an error. *)
ReplyTimeout == inFlight # 0 /\ StopFrames

(* enroll(): a command is sent at once, whatever is out. *)
SendCommand ==
    /\ FaceStream /\ framePhase = "running" /\ FrameSocketOpen
    /\ sentCommands < FrameCommands /\ sentCommands' = sentCommands + 1
    /\ toService' = Append(toService, CommandMsg)
    /\ UNCHANGED <<frameRun, framePhase, tickDue, grabbing, inFlight, fromService, socketShut, sentFrames, credited,
                   frameEnds, freed>>

-----------------------------------------------------------------------------
(* onMessage(): ready, a frame, busy, an error. *)

GoesOnAfter(m) == m.type \in {"ready", "frame", "busy", "error"}

Attributed(m) == m.type = "frame" /\ (inFlight # 0 \/ ~FaceStream)

ReceiveReply ==
    /\ framePhase # "idle" /\ fromService # <<>> /\ fromService' = Tail(fromService)
    /\ LET m == Head(fromService)
           ignored == m.type = "frame" /\ ~Attributed(m)
       IN  /\ framePhase' = IF m.type = "ready" THEN "running" ELSE framePhase
           /\ credited' = IF Attributed(m) THEN credited \cup {<<m.of, inFlight>>} ELSE credited
           /\ inFlight' = IF ignored THEN inFlight ELSE 0
           /\ tickDue' = (tickDue \/ (GoesOnAfter(m) /\ ~ignored))
           /\ freed' = (freed \/ (inFlight # 0 /\ m.of # inFlight))
    /\ UNCHANGED <<frameRun, grabbing, toService, socketShut, sentFrames, sentCommands, frameEnds>>

(* onClose: once the rest has been read. *)
FrameSocketCloses == socketShut /\ fromService = <<>> /\ StopFrames

-----------------------------------------------------------------------------
(* The service answers what it reads in its order: a frame with its faces or objects, with    *)
(* busy (the model is in use, or timed out) or, the faces, with an error; a command it carries *)
(* out, which the page is told without the slot, or refuses.                                   *)
Serve ==
    /\ toService # <<>> /\ ~socketShut /\ toService' = Tail(toService)
    /\ LET x == Head(toService)
       IN  IF x = CommandMsg
           THEN fromService' \in {fromService, Append(fromService, [type |-> "error", of |-> 0])}
           ELSE \E t \in {"frame", "busy"} \cup (IF FaceStream THEN {"error"} ELSE {}) :
                   fromService' = Append(fromService, [type |-> t, of |-> x])
    /\ UNCHANGED <<frameRun, framePhase, tickDue, grabbing, inFlight, socketShut, sentFrames, sentCommands, credited,
                   frameEnds, freed>>

(* It ends the connection: after ten minutes, an error, or for its own reasons. *)
ServiceCloses ==
    /\ framePhase # "idle" /\ ~socketShut /\ socketShut' = TRUE
    /\ fromService' \in {fromService, Append(fromService, [type |-> "error", of |-> 0])}
    /\ UNCHANGED <<frameRun, framePhase, tickDue, grabbing, inFlight, toService, sentFrames, sentCommands, credited,
                   frameEnds, freed>>

FramesNext ==
    \/ StartFrames \/ StopFrames \/ Tick \/ ReplyTimeout \/ SendCommand \/ ReceiveReply \/ FrameSocketCloses
    \/ Serve \/ ServiceCloses
    \/ \E r \in FrameRuns, picture \in BOOLEAN : Grabbed(r, picture)

FramesSpec == FramesInit /\ [][FramesNext]_frameVars

-----------------------------------------------------------------------------
FramesTypeOK ==
    /\ frameRun \in 0..FrameStarts /\ framePhase \in {"idle", "connecting", "running"}
    /\ grabbing \in [FrameRuns -> Nat] /\ inFlight \in 0..MaxLabFrames
    /\ toService \in Seq({CommandMsg} \cup Frames) /\ fromService \in Seq(FrameReply \cup {ReadyMsg})
    /\ {tickDue, socketShut, freed} \subseteq BOOLEAN /\ credited \subseteq (Frames \X (0..MaxLabFrames))

(* A reply is attributed to the frame it is of, and no second frame is out while one is       *)
(* unanswered, whatever restarts, timeouts and late pictures there are - until an error that   *)
(* answers a command, or comes before a close, has released the slot of a frame still out.     *)
OnlyErrorsMixFrames == (\E c \in credited : c[1] # c[2]) \/ Cardinality(FramesOut) > 1 => freed

(* A stream that runs goes on: a tick is due, a picture is awaited, a reply is awaited or the *)
(* connection is closing; and every run that is over has said so once.                        *)
StreamGoesOn ==
    /\ framePhase = "running" => tickDue \/ grabbing[frameRun] > 0 \/ inFlight # 0 \/ socketShut
    /\ \A r \in FrameRuns : frameEnds[r] = IF r < frameRun \/ (r = frameRun /\ framePhase = "idle") THEN 1 ELSE 0
=============================================================================
