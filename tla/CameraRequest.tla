---------------------------- MODULE CameraRequest ----------------------------
(***************************************************************************)
(* A fresh photo for the agent.  The agent asks the scene memory for one   *)
(* and waits (agent/src/scene-memory.ts); the memory keeps the request     *)
(* (memory/src/agent-bridge.ts); the capture page polls, claims it, takes  *)
(* a photo, uploads it and reports (memory/client/src/agentCommands.ts).   *)
(* Calls may fail on either way, the page may stop at any moment, and a    *)
(* request expires at any moment.                                          *)
(***************************************************************************)
EXTENDS Integers, Sequences, FiniteSets

CONSTANTS
    Request,      \* requests of the agent
    MaxPages,  \* bound: sessions of the page
    MaxOpen,      \* requests that may be open at a time (4)
    MaxTroubles   \* bound: calls that fail on the way

ASSUME CameraAssumption == {MaxPages, MaxOpen, MaxTroubles} \subseteq Nat /\ IsFiniteSet(Request)

VARIABLES
    agentCamera,       \* agent_camera: the row of each request
    wait,         \* the agent's tool call: how its wait for each request stands
    pageSession,      \* the sessions started so far; the last one is the page's
    polling,      \* does the page poll for it?
    recent,       \* the sessions polled in the last five seconds
    inbox,        \* commands polled and not yet handled, in order
    seenCommands,         \* commands the poller of this session has seen
    handling,     \* the command in hand, its session and how far it got
    upload,       \* the photo of each request: its session and how far its upload got
    kept,         \* requests whose photo the memory has stored
    interpreted,  \* requests whose photo has been interpreted
    toldCaptured,         \* requests the page shows as captured
    troubles      \* calls that have failed so far

cameraVars == <<agentCamera, wait, pageSession, polling, recent, inbox, seenCommands, handling, upload,
                kept, interpreted, toldCaptured, troubles>>
pageVars == <<pageSession, polling, recent, inbox, seenCommands, handling, toldCaptured>>

NoRow == [state |-> "none", session |-> 0, linked |-> FALSE, expired |-> FALSE]
NoUpload == [session |-> 0, at |-> "none"]
Nothing == [of |-> "nothing", session |-> 0, at |-> "none"]

CameraInit ==
    /\ agentCamera = [r \in Request |-> NoRow] /\ wait = [r \in Request |-> "no"]
    /\ pageSession = 0 /\ polling = FALSE /\ recent = {} /\ inbox = <<>> /\ seenCommands = {} /\ handling = Nothing
    /\ upload = [r \in Request |-> NoUpload] /\ kept = {} /\ interpreted = {} /\ toldCaptured = {} /\ troubles = 0

Trouble == troubles < MaxTroubles /\ troubles' = troubles + 1

Open(r) == agentCamera[r].state \in {"pending", "claimed", "captured"} /\ ~agentCamera[r].expired

\* Mutant: an expired request stays expired though its photo is there.
Answer_ExpiredFirst(r) ==
    IF agentCamera[r].expired THEN "expired"
    ELSE IF agentCamera[r].linked /\ r \in interpreted THEN "completed"
    ELSE agentCamera[r].state

(* What the memory answers about a request: an interpreted photo beats everything. *)
Answer(r) ==
    IF agentCamera[r].linked /\ r \in interpreted THEN "completed"
    ELSE IF agentCamera[r].expired /\ agentCamera[r].state # "failed" THEN "expired"
    ELSE agentCamera[r].state

-----------------------------------------------------------------------------
(* The agent. *)

(* The classifier asks for the device's session, a tool for the latest one; a request that is there is reused. *)
Ask(r) ==
    /\ wait[r] = "no"
    /\ \/ /\ agentCamera[r].state = "none"
          /\ recent # {}
          /\ Cardinality({q \in Request : Open(q)}) < MaxOpen
          /\ \E s \in recent : agentCamera' = [agentCamera EXCEPT ![r] = [NoRow EXCEPT !.state = "pending", !.session = s]]
       \/ agentCamera[r].state # "none" /\ UNCHANGED agentCamera
    /\ wait' = [wait EXCEPT ![r] = "waiting"]
    /\ UNCHANGED <<pageVars, upload, kept, interpreted, troubles>>

(* Its answer is lost: the tool fails, the request stays; a later tool call may wait for it. *)
AskLost(r) ==
    /\ wait[r] = "waiting"
    /\ Trouble
    /\ wait' = [wait EXCEPT ![r] = "no"]
    /\ UNCHANGED <<agentCamera, pageVars, upload, kept, interpreted>>

(* The tool looks every 200 ms, for 45 s: its clock may run out before it sees what has become of the request. *)
LookUp(r) ==
    /\ wait[r] = "waiting"
    /\ \/ wait' = [wait EXCEPT ![r] = IF Answer(r) = "completed" THEN "photo"
                                      ELSE IF Answer(r) \in {"failed", "expired"} THEN Answer(r) ELSE "waiting"]
       \/ agentCamera[r].expired /\ wait' = [wait EXCEPT ![r] = "timeout"]
    /\ UNCHANGED <<agentCamera, pageVars, upload, kept, interpreted, troubles>>

(* 45 seconds have passed since the request. *)
ExpireRequest(r) ==
    /\ agentCamera[r].state # "none" /\ ~agentCamera[r].expired
    /\ agentCamera' = [agentCamera EXCEPT ![r].expired = TRUE]
    /\ UNCHANGED <<wait, pageVars, upload, kept, interpreted, troubles>>

-----------------------------------------------------------------------------
(* The page. *)

StartPage ==
    /\ ~polling /\ pageSession < MaxPages
    /\ pageSession' = pageSession + 1 /\ polling' = TRUE /\ inbox' = <<>> /\ seenCommands' = {} /\ handling' = Nothing
    /\ UNCHANGED <<agentCamera, wait, recent, upload, kept, interpreted, toldCaptured, troubles>>

(* After Stop nothing that resolves has any effect; an upload goes on by itself. *)
StopPage ==
    /\ polling
    /\ polling' = FALSE /\ inbox' = <<>> /\ handling' = Nothing
    /\ UNCHANGED <<agentCamera, wait, pageSession, recent, seenCommands, upload, kept, interpreted, toldCaptured, troubles>>

(* The five seconds since the last poll of a session are over. *)
Lapse(s) ==
    /\ recent' = recent \ {s}
    /\ UNCHANGED <<agentCamera, wait, pageSession, polling, inbox, seenCommands, handling, upload, kept, interpreted, toldCaptured, troubles>>

(* One poll: the open commands of this session that are new, expired ones only remembered. *)
Poll ==
    LET new == {r \in Request : agentCamera[r].state = "pending" /\ agentCamera[r].session = pageSession /\ ~agentCamera[r].expired} \ seenCommands
    IN /\ polling
       /\ recent' = recent \cup {pageSession}
       /\ seenCommands' = seenCommands \cup new
       /\ \E order \in [1..Cardinality(new) -> new] :
            {order[i] : i \in DOMAIN order} = new /\ inbox' = inbox \o order
       /\ UNCHANGED <<agentCamera, wait, pageSession, polling, handling, upload, kept, interpreted, toldCaptured, troubles>>

Handle(at) == handling' = [handling EXCEPT !.at = at]
Done == handling' = Nothing
KeepPage == UNCHANGED <<pageSession, polling, recent, inbox, seenCommands>>

BeginClaim ==
    /\ polling /\ handling = Nothing /\ inbox # <<>>
    /\ handling' = [of |-> Head(inbox), session |-> pageSession, at |-> "claiming"]
    /\ inbox' = Tail(inbox)
    /\ UNCHANGED <<agentCamera, wait, pageSession, polling, recent, seenCommands, upload, kept, interpreted, toldCaptured, troubles>>

Claimable(r, s) == agentCamera[r].state = "pending" /\ agentCamera[r].session = s /\ ~agentCamera[r].expired

(* The claim reaches the memory; its answer may be lost, and the command is then dropped. *)
Claim ==
    LET r == handling.of IN
    /\ handling.at = "claiming"
    /\ IF Claimable(r, handling.session)
       THEN /\ agentCamera' = [agentCamera EXCEPT ![r].state = "claimed"]
            /\ \/ Handle("claimed") /\ UNCHANGED troubles
               \/ Trouble /\ Done
       ELSE Done /\ UNCHANGED <<agentCamera, troubles>>
    /\ KeepPage /\ UNCHANGED <<wait, upload, kept, interpreted, toldCaptured>>

(* The claimed photo is drawn; without one, or too late, the failure is reported. *)
Shoot ==
    /\ handling.at = "claimed"
    /\ \/ ~agentCamera[handling.of].expired
          /\ upload' = [upload EXCEPT ![handling.of] = [session |-> handling.session, at |-> "sending"]]
          /\ Handle("capturing") /\ UNCHANGED troubles
       \/ agentCamera[handling.of].expired /\ Handle("failing") /\ UNCHANGED <<upload, troubles>>
       \/ Trouble /\ Handle("failing") /\ UNCHANGED upload
    /\ KeepPage /\ UNCHANGED <<agentCamera, wait, kept, interpreted, toldCaptured>>

(* The capture ends: accepted with 202, refused, or without an answer in time. *)
CaptureEnds ==
    LET r == handling.of IN
    /\ handling.at = "capturing"
    /\ \/ upload[r].at = "accepted" /\ Handle("reporting") /\ UNCHANGED troubles
       \/ upload[r].at = "refused" /\ Handle("failing") /\ UNCHANGED troubles
       \/ upload[r].at \notin {"accepted", "refused"} /\ Trouble /\ Handle("failing")
    /\ KeepPage /\ UNCHANGED <<agentCamera, wait, upload, kept, interpreted, toldCaptured>>

(* The report.  A failure counts only while the request is claimed; whether the report arrives *)
(* or not, an accepted photo is shown as captured.                                             *)
Report ==
    LET r == handling.of IN
    /\ handling.at \in {"reporting", "failing"}
    /\ \/ /\ agentCamera' = [agentCamera EXCEPT ![r].state = IF handling.at = "failing" /\ @ = "claimed" THEN "failed" ELSE @]
          /\ UNCHANGED troubles
       \/ Trouble /\ UNCHANGED agentCamera
    /\ toldCaptured' = IF handling.at = "reporting" THEN toldCaptured \cup {r} ELSE toldCaptured
    /\ Done
    /\ KeepPage /\ UNCHANGED <<wait, upload, kept, interpreted>>

-----------------------------------------------------------------------------
(* The upload of a photo: checked, stored, then joined to its request. *)

Upload(r, at) == upload' = [upload EXCEPT ![r].at = at]

StillAsked(r) ==
    /\ agentCamera[r].session = upload[r].session
    /\ agentCamera[r].state \in {"claimed", "captured"}
    /\ agentCamera[r].linked \/ ~agentCamera[r].expired

Check(r) ==
    /\ upload[r].at = "sending"
    /\ Upload(r, IF StillAsked(r) THEN "storing" ELSE "refused")
    /\ UNCHANGED <<agentCamera, wait, pageVars, kept, interpreted, troubles>>

(* Disk full, queue full: nothing is kept, the page is told. *)
StoreFails(r) ==
    /\ upload[r].at = "storing" /\ r \notin kept
    /\ Trouble
    /\ Upload(r, "refused")
    /\ UNCHANGED <<agentCamera, wait, pageVars, kept, interpreted>>

StorePhoto(r) ==
    /\ upload[r].at = "storing"
    /\ kept' = kept \cup {r}
    /\ Upload(r, "stored")
    /\ UNCHANGED <<agentCamera, wait, pageVars, interpreted, troubles>>

Joinable(r) == agentCamera[r].linked \/ (agentCamera[r].state \in {"claimed", "captured"} /\ ~agentCamera[r].expired)

\* Mutant: the upload is answered with 202 before its request is looked at.
NotJoined_Accepted(r) == Upload(r, "answering") /\ UNCHANGED agentCamera

NotJoined(r) == Upload(r, "refused") /\ UNCHANGED agentCamera

(* captureAccepted: a request that failed or expired while the photo was stored does not get it. *)
Join(r) ==
    /\ upload[r].at = "stored"
    /\ IF Joinable(r)
       THEN /\ agentCamera' = [agentCamera EXCEPT ![r].state = "captured", ![r].linked = TRUE]
            /\ Upload(r, "answering")
       ELSE NotJoined(r)
    /\ UNCHANGED <<wait, pageVars, kept, interpreted, troubles>>

(* The answer arrives, or is lost and the same body is sent again. *)
UploadAnswered(r) ==
    /\ upload[r].at = "answering"
    /\ \/ Upload(r, "accepted") /\ UNCHANGED troubles
       \/ Trouble /\ Upload(r, "sending")
    /\ UNCHANGED <<agentCamera, wait, pageVars, kept, interpreted>>

SeeCommand(r) ==
    /\ r \in kept \ interpreted
    /\ interpreted' = interpreted \cup {r}
    /\ UNCHANGED <<agentCamera, wait, pageVars, upload, kept, troubles>>

CameraNext ==
    \/ \E r \in Request :
          \/ Ask(r) \/ AskLost(r) \/ LookUp(r) \/ ExpireRequest(r)
          \/ Check(r) \/ StoreFails(r) \/ StorePhoto(r) \/ Join(r) \/ UploadAnswered(r) \/ SeeCommand(r)
    \/ StartPage \/ StopPage \/ Poll \/ BeginClaim \/ Claim \/ Shoot \/ CaptureEnds \/ Report
    \/ \E s \in recent : Lapse(s)

CameraSpec == CameraInit /\ [][CameraNext]_cameraVars

-----------------------------------------------------------------------------
CameraTypeOK ==
    /\ agentCamera \in [Request -> [state: {"none", "pending", "claimed", "captured", "failed"},
                               session: 0..MaxPages, linked: BOOLEAN, expired: BOOLEAN]]
    /\ upload \in [Request -> [session: 0..MaxPages,
                               at: {"none", "sending", "storing", "stored", "answering", "accepted", "refused"}]]
    /\ interpreted \subseteq kept
    /\ wait \in [Request -> {"no", "waiting", "photo", "failed", "expired", "timeout"}]

(* The page shows a photo as captured for the agent only when the request has it:   *)
(* the memory answers 202 after it has joined them, and a failure that was reported *)
(* meanwhile does not undo it.                                                      *)
ShownIsJoined == \A r \in toldCaptured : agentCamera[r].linked /\ agentCamera[r].state = "captured" /\ r \in kept

(* What the agent has been told about a request stays so: a completed request is    *)
(* never failed or expired again, a failed one never gets a photo.                  *)
AnswersAreFinal == [][\A r \in Request : Answer(r) \in {"completed", "failed"} => Answer(r)' = Answer(r)]_cameraVars
=============================================================================
