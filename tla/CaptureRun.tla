------------------------------ MODULE CaptureRun ------------------------------
(***************************************************************************)
(* One run of the capture page (memory/client/src): from Start to the      *)
(* photo that Stop takes last.  Every photo is drawn, encoded, given to    *)
(* the one slot of the face socket, and submitted once, with the faces of  *)
(* its own reply or with none (session.ts, faceSlot.ts, faceLink.ts,       *)
(* submissions.ts).  The face server answers the frames of a socket in     *)
(* order, may call itself busy, may fall silent and may close the socket.  *)
(***************************************************************************)
EXTENDS Integers, Sequences, FiniteSets

CONSTANTS
    MaxPhotos,      \* bound: photos of a run
    QueueLength,    \* maxQueue of the face slot (2)
    BusyRetries,    \* maxBusyRetries (4)
    MaxConnections,    \* connections after a failure (6)
    MaxMishaps,     \* bound: failed requests, busy answers, closed and recycled sockets
    InFlight,       \* maxInFlight submissions (4)
    Tries           \* maxAttempts of a submission (3)

ASSUME RunAssumption ==
    /\ {MaxPhotos, QueueLength, BusyRetries, MaxConnections, MaxMishaps} \subseteq Nat
    /\ {InFlight, Tries} \subseteq Nat \ {0}

VARIABLES
    run,        \* the phase of the run; "flushed" is Stop past its speech flush
    photo,      \* the photos drawn, in the order of their sequence numbers
    slot,       \* the face slot: its flight, its queue, and the socket it trusts
    owed,       \* the frames the face server has still to answer on the current socket
    link,       \* the face socket
    mishaps     \* failed requests, busy answers, closed and recycled sockets so far

runVars == <<run, photo, slot, owed, link, mishaps>>

Photos == 1..Len(photo)
Live == 0                     \* a frame of the 5 fps loop
NoFlight == [of |-> -1, epoch |-> 0, busy |-> 0]
Flying == slot.flight # NoFlight
RunStopped == run \in {"stopping", "flushed", "stopped"}

Mishap == mishaps < MaxMishaps /\ mishaps' = mishaps + 1

RunInit ==
    /\ run = "idle" /\ photo = <<>> /\ mishaps = 0 /\ owed = <<>>
    /\ slot = [flight |-> NoFlight, queue |-> <<>>, ready |-> FALSE, epoch |-> 0]
    /\ link = [epoch |-> 0, socket |-> "none", attempt |-> 0]

-----------------------------------------------------------------------------
(* Submissions: a window of requests, the identical body up to Tries times. *)

Sending == {p \in Photos : photo[p].at = "sending"}

(* The photos of ps are submitted without faces, if they still wait for them. *)
WithoutFaces(ps) ==
    LET waiting == {p \in ps \cap Photos : photo[p].at \in {"encoding", "facing"}}
        room    == InFlight - Cardinality(Sending)
    IN {f \in [Photos -> {"sending", "failed", "as it was"}] :
            /\ \A p \in Photos : (f[p] = "as it was") <=> p \notin waiting
            /\ Cardinality({p \in waiting : f[p] = "sending"}) =
                 IF Cardinality(waiting) < room THEN Cardinality(waiting) ELSE room}

SubmittedWithout(ps, faces) == \E f \in WithoutFaces(ps) :
    photo' = [p \in Photos |-> IF f[p] = "as it was" THEN photo[p]
                               ELSE [photo[p] EXCEPT !.at = f[p], !.faces = faces, !.tries = 1]]

AcceptPhoto(p) ==
    /\ p \in Sending
    /\ photo' = [photo EXCEPT ![p].at = "accepted", ![p].tries = 0]
    /\ UNCHANGED <<run, slot, owed, link, mishaps>>

(* The server refuses it (4xx), or it has failed often enough; another failure is tried again. *)
Fails(p, refused) ==
    /\ p \in Sending
    /\ Mishap
    /\ photo' = IF refused \/ photo[p].tries = Tries
                  THEN [photo EXCEPT ![p].at = "failed", ![p].tries = 0]
                  ELSE [photo EXCEPT ![p].tries = @ + 1]
    /\ UNCHANGED <<run, slot, owed, link>>

-----------------------------------------------------------------------------
(* The face slot.  At most one frame is outstanding; photos wait in a short queue. *)

CanSend(s) == link.socket = "ready" /\ link.epoch = s.epoch

(* The slot and the frames owed after sending what can be sent. *)
Pumped(s, o) ==
    IF ~s.ready \/ s.flight # NoFlight \/ s.queue = <<>> THEN [slot |-> s, owed |-> o]
    ELSE IF CanSend(s)
         THEN [slot |-> [s EXCEPT !.flight = [Head(s.queue) EXCEPT !.epoch = s.epoch], !.queue = Tail(@)],
               owed |-> Append(o, Head(s.queue).of)]
         ELSE [slot |-> [s EXCEPT !.ready = FALSE], owed |-> o]

SlotBecomes(r) == slot' = r.slot /\ owed' = r.owed

InLine(p) == [of |-> p, epoch |-> 0, busy |-> 0]
InSlot == {slot.flight.of} \cup {slot.queue[i].of : i \in 1..Len(slot.queue)}

(* An encoded photo is sent, queued, or submitted without faces when the queue is full. *)
Enqueue(p) ==
    LET direct == slot.ready /\ ~Flying /\ slot.queue = <<>>
        s      == IF direct /\ ~CanSend(slot) THEN [slot EXCEPT !.ready = FALSE] ELSE slot
    IN IF ~(direct /\ CanSend(slot)) /\ Len(slot.queue) >= QueueLength
       THEN SubmittedWithout({p}, "none") /\ slot' = s /\ UNCHANGED owed
       ELSE /\ photo' = [photo EXCEPT ![p].at = "facing"]
            /\ IF direct THEN SlotBecomes(Pumped([s EXCEPT !.queue = Append(@, InLine(p))], owed))
               ELSE slot' = [s EXCEPT !.queue = Append(@, InLine(p))] /\ UNCHANGED owed

(* The socket of an epoch is gone: the frame on it is never answered. *)
LostSlot(epoch) ==
    IF epoch # slot.epoch THEN slot
    ELSE [slot EXCEPT !.ready = FALSE, !.flight = IF @.epoch = epoch THEN NoFlight ELSE @]

LostPhotos(epoch) == IF Flying /\ epoch = slot.epoch /\ slot.flight.epoch = epoch THEN {slot.flight.of} ELSE {}

Drop == owed' = <<>>

(* A socket is given up: reconnect later, unless it has failed too often. *)
NextSocket(attempt) ==
    [link EXCEPT !.socket = IF attempt >= MaxConnections THEN "error" ELSE "waiting",
                 !.attempt = IF attempt >= MaxConnections THEN attempt ELSE attempt + 1]

-----------------------------------------------------------------------------
(* Start and the photos of the run. *)

Start == run = "idle" /\ run' = "starting" /\ UNCHANGED <<photo, slot, owed, link, mishaps>>

(* The session is created and the camera is live: the face socket opens. *)
Started ==
    /\ run = "starting"
    /\ run' = "running"
    /\ link' = [link EXCEPT !.epoch = @ + 1, !.socket = "connecting"]
    /\ UNCHANGED <<photo, slot, owed, mishaps>>

Draw(kind) == /\ Len(photo) < MaxPhotos
              /\ photo' = Append(photo, [kind |-> kind, at |-> "encoding", faces |-> "none", tries |-> 0])

(* A tick of the cadence, or an interrupt of the agent. *)
TakePicture(kind) == run = "running" /\ Draw(kind) /\ UNCHANGED <<run, slot, owed, link, mishaps>>

(* What is encoded after Stop is submitted without faces, the last photo excepted. *)
Encoded(p) ==
    /\ photo[p].at = "encoding"
    /\ IF RunStopped /\ photo[p].kind # "final" THEN SubmittedWithout({p}, "none") /\ UNCHANGED <<slot, owed>>
       ELSE Enqueue(p)
    /\ UNCHANGED <<run, link, mishaps>>

EncodeFails(p) ==
    /\ photo[p].at = "encoding"
    /\ photo' = [photo EXCEPT ![p].at = "failed"]
    /\ UNCHANGED <<run, slot, owed, link, mishaps>>

(* The 5 fps loop uses the slot only when nothing waits for it. *)
Glance ==
    /\ run = "running" /\ slot.ready /\ ~Flying /\ slot.queue = <<>>
    /\ SlotBecomes(Pumped([slot EXCEPT !.queue = <<InLine(Live)>>], owed))
    /\ CanSend(slot)
    /\ UNCHANGED <<run, photo, link, mishaps>>

-----------------------------------------------------------------------------
(* What the face server does. *)

(* A frame is answered.  The reply carries nothing but its place on the socket. *)
Reply ==
    /\ link.socket = "ready" /\ owed # <<>>
    /\ IF ~Flying THEN owed' = Tail(owed) /\ UNCHANGED <<photo, slot>>
       ELSE /\ SlotBecomes(Pumped([slot EXCEPT !.flight = NoFlight], Tail(owed)))
            /\ \/ SubmittedWithout({slot.flight.of}, IF Head(owed) = slot.flight.of THEN "own" ELSE "another's")
               \/ SubmittedWithout({slot.flight.of}, "none")       \* its geometry is wrong
    /\ UNCHANGED <<run, link, mishaps>>

(* The server is busy: a photo goes back to the head of the queue, but not for ever. *)
Busy ==
    /\ link.socket = "ready" /\ owed # <<>> /\ Flying
    /\ Mishap
    /\ owed' = Tail(owed)
    /\ LET again == slot.flight.of # Live /\ slot.flight.busy < BusyRetries
           back  == [slot.flight EXCEPT !.epoch = 0, !.busy = @ + 1]
       IN /\ slot' = [slot EXCEPT !.flight = NoFlight, !.queue = IF again THEN <<back>> \o @ ELSE @]
          /\ IF again THEN UNCHANGED photo ELSE SubmittedWithout({slot.flight.of}, "none")
    /\ UNCHANGED <<run, link>>

(* 200 ms after a busy answer, and with every sweep, what waits is sent. *)
Pump ==
    /\ SlotBecomes(Pumped(slot, owed))
    /\ <<slot, owed>>' # <<slot, owed>>
    /\ UNCHANGED <<run, photo, link, mishaps>>

(* A photo has waited six seconds for the slot. *)
ExpireQueued(i) ==
    /\ run = "running"
    /\ LET s == [slot EXCEPT !.queue = SubSeq(@, 1, i - 1) \o SubSeq(@, i + 1, Len(@))]
       IN SlotBecomes(Pumped(s, owed))
    /\ SubmittedWithout({slot.queue[i].of}, "none")
    /\ UNCHANGED <<run, link, mishaps>>

(* No answer in four seconds: a socket that lost a reply is not trusted with the next frame. *)
FaceTimeout ==
    /\ Flying
    /\ SubmittedWithout({slot.flight.of}, "none")
    /\ slot' = [slot EXCEPT !.flight = NoFlight, !.ready = FALSE]
    /\ link' = NextSocket(link.attempt)
    /\ Drop
    /\ UNCHANGED <<run, mishaps>>

(* The guard of an interrupt: its photo goes without faces though the slot still has it. *)
Guard(p) ==
    /\ photo[p].kind = "now" /\ photo[p].at = "facing"
    /\ SubmittedWithout({p}, "none")
    /\ UNCHANGED <<run, slot, owed, link, mishaps>>

-----------------------------------------------------------------------------
(* The socket. *)

SocketReady ==
    /\ link.socket = "connecting"
    /\ link' = [link EXCEPT !.socket = "ready"]
    /\ slot' = [slot EXCEPT !.ready = TRUE, !.epoch = link.epoch]
    /\ owed' = <<>>
    /\ UNCHANGED <<run, photo, mishaps>>

(* The server closes: the socket takes nothing more, its close event follows. *)
Closing ==
    /\ link.socket = "ready"
    /\ Mishap
    /\ link' = [link EXCEPT !.socket = "closing"]
    /\ Drop
    /\ UNCHANGED <<run, photo, slot>>

SocketFails ==
    /\ link.socket \in {"connecting", "closing"}
    /\ SubmittedWithout(LostPhotos(link.epoch), "none")
    /\ slot' = LostSlot(link.epoch)
    /\ link' = NextSocket(link.attempt)
    /\ Drop
    /\ UNCHANGED <<run, mishaps>>

(* The planned recycle, which waits ten seconds for an idle slot, or people were deleted. *)
Recycle(deleted) ==
    /\ link.socket \in {"ready"} \cup (IF deleted THEN {"connecting", "closing", "waiting", "error"} ELSE {})
    /\ deleted => run = "running"
    /\ Mishap
    /\ SubmittedWithout(LostPhotos(link.epoch), "none")
    /\ slot' = LostSlot(link.epoch)
    /\ link' = NextSocket(0)
    /\ Drop
    /\ UNCHANGED run

Reconnect ==
    /\ link.socket = "waiting"
    /\ link' = [link EXCEPT !.epoch = @ + 1, !.socket = "connecting"]
    /\ UNCHANGED <<run, photo, slot, owed, mishaps>>

-----------------------------------------------------------------------------
(* Stop. *)

\* Mutant: a socket that owes a reply keeps its readiness.
Drained_KeepsSocket ==
    /\ slot' = [slot EXCEPT !.flight = NoFlight, !.queue = <<>>]
    /\ UNCHANGED <<link, owed>>

(* Everything in the slot is submitted without faces; a socket that owes a reply is recycled. *)
RunDrained ==
    /\ slot' = [slot EXCEPT !.flight = NoFlight, !.queue = <<>>, !.ready = @ /\ ~Flying]
    /\ IF Flying THEN link' = NextSocket(link.attempt) /\ Drop ELSE UNCHANGED <<link, owed>>

Stop ==
    /\ run = "running"
    /\ run' = "stopping"
    /\ SubmittedWithout(InSlot, "none")
    /\ RunDrained
    /\ UNCHANGED mishaps

(* Stop before there is a camera: there is no last photo to take. *)
GiveUpStart == run = "starting" /\ run' = "stopped" /\ UNCHANGED <<photo, slot, owed, link, mishaps>>

(* Speech is flushed and the transcripts are sent, or four seconds have passed; the last photo is drawn. *)
LastPhoto ==
    /\ run = "stopping"
    /\ run' = "flushed"
    /\ Draw("final") \/ UNCHANGED photo         \* no video frame
    /\ UNCHANGED <<slot, owed, link, mishaps>>

LastPhotoWaits ==
    /\ run = "flushed"
    /\ \E p \in Photos : photo[p].kind = "final" /\ photo[p].at = "facing"
    /\ SubmittedWithout(InSlot, "none")
    /\ RunDrained
    /\ UNCHANGED <<run, mishaps>>

(* The last photo is settled, or its six seconds are over: camera and sockets are released. *)
Release ==
    /\ run = "flushed"
    /\ \A p \in Photos : photo[p].kind = "final" => photo[p].at \notin {"encoding", "facing"}
    /\ run' = "stopped"
    /\ SubmittedWithout(LostPhotos(link.epoch), "none")
    /\ slot' = LostSlot(link.epoch)
    /\ link' = [link EXCEPT !.socket = "none"]
    /\ Drop
    /\ UNCHANGED mishaps

RunNext ==
    \/ Start \/ Started \/ GiveUpStart \/ Stop \/ LastPhoto \/ LastPhotoWaits \/ Release
    \/ \E kind \in {"tick", "now"} : TakePicture(kind)
    \/ \E p \in Photos : Encoded(p) \/ EncodeFails(p) \/ Guard(p) \/ AcceptPhoto(p) \/ Fails(p, TRUE) \/ Fails(p, FALSE)
    \/ Glance \/ Reply \/ Busy \/ Pump \/ FaceTimeout
    \/ \E i \in 1..Len(slot.queue) : ExpireQueued(i)
    \/ SocketReady \/ Closing \/ SocketFails \/ Reconnect
    \/ \E deleted \in BOOLEAN : Recycle(deleted)

(* Encoders, requests and timers end by themselves. *)
RunGoesOn ==
    \/ \E p \in Photos : Encoded(p) \/ AcceptPhoto(p)
    \/ FaceTimeout \/ (\E i \in 1..Len(slot.queue) : ExpireQueued(i))
    \/ LastPhotoWaits

RunSpec == RunInit /\ [][RunNext]_runVars /\ WF_runVars(RunGoesOn)

-----------------------------------------------------------------------------
RunTypeOK ==
    /\ run \in {"idle", "starting", "running", "stopping", "flushed", "stopped"}
    /\ photo \in Seq([kind: {"tick", "now", "final"}, at: {"encoding", "facing", "sending", "accepted", "failed"},
                      faces: {"none", "own", "another's"}, tries: 0..Tries])
    /\ Len(slot.queue) <= QueueLength + 1
    /\ Cardinality(Sending) <= InFlight
    /\ link.attempt \in 0..MaxConnections

(* A photo is submitted with the faces of its own frame or with none: a late, a    *)
(* repeated or an unexpected answer never lends a photo the people of another.     *)
FacesAreItsOwn == \A p \in Photos : photo[p].faces # "another's"
=============================================================================
