------------------------------ MODULE MicStream ------------------------------
(***************************************************************************)
(* The microphone of the agent's own page (web/app.ts Microphone), the     *)
(* session the agent keeps for its socket (speech.ts SpeechSession) and    *)
(* the speech service behind it.  Audio is sent in chunks of equal length, *)
(* and the service times its words by counting samples from the anchor, so *)
(* a chunk that were left out or sent twice would shift all that follows.  *)
(***************************************************************************)
EXTENDS Integers, Sequences, FiniteSets

CONSTANTS
    MicStarts,       \* bound: presses of the start button
    MicChunks,       \* bound: chunks that are captured
    MicFaults,       \* bound: failures of the device, the network and the service
    StopsWhileAsking \* may stop() come while start() awaits the clock, the device or the worklet?

ASSUME MicAssumption == {MicStarts, MicChunks, MicFaults} \subseteq Nat /\ StopsWhileAsking \in BOOLEAN

VARIABLES
    wanted,      \* the button that was pressed last is start
    phase,
    stopping,
    starting,    \* starting[i]: how far the i-th start() is
    tracks,      \* starts whose tracks are live
    micOf,       \* stream, node and context: of which start (0: null)
    wsOf,        \* ws: the socket of which start
    anchored,
    micSocket,   \* micSocket[i]: as the page sees it, and do its handlers still listen?
    micSession,     \* session[i]: the agent's SpeechSession
    micInbox,    \* micInbox[i]: what the agent sent and the page has not received
    sound,       \* sound[i]: when what the service received was captured
    anchor,      \* anchor[i]: when its first sample was captured, as the service was told
    captured,    \* chunks captured so far: the time
    micFaulty

micVars == <<wanted, phase, stopping, starting, tracks, micOf, wsOf, anchored, micSocket, micSession, micInbox,
             sound, anchor, captured, micFaulty>>
micPageVars == <<wanted, phase, stopping, starting, tracks, micOf, wsOf, anchored>>

MicStart == 1..MicStarts
NoAnchor == -1

MicInit ==
    /\ wanted = FALSE /\ phase = "off" /\ stopping = FALSE
    /\ starting = [i \in MicStart |-> "none"] /\ tracks = {} /\ micOf = 0 /\ wsOf = 0 /\ anchored = FALSE
    /\ micSocket = [i \in MicStart |-> [at |-> "none", heeded |-> FALSE]]
    /\ micSession = [i \in MicStart |-> "none"] /\ micInbox = [i \in MicStart |-> <<>>]
    /\ sound = [i \in MicStart |-> <<>>] /\ anchor = [i \in MicStart |-> NoAnchor]
    /\ captured = 0 /\ micFaulty = 0

MicFault == micFaulty < MicFaults /\ micFaulty' = micFaulty + 1
Asking == \E i \in MicStart : starting[i] \in {"asking", "loading"}
OpenSession == {"new", "connecting", "ready"}

-----------------------------------------------------------------------------
(* The page. *)

(* releaseAll(): what the page still knows of. *)
Released ==
    /\ micOf' = 0 /\ wsOf' = 0 /\ anchored' = FALSE
    /\ tracks' = tracks \ {micOf}
    /\ micSocket' = IF wsOf = 0 THEN micSocket ELSE [micSocket EXCEPT ![wsOf] = [at |-> "closed", heeded |-> FALSE]]

(* fail(). *)
MicFailed ==
    IF phase = "off" /\ micOf = 0
      THEN UNCHANGED <<phase, micOf, wsOf, anchored, tracks, micSocket>>
      ELSE Released /\ phase' = "error"

PressStart(i) ==
    /\ phase \in {"off", "error"} /\ starting[i] = "none" /\ \A j \in 1..(i - 1) : starting[j] # "none"
    /\ wanted' = TRUE /\ phase' = "requesting" /\ stopping' = FALSE /\ anchored' = FALSE
    /\ starting' = [starting EXCEPT ![i] = "asking"]
    /\ UNCHANGED <<tracks, micOf, wsOf, micSocket, micSession, micInbox, sound, anchor, captured, micFaulty>>

(* The clock is synchronized, the device is there and the worklet is asked for. *)
GotStream(i) ==
    /\ starting[i] = "asking"
    /\ starting' = [starting EXCEPT ![i] = "loading"]
    /\ tracks' = tracks \cup {i} /\ micOf' = i
    /\ UNCHANGED <<wanted, phase, stopping, wsOf, anchored, micSocket, micSession, micInbox, sound, anchor,
                   captured, micFaulty>>

(* openSocket(). *)
OpenSocket(i) ==
    /\ starting[i] = "loading"
    /\ starting' = [starting EXCEPT ![i] = "over"]
    /\ phase' = "connecting" /\ wsOf' = i
    /\ micSocket' = [micSocket EXCEPT ![i] = [at |-> "connecting", heeded |-> TRUE]]
    /\ UNCHANGED <<wanted, stopping, tracks, micOf, anchored, micSession, micInbox, sound, anchor, captured, micFaulty>>

(* start() fails: no clock, no permission, no worklet. *)
StartFails(i) ==
    /\ starting[i] \in {"asking", "loading"} /\ MicFault
    /\ starting' = [starting EXCEPT ![i] = "over"]
    /\ MicFailed
    /\ UNCHANGED <<wanted, stopping, micSession, micInbox, sound, anchor, captured>>

(* stop(): the button, the end of the page's session, or of the page. *)
PressStop ==
    /\ phase \notin {"off", "error"} /\ (Asking => StopsWhileAsking)
    /\ wanted' = FALSE /\ stopping' = TRUE /\ phase' = "off"
    /\ Released
    /\ UNCHANGED <<starting, micSession, micInbox, sound, anchor, captured, micFaulty>>

(* The track ends, the service is not ready in time, or the socket fails. *)
MicBreaks ==
    /\ MicFault
    /\ phase \in {"connecting", "waiting-ready", "streaming"}
    /\ MicFailed
    /\ UNCHANGED <<wanted, stopping, starting, micSession, micInbox, sound, anchor, captured>>

(* The socket is open: "start", and the agent connects to the service; at most two sessions. *)
SocketOpens(i) ==
    /\ micSocket[i].at = "connecting" /\ Cardinality({j \in MicStart : micSession[j] \in OpenSession}) < 2
    /\ micSocket' = [micSocket EXCEPT ![i].at = "open"]
    /\ micSession' = [micSession EXCEPT ![i] = "connecting"]
    /\ phase' = IF micSocket[i].heeded THEN "waiting-ready" ELSE phase
    /\ UNCHANGED <<wanted, stopping, starting, tracks, micOf, wsOf, anchored, micInbox, sound, anchor, captured, micFaulty>>

(* What the agent sends: that it is ready, or that it has ended. *)
PageHears(i) ==
    /\ micInbox[i] # <<>>
    /\ micInbox' = [micInbox EXCEPT ![i] = Tail(@)]
    /\ IF ~micSocket[i].heeded \/ micSocket[i].at # "open"
         THEN UNCHANGED <<phase, tracks, micOf, wsOf, anchored, micSocket>>
       ELSE IF Head(micInbox[i]) = "ready"
         THEN phase' = "streaming" /\ UNCHANGED <<tracks, micOf, wsOf, anchored, micSocket>>
       ELSE IF Head(micInbox[i]) = "closed" /\ stopping
         THEN /\ micSocket' = [micSocket EXCEPT ![i].at = "closed"]
              /\ UNCHANGED <<phase, tracks, micOf, wsOf, anchored>>
       ELSE MicFailed
    /\ UNCHANGED <<wanted, stopping, starting, micSession, sound, anchor, captured, micFaulty>>

(* onWorkletMessage(): chunks from before ready are discarded, the first one after it is the *)
(* anchor.  Under backpressure the stream ends, for a chunk must not be left out.             *)
\* Mutant: under backpressure the chunk is dropped.
Backlogged_Drops ==
    /\ MicFault /\ UNCHANGED <<phase, tracks, micOf, wsOf, micSocket, micSession, sound, micInbox>>
    /\ anchored' = TRUE /\ anchor' = IF anchored THEN anchor ELSE [anchor EXCEPT ![wsOf] = captured]

Backlogged ==
    /\ MicFault /\ MicFailed
    /\ UNCHANGED <<micSession, sound, micInbox, anchor>>

Sends(n) ==
    /\ anchored' = TRUE
    /\ IF micSession[wsOf] = "ready"
         THEN /\ anchor' = IF anchored THEN anchor ELSE [anchor EXCEPT ![wsOf] = captured]
              /\ sound' = [sound EXCEPT ![wsOf] = @ \o [k \in 1..n |-> captured]]
         ELSE UNCHANGED <<anchor, sound>>
    /\ UNCHANGED <<phase, tracks, micOf, wsOf, micSocket, micSession, micInbox, micFaulty>>

(* Each microphone that is live posts its chunk. *)
Chunk ==
    /\ captured < MicChunks /\ captured' = captured + 1 /\ tracks # {}
    /\ IF phase = "streaming" /\ wsOf # 0 /\ micSocket[wsOf].at = "open"
         THEN Sends(Cardinality(tracks)) \/ Backlogged
         ELSE UNCHANGED <<phase, tracks, micOf, wsOf, anchored, micSocket, micSession, micInbox, sound, anchor, micFaulty>>
    /\ UNCHANGED <<wanted, stopping, starting>>

-----------------------------------------------------------------------------
(* The agent's session. *)

ServiceOpens(i) ==
    /\ micSession[i] = "connecting"
    /\ micSession' = [micSession EXCEPT ![i] = "ready"]
    /\ micInbox' = [micInbox EXCEPT ![i] = Append(@, "ready")]
    /\ UNCHANGED <<micPageVars, micSocket, sound, anchor, captured, micFaulty>>

(* fail(): the service fails, ends or cannot keep up, or a message is not in order. *)
MicSessionFails(i) ==
    /\ micSession[i] \in OpenSession /\ MicFault
    /\ micSession' = [micSession EXCEPT ![i] = "closed"]
    /\ micInbox' = [micInbox EXCEPT ![i] = @ \o <<"error", "closed">>]
    /\ UNCHANGED <<micPageVars, micSocket, sound, anchor, captured>>

(* The page's socket is closed: so is the one to the service. *)
SessionCloses(i) ==
    /\ micSession[i] \in OpenSession /\ micSocket[i].at = "closed"
    /\ micSession' = [micSession EXCEPT ![i] = "closed"]
    /\ UNCHANGED <<micPageVars, micSocket, micInbox, sound, anchor, captured, micFaulty>>

MicNext ==
    \/ \E i \in MicStart : \/ PressStart(i) \/ GotStream(i) \/ OpenSocket(i) \/ StartFails(i) \/ SocketOpens(i)
                           \/ PageHears(i) \/ ServiceOpens(i) \/ MicSessionFails(i) \/ SessionCloses(i)
    \/ PressStop \/ MicBreaks \/ Chunk

MicClosing == \E i \in MicStart : SessionCloses(i) \/ PageHears(i)

MicSpec == MicInit /\ [][MicNext]_micVars /\ WF_micVars(MicClosing)

-----------------------------------------------------------------------------
MicTypeOK ==
    /\ wanted \in BOOLEAN /\ stopping \in BOOLEAN /\ anchored \in BOOLEAN
    /\ phase \in {"off", "requesting", "connecting", "waiting-ready", "streaming", "error"}
    /\ tracks \subseteq MicStart /\ {micOf, wsOf} \subseteq 0..MicStarts
    /\ \A i \in MicStart : /\ starting[i] \in {"none", "asking", "loading", "over"}
                           /\ micSession[i] \in {"none", "closed"} \cup OpenSession
                           /\ micSocket[i].at \in {"none", "connecting", "open", "closed"}

(* The n-th chunk the service received was captured n - 1 chunks after the anchor, whatever *)
(* was discarded, refused or cut off around it: the service's word times are right.          *)
EverySampleKeepsItsTime == \A i \in MicStart : \A n \in DOMAIN sound[i] : sound[i][n] = anchor[i] + n - 1

(* Stop lets the microphone go: whatever start() was waiting for, no track is live after it, or after a failure. *)
StopReleases == (~wanted \/ phase = "error") => tracks = {}
=============================================================================
