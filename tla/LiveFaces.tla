------------------------------ MODULE LiveFaces ------------------------------
(***************************************************************************)
(* The page forwards who is before the camera to the agent                 *)
(* (memory/client liveFaces.ts LiveFaceForwarder): a change of the set of  *)
(* faces once two results in a row show it, and a heartbeat otherwise; one *)
(* POST in flight, and behind it at most the latest candidate.  A POST     *)
(* that fails is not repeated, and its answer may be lost although the     *)
(* agent took it.                                                          *)
(***************************************************************************)
EXTENDS Integers, FiniteSets

CONSTANTS
    FaceSet,       \* identity keys of results, "nobody" among them
    MaxFailures    \* bound: POSTs that fail, results too old to send, resets

ASSUME LiveFacesAssumption == MaxFailures \in Nat

VARIABLES
    facesShown,          \* the faces the results show
    forwarding,    \* from start to stop
    candidate,     \* the set of the last result, and whether the one before it had the same
    believed,      \* identityKey: the set the agent is believed to know
    post,          \* the POST in flight
    next,          \* the candidate that waits behind it
    failedKeys,    \* sets whose change failed since the last success
    held,          \* before retryNotBefore
    heartbeatDue,
    agentFaces,    \* what the agent was told last
    failures

faceVars == <<facesShown, forwarding, candidate, believed, post, next, failedKeys, held, heartbeatDue, agentFaces, failures>>

NoFaces == "no faces"      \* null, of a key
NoPost == [key |-> NoFaces, kind |-> "none", old |-> FALSE]
Posting == post # NoPost
PostFails == failures < MaxFailures /\ failures' = failures + 1

FacesInit ==
    /\ facesShown \in FaceSet /\ forwarding = TRUE
    /\ candidate = [key |-> NoFaces, stable |-> FALSE]
    /\ believed = NoFaces /\ post = NoPost /\ next = NoPost
    /\ failedKeys = {} /\ held = FALSE /\ heartbeatDue = TRUE
    /\ agentFaces = NoFaces /\ failures = 0

-----------------------------------------------------------------------------
SeeFaces(k) ==
    /\ facesShown # k
    /\ facesShown' = k
    /\ UNCHANGED <<forwarding, candidate, believed, post, next, failedKeys, held, heartbeatDue, agentFaces, failures>>

(* A change under way counts as known, if nobody was forgotten since. *)
Provisional == IF post.kind = "change" /\ ~post.old THEN post.key ELSE believed

(* A heartbeat is due, whatever failed before. *)
Beats == heartbeatDue

(* One result.  A stable set drops a waiting candidate for another one; then it is a *)
(* change, which a recent failure may hold back, or may be due as a heartbeat.       *)
Offer ==
    LET key    == facesShown
        stable == candidate.key = key
        waits  == IF stable /\ next.key # key THEN NoPost ELSE next
        change == stable /\ key # Provisional
        sends  == \/ change /\ ~(key \in failedKeys /\ held)
                  \/ ~change /\ key = believed /\ ~Posting /\ Beats
        new    == [key |-> key, kind |-> IF change THEN "change" ELSE "heartbeat", old |-> FALSE]
    IN
    /\ forwarding
    /\ candidate' = [key |-> key, stable |-> stable]
    /\ post' = IF sends /\ ~Posting THEN new ELSE post
    /\ next' = IF sends /\ Posting THEN new ELSE waits
    /\ UNCHANGED <<facesShown, forwarding, believed, failedKeys, held, heartbeatDue, agentFaces, failures>>

(* Behind a POST that settled, the candidate of this generation is sent, or is too old by now. *)
NextPost == IF forwarding THEN next ELSE NoPost

Drain ==
    /\ next' = NoPost
    /\ \/ post' = NextPost /\ UNCHANGED failures
       \/ NextPost # NoPost /\ post' = NoPost /\ PostFails

(* Only of the current generation, and before stop(), does the answer say what the agent knows. *)
Heard == forwarding /\ ~post.old

Accepted ==
    /\ Posting
    /\ agentFaces' = post.key
    /\ IF Heard
         THEN /\ believed' = post.key /\ failedKeys' = {} /\ held' = FALSE
              /\ heartbeatDue' = FALSE
         ELSE UNCHANGED <<believed, failedKeys, held, heartbeatDue>>
    /\ Drain
    /\ UNCHANGED <<facesShown, forwarding, candidate>>

(* The agent refuses it, never hears of it, or took it and cannot say so. *)
NotAccepted ==
    /\ Posting /\ PostFails
    /\ agentFaces' \in {agentFaces, post.key}
    /\ IF Heard
         THEN /\ failedKeys' = IF post.kind = "change" THEN failedKeys \cup {post.key} ELSE failedKeys
              /\ heartbeatDue' = (heartbeatDue /\ post.kind # "heartbeat")
              /\ held' = TRUE
         ELSE UNCHANGED <<failedKeys, heartbeatDue, held>>
    /\ post' = NextPost /\ next' = NoPost
    /\ UNCHANGED <<facesShown, forwarding, candidate, believed>>

(* 3 s since the last one, up to 15 s after failures. *)
BeatComesDue ==
    /\ ~heartbeatDue
    /\ heartbeatDue' = TRUE
    /\ UNCHANGED <<facesShown, forwarding, candidate, believed, post, next, failedKeys, held, agentFaces, failures>>

HoldEnds ==
    /\ held
    /\ held' = FALSE
    /\ UNCHANGED <<facesShown, forwarding, candidate, believed, post, next, failedKeys, heartbeatDue, agentFaces, failures>>

(* People were deleted, or the face connection is a new one: a new generation. *)
Reset ==
    /\ forwarding /\ PostFails
    /\ candidate' = [key |-> NoFaces, stable |-> FALSE]
    /\ believed' = NoFaces /\ next' = NoPost /\ failedKeys' = {} /\ held' = FALSE /\ heartbeatDue' = TRUE
    /\ post' = IF Posting THEN [post EXCEPT !.old = TRUE] ELSE NoPost
    /\ UNCHANGED <<facesShown, forwarding, agentFaces>>

StopForwarding ==
    /\ forwarding
    /\ forwarding' = FALSE /\ next' = NoPost
    /\ UNCHANGED <<facesShown, candidate, believed, post, failedKeys, held, heartbeatDue, agentFaces, failures>>

FacesNext ==
    \/ \E k \in FaceSet : SeeFaces(k)
    \/ Offer \/ Accepted \/ NotAccepted \/ BeatComesDue \/ HoldEnds \/ Reset \/ StopForwarding

PostAnswered == Accepted \/ NotAccepted

(* Results come five times a second; every POST is answered or times out; time passes. *)
FacesSpec ==
    /\ FacesInit /\ [][FacesNext]_faceVars
    /\ WF_faceVars(Offer) /\ WF_faceVars(PostAnswered) /\ WF_faceVars(BeatComesDue) /\ WF_faceVars(HoldEnds)

-----------------------------------------------------------------------------
FacesTypeOK ==
    /\ facesShown \in FaceSet /\ forwarding \in BOOLEAN
    /\ {candidate.key, believed, agentFaces, post.key, next.key} \subseteq FaceSet \cup {NoFaces}
    /\ failedKeys \subseteq FaceSet
    /\ ~Posting => next = NoPost
=============================================================================
