------------------------------ MODULE LabSpeech ------------------------------
(***************************************************************************)
(* Speech of the perception lab.  One start() of the page opens a session  *)
(* that lives until stop(): a sequence of connections to the relay of the  *)
(* service, which opens one to the cloud for each.  A connection that      *)
(* fails is followed by another one, up to a number in a row; a stop is    *)
(* graceful, and the end of a session is reported once.                    *)
(***************************************************************************)
EXTENDS Integers, FiniteSets, Sequences

CONSTANTS
    SpeechStarts,  \* bound: sessions that are started
    SpeechConns,   \* bound: connections
    MaxReconnects  \* connections that are tried again in a row

ASSUME LabSpeechAssumption == {SpeechStarts, SpeechConns, MaxReconnects} \subseteq Nat

VARIABLES
    heardSession, \* number of the last session
    sess,         \* what is left of it: whether it is active, waits to reconnect, the attempt, ...
    attemptPhase, \* of the current connection: none, connecting, running, stopping
    speechConns,  \* connections so far; the last one is the current one
    subscribed,   \* connections that are given the audio
    fromRelay,    \* connection -> what the relay has sent and the page has not read
    relay,        \* connection -> opening, streaming, over, ...
    cloud,        \* connection -> that of the relay to the cloud: opening, open, closed, ...
    pageSide,     \* connection -> what the relay can see of the page: open, stop, gone
    speechEnds,   \* session -> terminal statuses
    inARow,       \* connections since the start, or since one that ran for half a minute
    reopened      \* a connection was opened for a session that had been stopped

speechVars == <<heardSession, sess, attemptPhase, speechConns, subscribed, fromRelay, relay, cloud, pageSide,
                speechEnds, inARow, reopened>>

Conns == 1..SpeechConns
NoSess == [open |-> FALSE, active |-> FALSE, attempt |-> 0, retryDue |-> FALSE, ranLong |-> FALSE, permanent |-> FALSE,
           flushed |-> FALSE]
RelayMsgs == {"ready", "error", "refusal", "closed"}
cur == speechConns
PageListens == attemptPhase # "none"

SpeechInit ==
    /\ heardSession = 0 /\ sess = NoSess /\ attemptPhase = "none" /\ speechConns = 0 /\ subscribed = {}
    /\ fromRelay = [c \in Conns |-> <<>>] /\ relay = [c \in Conns |-> "none"] /\ cloud = [c \in Conns |-> "none"]
    /\ pageSide = [c \in Conns |-> "open"]
    /\ speechEnds = [s \in 1..SpeechStarts |-> 0] /\ inARow = 0 /\ reopened = FALSE

-----------------------------------------------------------------------------
(* end() of the connection: its handlers are detached, its socket is closed. *)
HangUp ==
    /\ pageSide' = IF PageListens /\ relay[cur] # "over" THEN [pageSide EXCEPT ![cur] = "gone"] ELSE pageSide
    /\ fromRelay' = IF PageListens THEN [fromRelay EXCEPT ![cur] = <<>>] ELSE fromRelay

Unsubscribed == subscribed \ {cur}

(* finish(): for the whole session, once. *)
Finish ==
    /\ sess' = NoSess /\ attemptPhase' = "none" /\ subscribed' = Unsubscribed
    /\ speechEnds' = [speechEnds EXCEPT ![heardSession] = @ + 1]
    /\ HangUp

(* connect(): a run of its own, with an id of its own. *)
Connect(row) ==
    /\ speechConns < SpeechConns /\ speechConns' = speechConns + 1
    /\ attemptPhase' = "connecting" /\ inARow' = row
    /\ relay' = [relay EXCEPT ![speechConns + 1] = "opening"] /\ cloud' = [cloud EXCEPT ![speechConns + 1] = "opening"]

(* start(): a session that is there ends at once, without a flush. *)
SpeechStart ==
    /\ heardSession < SpeechStarts /\ heardSession' = heardSession + 1
    /\ Connect(1) /\ sess' = [NoSess EXCEPT !.open = TRUE, !.active = TRUE] /\ subscribed' = Unsubscribed
    /\ speechEnds' = IF sess.open THEN [speechEnds EXCEPT ![heardSession] = @ + 1] ELSE speechEnds
    /\ HangUp
    /\ UNCHANGED reopened

(* stop(): a connection that runs is given silence, then the word to stop; in every other state *)
(* the session ends at once.                                                                     *)
SpeechStop ==
    /\ sess.open /\ sess.active
    /\ IF attemptPhase = "running"
       THEN /\ sess' = [sess EXCEPT !.active = FALSE, !.retryDue = FALSE] /\ attemptPhase' = "stopping"
            /\ subscribed' = Unsubscribed /\ UNCHANGED <<speechEnds, pageSide, fromRelay>>
       ELSE Finish
    /\ UNCHANGED <<heardSession, speechConns, relay, cloud, inARow, reopened>>

FlushEnds ==
    /\ attemptPhase = "stopping" /\ ~sess.flushed /\ sess' = [sess EXCEPT !.flushed = TRUE]
    /\ pageSide' = [pageSide EXCEPT ![cur] = "stop"]
    /\ UNCHANGED <<heardSession, attemptPhase, speechConns, subscribed, fromRelay, relay, cloud, speechEnds, inARow, reopened>>

StopGraceEnds ==
    /\ attemptPhase = "stopping" /\ sess.flushed /\ Finish
    /\ UNCHANGED <<heardSession, speechConns, relay, cloud, inARow, reopened>>

-----------------------------------------------------------------------------
Attempts == IF sess.ranLong THEN 0 ELSE sess.attempt

(* routeStatus(): a connection that failed is tried again, unless it never will do, or too many have. *)
ConnFails ==
    IF ~sess.active \/ sess.permanent \/ Attempts >= MaxReconnects
    THEN Finish /\ UNCHANGED inARow
    ELSE /\ sess' = [NoSess EXCEPT !.open = TRUE, !.active = TRUE, !.retryDue = TRUE, !.attempt = Attempts + 1]
         /\ attemptPhase' = "none" /\ subscribed' = Unsubscribed /\ HangUp
         /\ inARow' = IF sess.ranLong THEN 0 ELSE inARow
         /\ UNCHANGED speechEnds

RetryTimer ==
    /\ sess.retryDue /\ sess' = [sess EXCEPT !.retryDue = FALSE] /\ Connect(inARow + 1)
    /\ reopened' = (reopened \/ ~sess.active)
    /\ UNCHANGED <<heardSession, subscribed, fromRelay, pageSide, speechEnds>>

(* The watchdog of a connection that is not ready, or audio that is half a second behind. *)
ConnGivenUp ==
    /\ attemptPhase \in {"connecting", "running"} /\ ConnFails
    /\ UNCHANGED <<heardSession, speechConns, relay, cloud, reopened>>

RunsForLong ==
    /\ attemptPhase = "running" /\ ~sess.ranLong /\ sess' = [sess EXCEPT !.ranLong = TRUE]
    /\ UNCHANGED <<heardSession, attemptPhase, speechConns, subscribed, fromRelay, relay, cloud, pageSide, speechEnds,
                   inARow, reopened>>

SpeechClosed == IF attemptPhase = "stopping" THEN Finish /\ UNCHANGED inARow ELSE ConnFails

(* What the relay has sent, in its order; of a connection that is over, nothing is read. *)
RelaySays(m) ==
    /\ PageListens /\ fromRelay[cur] # <<>> /\ Head(fromRelay[cur]) = m
    /\ m # "closed" => fromRelay' = [fromRelay EXCEPT ![cur] = Tail(@)]
    /\ CASE m = "closed" -> SpeechClosed
         [] m = "ready" /\ attemptPhase = "connecting" ->
               /\ attemptPhase' = "running" /\ subscribed' = Unsubscribed \cup {cur}
               /\ UNCHANGED <<sess, pageSide, speechEnds, inARow>>
         [] m = "refusal" -> sess' = [sess EXCEPT !.permanent = TRUE]
                             /\ UNCHANGED <<attemptPhase, subscribed, pageSide, speechEnds, inARow>>
         [] OTHER -> UNCHANGED <<sess, attemptPhase, subscribed, pageSide, speechEnds, inARow>>
    /\ UNCHANGED <<heardSession, speechConns, relay, cloud, reopened>>

-----------------------------------------------------------------------------
(* The relay: a connection to the cloud, or the failure to open one, or its end. *)
CloudChanges(c) ==
    /\ \/ cloud[c] = "opening" /\ cloud' \in {[cloud EXCEPT ![c] = "open"], [cloud EXCEPT ![c] = "failed"]}
       \/ cloud[c] = "open" /\ cloud' = [cloud EXCEPT ![c] = "failed"]
    /\ UNCHANGED <<heardSession, sess, attemptPhase, speechConns, subscribed, fromRelay, relay, pageSide, speechEnds,
                   inARow, reopened>>

\* Mutant: what is closed in the end is the connection the relay has got hold of.
CloudLeft_Held(c) == IF relay[c] = "opening" THEN cloud[c] ELSE "closed"
CloudLeft(c) == "closed"

RelayEnds(c, words) ==
    /\ relay' = [relay EXCEPT ![c] = "over"] /\ cloud' = [cloud EXCEPT ![c] = CloudLeft(c)]
    /\ fromRelay' = [fromRelay EXCEPT ![c] = IF pageSide[c] = "gone" THEN <<>> ELSE @ \o words \o <<"closed">>]
    /\ UNCHANGED <<heardSession, sess, attemptPhase, speechConns, subscribed, pageSide, speechEnds, inARow, reopened>>

(* The cloud is there, and nothing was heard of the page before: the relay streams. *)
RelayReady(c) ==
    /\ relay[c] = "opening" /\ cloud[c] = "open" /\ pageSide[c] = "open" /\ relay' = [relay EXCEPT ![c] = "streaming"]
    /\ fromRelay' = [fromRelay EXCEPT ![c] = Append(@, "ready")]
    /\ UNCHANGED <<heardSession, sess, attemptPhase, speechConns, subscribed, cloud, pageSide, speechEnds, inARow, reopened>>

(* The page is gone or says stop - in the same turn the cloud opens, at times -, the cloud fails, *)
(* ten minutes have passed, or the audio is not what it should be.                                 *)
RelayOver(c) ==
    \/ relay[c] \in {"opening", "streaming"} /\ pageSide[c] # "open" /\ RelayEnds(c, <<>>)
    \/ relay[c] \in {"opening", "streaming"} /\ cloud[c] = "failed" /\ \E w \in {"error", "refusal"} : RelayEnds(c, <<w>>)
    \/ relay[c] = "streaming" /\ \E w \in {"error", "refusal"} : RelayEnds(c, <<w>>)

SpeechNext ==
    \/ SpeechStart \/ SpeechStop \/ FlushEnds \/ StopGraceEnds \/ RetryTimer \/ ConnGivenUp \/ RunsForLong
    \/ \E m \in RelayMsgs : RelaySays(m)
    \/ \E c \in Conns : CloudChanges(c) \/ RelayReady(c) \/ RelayOver(c)

SpeechSpec == SpeechInit /\ [][SpeechNext]_speechVars

-----------------------------------------------------------------------------
SpeechTypeOK ==
    /\ heardSession \in 0..SpeechStarts /\ attemptPhase \in {"none", "connecting", "running", "stopping"}
    /\ speechConns \in 0..SpeechConns /\ subscribed \subseteq Conns /\ sess.attempt \in 0..MaxReconnects
    /\ relay \in [Conns -> {"none", "opening", "streaming", "over"}]
    /\ cloud \in [Conns -> {"none", "opening", "open", "failed", "closed"}] /\ pageSide \in [Conns -> {"open", "stop", "gone"}]
    /\ \A c \in Conns : Len(fromRelay[c]) <= 3

(* The end of every session is reported once, and a session that was stopped never connects again, *)
(* whatever the relay does afterwards.                                                               *)
SessionEndsOnce ==
    /\ \A s \in 1..SpeechStarts : speechEnds[s] = IF s < heardSession \/ (s = heardSession /\ ~sess.open) THEN 1 ELSE 0
    /\ ~reopened

(* Audio goes to the connection that runs, and to no other. *)
OnlyTheRunningListens == subscribed = IF attemptPhase = "running" THEN {cur} ELSE {}

(* Speech gives up after MaxReconnects attempts in a row, but for connections that ran for long. *)
GivesUpInTheEnd == inARow <= MaxReconnects + 1

(* A relay that is over leaves no connection to the cloud behind, not even one that opened just then. *)
NoCloudIsOrphaned == \A c \in Conns : relay[c] = "over" => cloud[c] \notin {"opening", "open"}
=============================================================================
