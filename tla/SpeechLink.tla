------------------------------ MODULE SpeechLink ------------------------------
(***************************************************************************)
(* The page's speech connection (memory/client speechLink.ts), the         *)
(* revisions it makes of what the recogniser hears (revisions.ts), and the *)
(* queue from which the run posts them to the scene memory (session.ts,    *)
(* submissions.ts).  Every connection is a stream of its own; only its     *)
(* current socket is listened to.                                          *)
(***************************************************************************)
EXTENDS Integers, Sequences, FiniteSets

CONSTANTS
    TalkSegment,        \* utterances of a stream
    MaxStreams,     \* bound: connections
    MaxRevisions,   \* bound: revisions of a segment
    Retries,        \* MAX_ATTEMPTS, 5
    FlushChunks,    \* FLUSH_CHUNKS, 16
    QueueMax        \* transcript queue

ASSUME SpeechAssumption ==
    /\ {MaxStreams, MaxRevisions, Retries} \subseteq Nat
    /\ {FlushChunks, QueueMax} \subseteq Nat \ {0}

VARIABLES
    talk,           \* the SpeechLink: active, its socket, its one timer that matters, attempts
    stopCall,       \* the promise of stop(): "none", "pending" or "resolved"
    heard,          \* the ledger: what was last made of each segment of each stream
    transcripts,    \* the queue of the run
    posting,        \* requests to the scene memory
    told            \* the last revision of each segment the scene memory was sent (for the properties)

talkVars == <<talk, stopCall, heard, transcripts, posting, told>>

TalkStreams == 1..MaxStreams
Unheard == [revision |-> -1, final |-> FALSE]

TalkInit ==
    /\ talk = [active |-> FALSE, stopping |-> FALSE, stream |-> 0, socket |-> "none", timer |-> "none",
               attempt |-> 0, left |-> 0]
    /\ stopCall = "none"
    /\ heard = [t \in TalkStreams |-> [s \in TalkSegment |-> Unheard]]
    /\ transcripts = <<>> /\ posting = {}
    /\ told = [t \in TalkStreams |-> [s \in TalkSegment |-> Unheard]]

Posts == <<heard, transcripts, posting, told>>

-----------------------------------------------------------------------------
(* The socket. *)

Connected(t) == [t EXCEPT !.stream = @ + 1, !.socket = "opening", !.timer = "ready"]

StartTalk ==
    /\ ~talk.active /\ talk.stream = 0 /\ stopCall = "none" /\ MaxStreams > 0
    /\ talk' = Connected([talk EXCEPT !.active = TRUE])
    /\ UNCHANGED <<stopCall, Posts>>

TalkReady ==
    /\ talk.socket = "opening"
    /\ talk' = [talk EXCEPT !.socket = "ready", !.timer = "none"]
    /\ UNCHANGED <<stopCall, Posts>>

(* finish(): every timer is cleared, the socket is closed and not listened to. *)
Finished(t) == [t EXCEPT !.socket = "none", !.timer = "none", !.stopping = FALSE]

(* fail(): the connection is gone.  The attempts begin anew after 30 s of readiness. *)
FailedTalk(t, permanent, attempt) ==
    IF t.stopping \/ ~t.active THEN Finished(t)
    ELSE IF permanent \/ attempt >= Retries THEN [t EXCEPT !.socket = "none", !.timer = "none", !.active = FALSE]
    ELSE [t EXCEPT !.socket = "none", !.timer = "reconnect", !.attempt = attempt + 1]

Resolved == stopCall' = IF stopCall = "pending" THEN "resolved" ELSE stopCall

(* The server closes the socket, after an error of its own or not; once the stop message is *)
(* sent that is the end stop() waits for.                                                    *)
TalkCloses(permanent) ==
    /\ talk.socket # "none"
    /\ IF talk.socket = "closing"
         THEN talk' = Finished(talk) /\ Resolved
         ELSE /\ \E attempt \in {talk.attempt} \cup (IF talk.socket = "ready" THEN {0} ELSE {}) :
                    talk' = FailedTalk(talk, permanent, attempt)
              /\ UNCHANGED stopCall
    /\ UNCHANGED Posts

(* Not ready in 130 s, or more than a second of audio is held up by a slow socket. *)
GivesUpSocket ==
    /\ talk.socket = "opening" \/ (talk.socket = "ready" /\ ~talk.stopping)
    /\ \E attempt \in {talk.attempt} \cup (IF talk.socket = "ready" THEN {0} ELSE {}) :
          talk' = FailedTalk(talk, FALSE, attempt)
    /\ UNCHANGED <<stopCall, Posts>>

TalkReconnects ==
    /\ talk.timer = "reconnect" /\ talk.stream < MaxStreams
    /\ talk' = Connected(talk)
    /\ UNCHANGED <<stopCall, Posts>>

(* stop(), once per run: half a second of silence is sent if there is a connection to flush. *)
StopTalk ==
    /\ stopCall = "none" /\ talk.stream > 0
    /\ IF talk.socket = "ready"
         THEN /\ talk' = [talk EXCEPT !.active = FALSE, !.stopping = TRUE, !.timer = "step", !.left = FlushChunks]
              /\ stopCall' = "pending"
         ELSE /\ talk' = Finished([talk EXCEPT !.active = FALSE])
              /\ stopCall' = "resolved"
    /\ UNCHANGED Posts

FlushTalk ==
    /\ talk.timer = "step"
    /\ \/ /\ talk' = IF talk.left > 0 THEN [talk EXCEPT !.left = @ - 1]
                     ELSE [talk EXCEPT !.socket = "closing", !.timer = "grace"]
          /\ UNCHANGED stopCall
       \/ talk' = Finished(talk) /\ Resolved     \* the send throws
    /\ UNCHANGED Posts

GraceEnds ==
    /\ talk.timer = "grace"
    /\ talk' = Finished(talk) /\ Resolved
    /\ UNCHANGED Posts

-----------------------------------------------------------------------------
(* What is heard. *)

\* Mutant: a late partial takes a final back.
Revised_Regresses(last, final) == TRUE

(* What has not changed is suppressed, and so is a partial of a segment that is final. *)
Revised(last, final) == last.final => final

\* Mutant: a full queue drops partials only, and the finals of several streams pile up.
Pushed_KeepsFinals(q) ==
    LET partials == {i \in 1..Len(q) : ~q[i].final}
        out == CHOOSE i \in partials : \A j \in partials : i <= j
    IN IF Len(q) <= QueueMax \/ partials = {} THEN q ELSE SubSeq(q, 1, out - 1) \o SubSeq(q, out + 1, Len(q))

(* push(): over its length the queue drops its oldest partial, and a final only when it has none. *)
Pushed(q) ==
    LET partials == {i \in 1..Len(q) : ~q[i].final}
        out == IF partials = {} THEN 1 ELSE CHOOSE i \in partials : \A j \in partials : i <= j
    IN IF Len(q) <= QueueMax THEN q ELSE SubSeq(q, 1, out - 1) \o SubSeq(q, out + 1, Len(q))

HearWords(s, final) ==
    LET t == talk.stream
        last == heard[t][s]
        new == [revision |-> last.revision + 1, final |-> final]
    IN
    /\ talk.socket \in {"ready", "closing"} /\ last.revision < MaxRevisions
    /\ Revised(last, final)
    /\ heard' = [heard EXCEPT ![t][s] = new]
    /\ transcripts' = Pushed(Append(transcripts, [stream |-> t, segment |-> s, revision |-> new.revision, final |-> final]))
    /\ UNCHANGED <<talk, stopCall, posting, told>>

(* One pump runs at a time. *)
Pumps == posting = {}

PostTranscript ==
    /\ transcripts # <<>> /\ Pumps
    /\ posting' = posting \cup {Head(transcripts)}
    /\ transcripts' = Tail(transcripts)
    /\ UNCHANGED <<talk, stopCall, heard, told>>

(* It is accepted, refused, fails or its answer is lost: it is not sent again. *)
TranscriptPosted(p) ==
    /\ posting' = posting \ {p}
    /\ \/ told' = [told EXCEPT ![p.stream][p.segment] = [revision |-> p.revision, final |-> p.final]]
       \/ UNCHANGED told
    /\ UNCHANGED <<talk, stopCall, heard, transcripts>>

TalkNext ==
    \/ StartTalk \/ TalkReady \/ GivesUpSocket \/ TalkReconnects \/ StopTalk \/ FlushTalk \/ GraceEnds
    \/ \E permanent \in BOOLEAN : TalkCloses(permanent)
    \/ \E s \in TalkSegment, final \in BOOLEAN : HearWords(s, final)
    \/ PostTranscript \/ \E p \in posting : TranscriptPosted(p)

(* Timers fire. *)
StopTimers == FlushTalk \/ GraceEnds

TalkSpec == TalkInit /\ [][TalkNext]_talkVars /\ WF_talkVars(StopTimers)

-----------------------------------------------------------------------------
TalkTypeOK ==
    /\ talk \in [active: BOOLEAN, stopping: BOOLEAN, stream: 0..MaxStreams,
                 socket: {"none", "opening", "ready", "closing"},
                 timer: {"none", "ready", "reconnect", "step", "grace"}, attempt: 0..Retries, left: 0..FlushChunks]
    /\ stopCall \in {"none", "pending", "resolved"}
    /\ Len(transcripts) <= QueueMax

(* The scene memory is sent the revisions of a segment in their order, each once, and *)
(* nothing unfinished after the final one: over reconnections, drops and lost answers. *)
RevisionsKeepTheirOrder ==
    [][\A t \in TalkStreams, s \in TalkSegment : told'[t][s] # told[t][s] =>
          /\ told'[t][s].revision > told[t][s].revision
          /\ told[t][s].final => told'[t][s].final]_talkVars
=============================================================================
