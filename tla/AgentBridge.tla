----------------------------- MODULE AgentBridge -----------------------------
(***************************************************************************)
(* The feed from the scene memory to the agent.  Triggers write a row for  *)
(* every transcript, face capture, interpretation, withdrawn note and      *)
(* removed person (memory/src/agent-bridge.ts); the bridge sends the       *)
(* oldest rows in one call at a time and marks them when the agent has     *)
(* answered; the agent takes a call in as one transaction                  *)
(* (agent/src/server.ts).  The agent also takes notes from searches and    *)
(* interpretations from photos it asked for (agent/src/scene-memory.ts).   *)
(***************************************************************************)
EXTENDS Integers, Sequences, FiniteSets

CONSTANTS
    Person, Segment, Photo, Note,
    Shows,        \* [Photo -> SUBSET Person]: the confirmed faces of a photo
    Revisions,    \* the revisions a segment may get
    Asked,        \* the photos the agent asked for
    Deletable,    \* the events the user may delete
    BatchRows,    \* LIMIT of a delivery (32)
    MaxRows,      \* bound: rows of the outbox
    MaxFaults     \* bound: calls that fail on the way

EventId == ({"speech"} \X Segment) \cup ({"faces", "vision"} \X Photo) \cup ({"note"} \X Note)

(* The people an event names: speech and notes name nobody. *)
Names == [id \in EventId |-> IF id[1] \in {"faces", "vision"} THEN Shows[id[2]] ELSE {}]

ASSUME BridgeAssumption ==
    /\ Shows \in [Photo -> SUBSET Person]
    /\ Revisions \subseteq Nat
    /\ Asked \subseteq Photo
    /\ Deletable \subseteq EventId
    /\ BatchRows \in Nat \ {0}
    /\ MaxRows \in Nat
    /\ MaxFaults \in Nat

VARIABLES
    outbox,      \* agent_outbox, in the order of seq
    delivered,   \* how many of its rows are marked delivered
    call,        \* the call the bridge waits for: its first and last row and how far it got
    late,        \* calls the bridge gave up that may still reach the agent
    faults,      \* calls that have failed on the way
    evidence,    \* the agent: the revisions of events it holds
    tombs,       \* the agent: tombstones
    banned,      \* the agent: scene_removed_people
    taken,       \* the rows the agent has taken in (for the specification)
    hits,        \* events a search or a photo request has fetched and not yet ingested
    brought      \* history: events a photo request brought of people already forgotten

bridgeVars == <<outbox, delivered, call, late, faults, evidence, tombs, banned, taken, hits, brought>>

NoCall == [first |-> 0, last |-> 0, at |-> "none"]
Waiting == call # NoCall
Event(id, rev) == [kind |-> "event", of |-> id, rev |-> rev]
Withdrawn(n) == [kind |-> "invalidate", of |-> <<"note", n>>, rev |-> 0]
Forget(p) == [kind |-> "forget", of |-> p, rev |-> 0]
Rows == {outbox[i] : i \in 1..Len(outbox)}

BridgeInit ==
    /\ outbox = <<>> /\ delivered = 0 /\ call = NoCall /\ late = {} /\ faults = 0
    /\ evidence = {} /\ tombs = {} /\ banned = {} /\ taken = 0 /\ hits = {} /\ brought = {}

-----------------------------------------------------------------------------
(* The memory writes rows; a row that is there already is ignored. *)

Write(row) ==
    /\ row \notin Rows
    /\ Len(outbox) < MaxRows
    /\ outbox' = Append(outbox, row)
    /\ UNCHANGED <<delivered, call, late, faults, evidence, tombs, banned, taken, hits, brought>>

HearSegment(s, r) == Write(Event(<<"speech", s>>, r))
TakePhoto(c) == Write(Event(<<"faces", c>>, 0))
Interpret(c) == Event(<<"faces", c>>, 0) \in Rows /\ Write(Event(<<"vision", c>>, 0))
WithdrawNote(n) == Write(Withdrawn(n))
RemovePerson(p) == Write(Forget(p))

-----------------------------------------------------------------------------
(* The bridge sends the oldest rows, one call at a time. *)

Batch == delivered + 1 .. IF Len(outbox) < delivered + BatchRows THEN Len(outbox) ELSE delivered + BatchRows

Deliver ==
    /\ ~Waiting
    /\ delivered < Len(outbox)
    /\ call' = [first |-> CHOOSE i \in Batch : \A j \in Batch : i <= j,
                last |-> CHOOSE i \in Batch : \A j \in Batch : i >= j, at |-> "sent"]
    /\ UNCHANGED <<outbox, delivered, late, faults, evidence, tombs, banned, taken, hits, brought>>

Sent(c) == {outbox[i] : i \in c.first..c.last}

(* The agent's route, one transaction: withdrawn notes and everything that names  *)
(* a forgotten person are deleted, then the events are ingested; an event that    *)
(* names a forgotten person is passed over, one that has a tombstone refuses the  *)
(* whole call.                                                                    *)
Forgotten(c) == {row.of : row \in {r \in Sent(c) : r.kind = "forget"}}
Gone(c) == {row.of : row \in {r \in Sent(c) : r.kind = "invalidate"}}
             \cup {e.id : e \in {f \in evidence : Names[f.id] \cap Forgotten(c) # {}}}
Known(id) == Names[id] \cap banned # {}

\* Mutant: the ban is looked up before the call's own deletions.
Ingested_BanBefore(c) == {[id |-> row.of, rev |-> row.rev] :
                  row \in {r \in Sent(c) : r.kind = "event" /\ ~Known(r.of)}}

Ingested(c) == {[id |-> row.of, rev |-> row.rev] :
                  row \in {r \in Sent(c) : r.kind = "event" /\ Names[r.of] \cap (banned \cup Forgotten(c)) = {}}}

Acceptable(c) == \A e \in Ingested(c) : e.id \notin tombs \cup Gone(c)

TakeIn(c) ==
    /\ banned' = banned \cup Forgotten(c)
    /\ tombs' = tombs \cup Gone(c)
    /\ evidence' = {e \in evidence : e.id \notin Gone(c)} \cup Ingested(c)
    /\ taken' = IF c.last > taken THEN c.last ELSE taken

Refuse == UNCHANGED <<banned, tombs, evidence, taken>>

(* The call the bridge waits for reaches the agent. *)
Arrive ==
    /\ call.at = "sent"
    /\ IF Acceptable(call)
       THEN TakeIn(call) /\ call' = [call EXCEPT !.at = "accepted"]
       ELSE Refuse /\ call' = [call EXCEPT !.at = "refused"]
    /\ UNCHANGED <<outbox, delivered, late, faults, hits, brought>>

(* A call the bridge has given up reaches the agent after all. *)
ArriveLate(c) ==
    /\ late' = late \ {c}
    /\ IF Acceptable(c) THEN TakeIn(c) ELSE Refuse
    /\ UNCHANGED <<outbox, delivered, call, faults, hits, brought>>

\* Mutant: the bridge is free again only after a success.
Settled_OnSuccess == call' = IF call.at = "accepted" THEN NoCall ELSE [call EXCEPT !.at = "failed"]

(* However a delivery ends, the next flush may start another. *)
Settled == call' = NoCall

(* The answer: the rows are marked only when it is a success. *)
Answered ==
    /\ call.at \in {"accepted", "refused"}
    /\ delivered' = IF call.at = "accepted" THEN call.last ELSE delivered
    /\ Settled
    /\ UNCHANGED <<outbox, late, faults, evidence, tombs, banned, taken, hits, brought>>

\* Mutant: rows count as delivered once they were sent.
Unanswered_Marks == delivered' = call.last

(* Five seconds pass, the connection breaks or the memory restarts: nothing is    *)
(* marked; the call may have been handled, may be lost, or may arrive later.      *)
Unanswered == UNCHANGED delivered

GiveUp ==
    /\ Waiting
    /\ faults < MaxFaults
    /\ faults' = faults + 1
    /\ late' \in IF call.at = "sent" THEN {late, late \cup {call}} ELSE {late}
    /\ Settled
    /\ Unanswered
    /\ UNCHANGED <<outbox, evidence, tombs, banned, taken, hits, brought>>

-----------------------------------------------------------------------------
(* The agent's other ways to evidence. *)

(* A search is answered while the note is held; a photo once it is interpreted. *)
Fetch(id) ==
    /\ hits' = hits \cup {id}
    /\ UNCHANGED <<outbox, delivered, call, late, faults, evidence, tombs, banned, taken, brought>>

Search(n) == Withdrawn(n) \notin Rows /\ Fetch(<<"note", n>>)
AwaitPhoto(c) == Event(<<"vision", c>>, 0) \in Rows /\ Fetch(<<"vision", c>>)

(* What was fetched is ingested; a tombstone makes the tool fail. camera() does  *)
(* not look at scene_removed_people.                                              *)
Ingest(id) ==
    /\ hits' = hits \ {id}
    /\ evidence' = IF id \in tombs THEN evidence ELSE evidence \cup {[id |-> id, rev |-> 0]}
    /\ brought' = IF id \notin tombs /\ Known(id) THEN brought \cup {id} ELSE brought
    /\ UNCHANGED <<outbox, delivered, call, late, faults, tombs, banned, taken>>

(* The user deletes evidence the agent holds. *)
DeleteEvidence(id) ==
    /\ \E e \in evidence : e.id = id
    /\ tombs' = tombs \cup {id}
    /\ evidence' = {e \in evidence : e.id # id}
    /\ UNCHANGED <<outbox, delivered, call, late, faults, banned, taken, hits, brought>>

BridgeNext ==
    \/ \E s \in Segment, r \in Revisions : HearSegment(s, r)
    \/ \E c \in Photo : TakePhoto(c) \/ Interpret(c)
    \/ \E c \in Asked : AwaitPhoto(c)
    \/ \E n \in Note : WithdrawNote(n) \/ Search(n)
    \/ \E p \in Person : RemovePerson(p)
    \/ Deliver \/ Arrive \/ Answered \/ GiveUp
    \/ \E c \in late : ArriveLate(c)
    \/ \E id \in hits : Ingest(id)
    \/ \E id \in Deletable : DeleteEvidence(id)

(* The 100 ms timer, the network and the agent go on; nobody else has to do anything. *)
Exchange == Deliver \/ Arrive \/ Answered

BridgeSpec == BridgeInit /\ [][BridgeNext]_bridgeVars /\ WF_bridgeVars(Exchange)

-----------------------------------------------------------------------------
BridgeTypeOK ==
    /\ delivered \in 0..Len(outbox) /\ taken \in delivered..Len(outbox)
    /\ call = NoCall \/ call \in [first: 1..Len(outbox), last: 1..Len(outbox), at: {"sent", "accepted", "refused"}]
    /\ late \subseteq [first: 1..Len(outbox), last: 1..Len(outbox), at: {"sent"}]
    /\ faults \in 0..MaxFaults
    /\ evidence \subseteq [id: EventId, rev: Revisions \cup {0}]
    /\ tombs \subseteq EventId /\ hits \subseteq EventId /\ brought \subseteq EventId /\ banned \subseteq Person

(* A row that is marked delivered has had its effect: the agent holds the event, or *)
(* it was deleted or names someone forgotten; a withdrawn note is not held, and a   *)
(* forgotten person is banned.  No fault on the way loses accepted input.           *)
NothingLost == \A i \in 1..delivered :
    LET row == outbox[i] IN
    CASE row.kind = "event" -> \/ [id |-> row.of, rev |-> row.rev] \in evidence
                               \/ row.of \in tombs
                               \/ Known(row.of)
      [] row.kind = "invalidate" -> \A e \in evidence : e.id # row.of
      [] row.kind = "forget" -> row.of \in banned

(* In whatever order rows, repetitions, late calls and requested photos arrive,     *)
(* evidence names a person the agent was told to forget only if a photo request     *)
(* brought it after they were forgotten: the feed never does, and what a request    *)
(* brought before goes with the rest.                                               *)
ForgottenStayForgotten == \A e \in evidence : Known(e.id) => e.id \in brought

(* The feed is what its specification says: rows take effect once and in order,     *)
(* whatever calls are lost, repeated or late and whatever else brings evidence.      *)
Feed == INSTANCE SceneFeed WITH told <- outbox, Revisions <- Revisions \cup {0}
FeedIsExactlyOnce == Feed!Spec
=============================================================================
