------------------------- MODULE AgentBridge_proofs -------------------------
(***************************************************************************)
(* Theorems about the bridge, for any sets of people, segments, photos and *)
(* notes, any length of the outbox and any number of calls that fail.      *)
(*                                                                         *)
(* What is marked delivered has had its effect (NothingLost) because every *)
(* row the agent has taken in keeps its effect: Effects says so for all of *)
(* them, marked or not, and Calls says that no call, however late, starts  *)
(* behind the first row that is not taken in yet.  A call that is repeated *)
(* changes nothing but what names somebody forgotten (OldRows): evidence   *)
(* of them that a photo request brought back goes again (Again).  The      *)
(* refinement of SceneFeed rests on it.                                    *)
(***************************************************************************)
EXTENDS AgentBridge, TLAPS

RowsOK == outbox \in Seq(Feed!Row)

\* A row that the agent has taken in has its effect for good.
HasEffect(row) ==
    /\ row.kind = "event" => \/ [id |-> row.of, rev |-> row.rev] \in evidence
                             \/ row.of \in tombs
                             \/ Known(row.of)
    /\ row.kind = "invalidate" => row.of \in tombs
    /\ row.kind = "forget" => row.of \in banned

Effects == \A i \in 1..taken : HasEffect(outbox[i])
Buried == \A e \in evidence : e.id \notin tombs
Calls ==
    /\ \A c \in late : c.first \in 1..(taken + 1) /\ c.last \in c.first..Len(outbox)
    /\ Waiting => call.first \in 1..(taken + 1) /\ call.last \in call.first..Len(outbox)
    /\ call.at = "accepted" => call.last <= taken

BridgeInv == RowsOK /\ BridgeTypeOK /\ Calls /\ Buried /\ Effects

-----------------------------------------------------------------------------
(* Helpers *)

\* The rows of the bridge are rows of the feed.
LEMMA RowTypes ==
    ASSUME NEW row \in Feed!Row
    PROVE  /\ row.kind \in {"event", "invalidate", "forget"}
           /\ row.kind \in {"event", "invalidate"} => row.of \in EventId
           /\ row.kind = "event" => row.rev \in Revisions \cup {0}
           /\ row.kind = "forget" => row.of \in Person
BY DEF Feed!Row

\* The people of an event are people.
LEMMA NamesType == ASSUME NEW id \in EventId PROVE Names[id] \subseteq Person
<1>1. CASE id[1] \in {"faces", "vision"}
  <2>1. id[2] \in Photo
    BY <1>1 DEF EventId
  <2> QED
    BY <1>1, <2>1, BridgeAssumption DEF Names
<1>2. CASE id[1] \notin {"faces", "vision"}
  BY <1>2 DEF Names
<1> QED
  BY <1>1, <1>2

\* A batch starts at the first row that is not marked and ends at a row.
LEMMA BatchEnds ==
    ASSUME delivered \in Nat, Len(outbox) \in Nat, delivered < Len(outbox)
    PROVE  /\ (CHOOSE i \in Batch : \A j \in Batch : i <= j) = delivered + 1
           /\ (CHOOSE i \in Batch : \A j \in Batch : i >= j) \in (delivered + 1)..Len(outbox)
<1> DEFINE last == IF Len(outbox) < delivered + BatchRows THEN Len(outbox) ELSE delivered + BatchRows
<1>1. last \in (delivered + 1)..Len(outbox) /\ Batch = (delivered + 1)..last
  BY BridgeAssumption DEF Batch
<1>2. delivered + 1 \in Batch /\ last \in Batch
  BY <1>1
<1>3. (CHOOSE i \in Batch : \A j \in Batch : i <= j) \in Batch
  <2>1. \A j \in Batch : delivered + 1 <= j
    BY <1>1
  <2> QED
    BY <1>2, <2>1
<1>4. (CHOOSE i \in Batch : \A j \in Batch : i <= j) <= delivered + 1
  <2>1. \A j \in Batch : delivered + 1 <= j
    BY <1>1
  <2>2. \A j \in Batch : (CHOOSE i \in Batch : \A k \in Batch : i <= k) <= j
    BY <1>2, <2>1
  <2> QED
    BY <1>2, <2>2
<1>5. (CHOOSE i \in Batch : \A j \in Batch : i >= j) \in Batch
  <2>1. \A j \in Batch : last >= j
    BY <1>1
  <2> QED
    BY <1>2, <2>1
<1> HIDE DEF last
<1> QED
  BY <1>1, <1>3, <1>4, <1>5

\* What a call does to the agent keeps the types.
LEMMA TakenTypes ==
    ASSUME RowsOK, BridgeTypeOK, NEW c, c.first \in 1..Len(outbox), c.last \in 1..Len(outbox)
    PROVE  /\ Forgotten(c) \subseteq Person
           /\ Gone(c) \subseteq EventId
           /\ Ingested(c) \subseteq [id: EventId, rev: Revisions \cup {0}]
<1>1. Sent(c) \subseteq Feed!Row
  BY DEF RowsOK, Sent
<1>2. Forgotten(c) \subseteq Person
  BY <1>1, RowTypes DEF Forgotten
<1>3. Gone(c) \subseteq EventId
  BY <1>1, RowTypes DEF Gone, BridgeTypeOK
<1>4. Ingested(c) \subseteq [id: EventId, rev: Revisions \cup {0}]
  BY <1>1, RowTypes DEF Ingested
<1> QED
  BY <1>2, <1>3, <1>4

-----------------------------------------------------------------------------
(* Every step preserves the invariant *)

\* The initial state satisfies the invariant.
LEMMA InitInv == BridgeInit => BridgeInv
<1> SUFFICES ASSUME BridgeInit PROVE BridgeInv
  OBVIOUS
<1>1. Len(outbox) = 0 /\ RowsOK
  BY DEF BridgeInit, RowsOK
<1>2. BridgeTypeOK
  BY <1>1, BridgeAssumption DEF BridgeInit, BridgeTypeOK
<1>3. Calls /\ Buried /\ Effects
  BY <1>1 DEF BridgeInit, Calls, Buried, Effects, Waiting, NoCall
<1> QED
  BY <1>1, <1>2, <1>3 DEF BridgeInv

\* Writing a row only makes the outbox longer.
LEMMA WriteGrows ==
    ASSUME RowsOK, NEW row \in Feed!Row, Write(row)
    PROVE  /\ outbox' \in Seq(Feed!Row) /\ Len(outbox') = Len(outbox) + 1
           /\ \A i \in 1..Len(outbox) : outbox'[i] = outbox[i]
BY DEF RowsOK, Write

\* The rows the memory writes are rows of the feed.
LEMMA Writers ==
    ASSUME BridgeNext,
           ~ (\/ \E c \in Asked : AwaitPhoto(c)
              \/ \E n \in Note : Search(n)
              \/ Deliver \/ Arrive \/ Answered \/ GiveUp
              \/ \E c \in late : ArriveLate(c)
              \/ \E id \in hits : Ingest(id)
              \/ \E id \in Deletable : DeleteEvidence(id))
    PROVE  \E row \in Feed!Row : Write(row)
<1>1. ASSUME NEW s \in Segment, NEW r \in Revisions, HearSegment(s, r)
      PROVE  \E row \in Feed!Row : Write(row)
  <2>1. Event(<<"speech", s>>, r) \in Feed!Row
    BY DEF Event, Feed!Row, EventId
  <2> QED
    BY <1>1, <2>1 DEF HearSegment
<1>2. ASSUME NEW c \in Photo, TakePhoto(c) \/ Interpret(c)
      PROVE  \E row \in Feed!Row : Write(row)
  <2>1. Event(<<"faces", c>>, 0) \in Feed!Row /\ Event(<<"vision", c>>, 0) \in Feed!Row
    BY DEF Event, Feed!Row, EventId
  <2> QED
    BY <1>2, <2>1 DEF TakePhoto, Interpret
<1>3. ASSUME NEW n \in Note, WithdrawNote(n)
      PROVE  \E row \in Feed!Row : Write(row)
  <2>1. Withdrawn(n) \in Feed!Row
    BY DEF Withdrawn, Feed!Row, EventId
  <2> QED
    BY <1>3, <2>1 DEF WithdrawNote
<1>4. ASSUME NEW p \in Person, RemovePerson(p)
      PROVE  \E row \in Feed!Row : Write(row)
  <2>1. Forget(p) \in Feed!Row
    BY DEF Forget, Feed!Row
  <2> QED
    BY <1>4, <2>1 DEF RemovePerson
<1> QED
  BY <1>1, <1>2, <1>3, <1>4 DEF BridgeNext

\* The outbox is only ever appended to, by rows of the feed.
LEMMA OutboxStep ==
    ASSUME BridgeInv, [BridgeNext]_bridgeVars
    PROVE  /\ RowsOK'
           /\ Len(outbox') \in Nat /\ Len(outbox) \in Nat /\ Len(outbox') >= Len(outbox)
           /\ \A i \in 1..Len(outbox) : outbox'[i] = outbox[i]
<1>0. outbox \in Seq(Feed!Row)
  BY DEF BridgeInv, RowsOK
<1>1. CASE outbox' = outbox
  BY <1>0, <1>1 DEF RowsOK
<1>2. CASE outbox' # outbox
  <2>1. BridgeNext /\ ~ (\/ \E c \in Asked : AwaitPhoto(c)
                         \/ \E n \in Note : Search(n)
                         \/ Deliver \/ Arrive \/ Answered \/ GiveUp
                         \/ \E c \in late : ArriveLate(c)
                         \/ \E id \in hits : Ingest(id)
                         \/ \E id \in Deletable : DeleteEvidence(id))
    BY <1>2 DEF bridgeVars, AwaitPhoto, Search, Fetch, Deliver, Arrive, Answered, GiveUp,
                ArriveLate, Ingest, DeleteEvidence
  <2>2. PICK row \in Feed!Row : Write(row)
    BY <2>1, Writers
  <2> QED
    BY <1>0, <2>2, WriteGrows DEF RowsOK
<1> QED
  BY <1>1, <1>2

\* An event that was taken in before is held, deleted, or names someone forgotten; a call
\* that brings it again does not bring a deleted one back.
LEMMA TakeInKeeps ==
    ASSUME BridgeInv, NEW c, c.first \in 1..(taken + 1), c.last \in c.first..Len(outbox),
           Acceptable(c), TakeIn(c), UNCHANGED outbox
    PROVE  Buried' /\ Effects'
<1> USE DEF BridgeInv
<1>0. /\ taken \in Nat /\ taken <= Len(outbox) /\ Len(outbox) \in Nat
      /\ outbox \in Seq(Feed!Row) /\ taken' \in taken..Len(outbox)
  BY DEF RowsOK, BridgeTypeOK, TakeIn
<1>1. Buried'
  BY DEF TakeIn, Acceptable, Buried
<1>2. ASSUME NEW i \in 1..taken PROVE HasEffect(outbox[i])'
  <2>0. outbox[i] \in Feed!Row /\ HasEffect(outbox[i])
    BY <1>0 DEF Effects
  <2>1. CASE outbox[i].kind = "event"
    <3>1. CASE Known(outbox[i].of) \/ outbox[i].of \in tombs
      BY <2>1, <3>1 DEF HasEffect, Known, TakeIn
    <3>2. CASE [id |-> outbox[i].of, rev |-> outbox[i].rev] \in evidence
      BY <2>1, <3>2 DEF HasEffect, TakeIn
    <3> QED
      BY <2>0, <2>1, <3>1, <3>2 DEF HasEffect
  <2>2. CASE outbox[i].kind # "event"
    BY <2>0, <2>2 DEF HasEffect, TakeIn
  <2> QED
    BY <2>1, <2>2
<1>3. ASSUME NEW i \in (taken + 1)..taken' PROVE HasEffect(outbox[i])'
  <2>1. i \in c.first..c.last /\ outbox[i] \in Sent(c) /\ outbox[i] \in Feed!Row
    BY <1>0 DEF TakeIn, Sent
  <2>2. CASE outbox[i].kind = "event"
    <3>1. CASE Names[outbox[i].of] \cap (banned \cup Forgotten(c)) = {}
      <4>1. [id |-> outbox[i].of, rev |-> outbox[i].rev] \in Ingested(c)
        BY <2>1, <2>2, <3>1 DEF Ingested
      <4> QED
        BY <2>2, <4>1 DEF HasEffect, TakeIn
    <3>2. CASE Names[outbox[i].of] \cap (banned \cup Forgotten(c)) # {}
      BY <2>2, <3>2 DEF HasEffect, TakeIn, Known
    <3> QED
      BY <3>1, <3>2
  <2>3. CASE outbox[i].kind = "invalidate"
    <3>1. outbox[i].of \in Gone(c)
      BY <2>1, <2>3 DEF Gone
    <3> QED
      BY <2>3, <3>1 DEF HasEffect, TakeIn
  <2>4. CASE outbox[i].kind = "forget"
    <3>1. outbox[i].of \in Forgotten(c)
      BY <2>1, <2>4 DEF Forgotten
    <3> QED
      BY <2>4, <3>1 DEF HasEffect, TakeIn
  <2> QED
    BY <2>1, <2>2, <2>3, <2>4, RowTypes
<1>4. Effects'
  <2> SUFFICES ASSUME NEW i \in 1..taken' PROVE HasEffect(outbox[i])'
    BY <1>0 DEF Effects
  <2>1. i \in 1..taken \/ i \in (taken + 1)..taken'
    BY <1>0
  <2> QED
    BY <2>1, <1>2, <1>3
<1> QED
  BY <1>1, <1>4

\* The types are preserved.
LEMMA TypeStep == BridgeInv /\ [BridgeNext]_bridgeVars => BridgeTypeOK'
<1> SUFFICES ASSUME BridgeInv, [BridgeNext]_bridgeVars PROVE BridgeTypeOK'
  OBVIOUS
<1> USE DEF BridgeInv
<1>0. /\ Len(outbox') \in Nat /\ Len(outbox) \in Nat /\ Len(outbox') >= Len(outbox)
      /\ delivered \in Nat /\ taken \in Nat
  BY OutboxStep DEF BridgeTypeOK
<1>1. ASSUME NEW row, Write(row) PROVE BridgeTypeOK'
  BY <1>0, <1>1 DEF BridgeTypeOK, Write
<1>2. ASSUME NEW id \in EventId, Fetch(id) PROVE BridgeTypeOK'
  BY <1>2 DEF BridgeTypeOK, Fetch
<1>3. CASE Deliver
  <2>1. /\ call'.first = delivered + 1 /\ call'.last \in (delivered + 1)..Len(outbox)
        /\ call'.at = "sent"
        /\ call' = [first |-> call'.first, last |-> call'.last, at |-> "sent"]
    BY <1>0, <1>3, BatchEnds DEF Deliver
  <2>2. UNCHANGED <<outbox, delivered, late, faults, evidence, tombs, banned, taken, hits, brought>>
    BY <1>3 DEF Deliver
  <2>3. call' \in [first: 1..Len(outbox'), last: 1..Len(outbox'), at: {"sent", "accepted", "refused"}]
    BY <1>0, <2>1, <2>2
  <2> QED
    BY <1>0, <2>2, <2>3 DEF BridgeTypeOK
<1>4. ASSUME NEW c, c.first \in 1..Len(outbox), c.last \in 1..Len(outbox), TakeIn(c)
      PROVE  /\ banned' \subseteq Person /\ tombs' \subseteq EventId
             /\ evidence' \subseteq [id: EventId, rev: Revisions \cup {0}]
             /\ taken' \in taken..Len(outbox)
  BY <1>0, <1>4, TakenTypes DEF TakeIn, BridgeTypeOK
<1>5. CASE Arrive
  <2>1. /\ call \in [first: 1..Len(outbox), last: 1..Len(outbox), at: {"sent", "accepted", "refused"}]
        /\ call' \in [first: 1..Len(outbox), last: 1..Len(outbox), at: {"sent", "accepted", "refused"}]
    BY <1>5 DEF Arrive, BridgeTypeOK, NoCall
  <2>2. /\ banned' \subseteq Person /\ tombs' \subseteq EventId
        /\ evidence' \subseteq [id: EventId, rev: Revisions \cup {0}]
        /\ taken' \in taken..Len(outbox)
    BY <1>0, <1>4, <1>5, <2>1 DEF Arrive, Refuse, BridgeTypeOK
  <2> QED
    BY <1>0, <1>5, <2>1, <2>2 DEF Arrive, BridgeTypeOK
<1>6. ASSUME NEW c \in late, ArriveLate(c) PROVE BridgeTypeOK'
  <2>1. c.first \in 1..Len(outbox) /\ c.last \in 1..Len(outbox)
    BY DEF BridgeTypeOK
  <2>2. /\ banned' \subseteq Person /\ tombs' \subseteq EventId
        /\ evidence' \subseteq [id: EventId, rev: Revisions \cup {0}]
        /\ taken' \in taken..Len(outbox)
    BY <1>0, <1>4, <1>6, <2>1 DEF ArriveLate, Refuse, BridgeTypeOK
  <2> QED
    BY <1>0, <1>6, <2>2 DEF ArriveLate, BridgeTypeOK
<1>7. CASE Answered
  <2>1. call.at = "accepted" => call.last \in delivered'..taken /\ Waiting
    BY <1>0, <1>7 DEF Answered, Calls, NoCall, BridgeTypeOK, Waiting
  <2>2. delivered' \in 0..Len(outbox) /\ taken \in delivered'..Len(outbox)
    BY <1>0, <1>7, <2>1 DEF Answered, BridgeTypeOK, Calls
  <2> QED
    BY <1>0, <1>7, <2>2 DEF Answered, Settled, BridgeTypeOK
<1>8. CASE GiveUp
  <2>1. late' \subseteq [first: 1..Len(outbox), last: 1..Len(outbox), at: {"sent"}]
    <3>1. CASE late' = late
      BY <3>1 DEF BridgeTypeOK
    <3>2. CASE call.at = "sent" /\ late' = late \cup {call}
      <4>1. call \in [first: 1..Len(outbox), last: 1..Len(outbox), at: {"sent"}]
        BY <3>2 DEF BridgeTypeOK, NoCall
      <4> QED
        BY <3>2, <4>1 DEF BridgeTypeOK
    <3> QED
      BY <1>8, <3>1, <3>2 DEF GiveUp
  <2> QED
    BY <1>0, <1>8, <2>1, BridgeAssumption DEF GiveUp, Settled, Unanswered, BridgeTypeOK
<1>9. ASSUME NEW id \in hits, Ingest(id) PROVE BridgeTypeOK'
  BY <1>9 DEF BridgeTypeOK, Ingest
<1>10. ASSUME NEW id \in Deletable, DeleteEvidence(id) PROVE BridgeTypeOK'
  BY <1>10, BridgeAssumption DEF BridgeTypeOK, DeleteEvidence
<1>11. CASE UNCHANGED bridgeVars
  BY <1>11 DEF bridgeVars, BridgeTypeOK
<1>12. ASSUME NEW c \in Asked, AwaitPhoto(c) PROVE BridgeTypeOK'
  <2>1. <<"vision", c>> \in EventId
    BY BridgeAssumption DEF EventId
  <2> QED
    BY <1>2, <1>12, <2>1 DEF AwaitPhoto
<1>13. ASSUME NEW n \in Note, Search(n) PROVE BridgeTypeOK'
  <2>1. <<"note", n>> \in EventId
    BY DEF EventId
  <2> QED
    BY <1>2, <1>13, <2>1 DEF Search
<1> QED
  BY <1>1, <1>3, <1>5, <1>6, <1>7, <1>8, <1>9, <1>10, <1>11, <1>12, <1>13, Writers

\* No call starts behind the first row that has not been taken in.
LEMMA CallsStep == BridgeInv /\ [BridgeNext]_bridgeVars => Calls'
<1> SUFFICES ASSUME BridgeInv, [BridgeNext]_bridgeVars PROVE Calls'
  OBVIOUS
<1> USE DEF BridgeInv
<1>0. /\ Len(outbox') \in Nat /\ Len(outbox) \in Nat /\ Len(outbox') >= Len(outbox)
      /\ delivered \in Nat /\ taken \in Nat /\ delivered <= taken /\ taken <= Len(outbox)
  BY OutboxStep DEF BridgeTypeOK
<1>1. taken' \in Nat /\ taken' >= taken
  <2>1. ASSUME NEW c, c.last \in Nat, TakeIn(c) PROVE taken' \in Nat /\ taken' >= taken
    BY <1>0, <2>1 DEF TakeIn
  <2>2. CASE Arrive
    <3>1. call.last \in Nat
      BY <1>0, <2>2 DEF Arrive, BridgeTypeOK, NoCall
    <3> QED
      BY <1>0, <2>1, <2>2, <3>1 DEF Arrive, Refuse
  <2>3. ASSUME NEW c \in late, ArriveLate(c) PROVE taken' \in Nat /\ taken' >= taken
    <3>1. c.last \in Nat
      BY <1>0 DEF BridgeTypeOK
    <3> QED
      BY <1>0, <2>1, <2>3, <3>1 DEF ArriveLate, Refuse
  <2>4. ASSUME UNCHANGED taken PROVE taken' \in Nat /\ taken' >= taken
    BY <1>0, <2>4
  <2>5. ASSUME NEW row, Write(row) PROVE UNCHANGED taken
    BY <2>5 DEF Write
  <2> QED
    BY <2>2, <2>3, <2>4, <2>5, Writers
       DEF bridgeVars, AwaitPhoto, Search, Fetch, Deliver, Answered, GiveUp, Ingest, DeleteEvidence
<1>2. ASSUME UNCHANGED call PROVE /\ Waiting' => call'.first \in 1..(taken' + 1) /\ call'.last \in call'.first..Len(outbox')
                                  /\ call'.at = "accepted" => call'.last <= taken'
  <2>1. call.first \in Nat /\ call.last \in Nat
    BY <1>0 DEF BridgeTypeOK, NoCall
  <2> QED
    BY <1>0, <1>1, <1>2, <2>1 DEF Calls, Waiting
<1>3. ASSUME NEW S, S \subseteq late, late' = S
      PROVE  \A c \in late' : c.first \in 1..(taken' + 1) /\ c.last \in c.first..Len(outbox')
  <2> SUFFICES ASSUME NEW c \in late PROVE c.first \in 1..(taken' + 1) /\ c.last \in c.first..Len(outbox')
    BY <1>3
  <2>1. c.first \in Nat /\ c.last \in Nat
    BY <1>0 DEF BridgeTypeOK
  <2> QED
    BY <1>0, <1>1, <2>1 DEF Calls
<1>4. ASSUME UNCHANGED <<call, late>> PROVE Calls'
  BY <1>2, <1>3, <1>4 DEF Calls
<1>5. CASE Deliver
  <2>1. call'.first = delivered + 1 /\ call'.last \in (delivered + 1)..Len(outbox) /\ call'.at = "sent"
    BY <1>0, <1>5, BatchEnds DEF Deliver
  <2>2. UNCHANGED <<outbox, delivered, late, faults, evidence, tombs, banned, taken, hits, brought>>
    BY <1>5 DEF Deliver
  <2>3. call'.first \in 1..(taken' + 1) /\ call'.last \in call'.first..Len(outbox')
    BY <1>0, <2>1, <2>2
  <2>4. \A c \in late' : c.first \in 1..(taken' + 1) /\ c.last \in c.first..Len(outbox')
    BY <1>3, <2>2
  <2> QED
    BY <2>1, <2>3, <2>4 DEF Calls
<1>6. CASE Arrive
  <2>1. call \in [first: 1..Len(outbox), last: 1..Len(outbox), at: {"sent", "accepted", "refused"}] /\ Waiting
    BY <1>6 DEF Arrive, BridgeTypeOK, NoCall, Waiting
  <2>2. call'.first = call.first /\ call'.last = call.last
    BY <1>6, <2>1 DEF Arrive
  <2>3. call'.at = "accepted" => call'.last <= taken'
    BY <1>0, <1>6, <2>1, <2>2 DEF Arrive, TakeIn
  <2>4. call.first \in 1..(taken + 1) /\ call.last \in call.first..Len(outbox)
    BY <2>1 DEF Calls
  <2> QED
    BY <1>0, <1>1, <1>3, <1>6, <2>1, <2>2, <2>3, <2>4 DEF Arrive, Calls
<1>7. ASSUME NEW c \in late, ArriveLate(c) PROVE Calls'
  BY <1>2, <1>3, <1>7 DEF ArriveLate, Calls
<1>8. CASE Answered
  BY <1>3, <1>8 DEF Answered, Settled, Calls, NoCall, Waiting
<1>9. CASE GiveUp
  <2>1. \A c \in late : c.first \in 1..(taken' + 1) /\ c.last \in c.first..Len(outbox')
    <3> SUFFICES ASSUME NEW c \in late PROVE c.first \in 1..(taken' + 1) /\ c.last \in c.first..Len(outbox')
      OBVIOUS
    <3>1. c.first \in Nat /\ c.last \in Nat
      BY <1>0 DEF BridgeTypeOK
    <3> QED
      BY <1>0, <1>1, <3>1 DEF Calls
  <2>2. call.first \in 1..(taken' + 1) /\ call.last \in call.first..Len(outbox')
    <3>1. call.first \in Nat /\ call.last \in Nat
      BY <1>0 DEF BridgeTypeOK, NoCall
    <3> QED
      BY <1>0, <1>1, <1>9, <3>1 DEF Calls, GiveUp
  <2> QED
    BY <1>9, <2>1, <2>2 DEF GiveUp, Settled, Calls, NoCall, Waiting
<1> QED
  BY <1>4, <1>5, <1>6, <1>7, <1>8, <1>9, Writers
     DEF bridgeVars, AwaitPhoto, Search, Fetch, Ingest, DeleteEvidence, Write

\* What is deleted stays deleted, and what was taken in keeps its effect.
LEMMA EffectsStep == BridgeInv /\ [BridgeNext]_bridgeVars => Buried' /\ Effects'
<1> SUFFICES ASSUME BridgeInv, [BridgeNext]_bridgeVars PROVE Buried' /\ Effects'
  OBVIOUS
<1> USE DEF BridgeInv
<1>0. /\ taken \in Nat /\ taken <= Len(outbox) /\ Len(outbox) \in Nat
      /\ \A i \in 1..Len(outbox) : outbox'[i] = outbox[i]
  BY OutboxStep DEF BridgeTypeOK
<1>1. ASSUME UNCHANGED <<taken, evidence, tombs, banned>> PROVE Buried' /\ Effects'
  <2>1. \A i \in 1..taken : outbox'[i] = outbox[i]
    BY <1>0
  <2> QED
    BY <1>1, <2>1 DEF Buried, Effects, HasEffect, Known
<1>2. CASE Arrive
  <2>1. CASE Acceptable(call)
    <3>1. call.first \in 1..(taken + 1) /\ call.last \in call.first..Len(outbox)
      BY <1>2 DEF Arrive, Calls, NoCall, Waiting
    <3> QED
      BY <1>2, <2>1, <3>1, TakeInKeeps DEF Arrive
  <2>2. CASE ~ Acceptable(call)
    BY <1>1, <1>2, <2>2 DEF Arrive, Refuse
  <2> QED
    BY <2>1, <2>2
<1>3. ASSUME NEW c \in late, ArriveLate(c) PROVE Buried' /\ Effects'
  <2>1. CASE Acceptable(c)
    <3>1. c.first \in 1..(taken + 1) /\ c.last \in c.first..Len(outbox)
      BY DEF Calls
    <3> QED
      BY <1>3, <2>1, <3>1, TakeInKeeps DEF ArriveLate
  <2>2. CASE ~ Acceptable(c)
    BY <1>1, <1>3, <2>2 DEF ArriveLate, Refuse
  <2> QED
    BY <2>1, <2>2
<1>4. ASSUME NEW id \in hits, Ingest(id) PROVE Buried' /\ Effects'
  BY <1>4 DEF Ingest, Buried, Effects, HasEffect, Known
<1>5. ASSUME NEW id \in Deletable, DeleteEvidence(id) PROVE Buried' /\ Effects'
  <2>1. Buried'
    BY <1>5 DEF DeleteEvidence, Buried
  <2>2. ASSUME NEW i \in 1..taken PROVE HasEffect(outbox[i])'
    <3>1. HasEffect(outbox[i]) /\ outbox' = outbox
      BY <1>5 DEF Effects, DeleteEvidence
    <3>2. CASE [id |-> outbox[i].of, rev |-> outbox[i].rev] \in evidence
      BY <1>5, <3>1, <3>2 DEF DeleteEvidence, HasEffect, Known
    <3>3. CASE [id |-> outbox[i].of, rev |-> outbox[i].rev] \notin evidence
      BY <1>5, <3>1, <3>3 DEF DeleteEvidence, HasEffect, Known
    <3> QED
      BY <3>2, <3>3
  <2> QED
    BY <1>5, <2>1, <2>2 DEF DeleteEvidence, Effects
<1> QED
  BY <1>1, <1>2, <1>3, <1>4, <1>5, Writers
     DEF bridgeVars, AwaitPhoto, Search, Fetch, Deliver, Answered, GiveUp, Write

\* The invariant holds in every reachable state.
LEMMA BridgeStep == BridgeInv /\ [BridgeNext]_bridgeVars => BridgeInv'
BY TypeStep, CallsStep, EffectsStep, OutboxStep DEF BridgeInv

LEMMA InvAlways == BridgeSpec => []BridgeInv
BY InitInv, BridgeStep, PTL DEF BridgeSpec

-----------------------------------------------------------------------------
(* Theorems *)

\* The bridge's state always has its type.
THEOREM BridgeTypes == BridgeSpec => []BridgeTypeOK
<1>1. BridgeInv => BridgeTypeOK
  BY DEF BridgeInv
<1> QED
  BY InvAlways, <1>1, PTL

LEMMA DeliveredHolds == BridgeInv => NothingLost
<1> SUFFICES ASSUME BridgeInv, NEW i \in 1..delivered
             PROVE  LET row == outbox[i] IN
                    CASE row.kind = "event" -> \/ [id |-> row.of, rev |-> row.rev] \in evidence
                                               \/ row.of \in tombs
                                               \/ Known(row.of)
                      [] row.kind = "invalidate" -> \A e \in evidence : e.id # row.of
                      [] row.kind = "forget" -> row.of \in banned
  BY DEF NothingLost
<1>1. i \in 1..taken /\ i \in 1..Len(outbox)
  BY DEF BridgeInv, BridgeTypeOK, RowsOK
<1>2. HasEffect(outbox[i]) /\ outbox[i] \in Feed!Row
  BY <1>1 DEF BridgeInv, Effects, RowsOK
<1>3. outbox[i].kind \in {"event", "invalidate", "forget"}
  BY <1>2, RowTypes
<1>4. CASE outbox[i].kind = "event"
  BY <1>2, <1>4 DEF HasEffect
<1>5. CASE outbox[i].kind = "invalidate"
  BY <1>2, <1>5 DEF HasEffect, BridgeInv, Buried
<1>6. CASE outbox[i].kind = "forget"
  BY <1>2, <1>6 DEF HasEffect
<1> QED
  BY <1>3, <1>4, <1>5, <1>6

\* A row that is marked delivered has had its effect on the agent and keeps it, whatever
\* calls are lost, repeated or handled late (agent-bridge.ts, server.ts).
THEOREM NothingIsLost == BridgeSpec => []NothingLost
<1> QED
  BY InvAlways, DeliveredHolds, PTL

-----------------------------------------------------------------------------
(* Who is forgotten *)

\* Evidence of who is forgotten was brought by a request after they were.
LEMMA ForgottenStep ==
    ASSUME ForgottenStayForgotten, [BridgeNext]_bridgeVars
    PROVE  ForgottenStayForgotten'
<1>1. ASSUME NEW c, TakeIn(c), UNCHANGED brought PROVE ForgottenStayForgotten'
  <2>1. \A e \in Ingested(c) : Names[e.id] \cap (banned \cup Forgotten(c)) = {}
    BY DEF Ingested
  <2>2. \A e \in evidence : e.id \notin Gone(c) => Names[e.id] \cap Forgotten(c) = {}
    BY DEF Gone
  <2>3. \A e \in evidence : Names[e.id] \cap banned # {} => e.id \in brought
    BY DEF ForgottenStayForgotten, Known
  <2> QED
    BY <1>1, <2>1, <2>2, <2>3 DEF TakeIn, ForgottenStayForgotten, Known
<1>2. ASSUME NEW id \in hits, Ingest(id) PROVE ForgottenStayForgotten'
  BY <1>2 DEF Ingest, ForgottenStayForgotten, Known
<1>3. ASSUME NEW id \in Deletable, DeleteEvidence(id) PROVE ForgottenStayForgotten'
  BY <1>3 DEF DeleteEvidence, ForgottenStayForgotten, Known
<1>4. ASSUME UNCHANGED <<evidence, banned, brought>> PROVE ForgottenStayForgotten'
  BY <1>4 DEF ForgottenStayForgotten, Known
<1> QED
  BY <1>1, <1>2, <1>3, <1>4, Writers
     DEF bridgeVars, Deliver, Arrive, Answered, GiveUp, ArriveLate, Refuse, AwaitPhoto, Search, Fetch, Write

\* In whatever order rows, repetitions, late calls and requested photos arrive, the agent's
\* evidence names somebody it was told to forget only if a photo request brought it after
\* they were forgotten (server.ts, the route of the scene's evidence; scene-memory.ts, camera).
THEOREM ForgottenHolds == BridgeSpec => []ForgottenStayForgotten
<1>1. BridgeInit => ForgottenStayForgotten
  BY DEF BridgeInit, ForgottenStayForgotten
<1>2. ForgottenStayForgotten /\ [BridgeNext]_bridgeVars => ForgottenStayForgotten'
  BY ForgottenStep
<1> QED
  BY <1>1, <1>2, PTL DEF BridgeSpec

-----------------------------------------------------------------------------
(* The bridge implements the feed *)

NextForgotten(next) == {row.of : row \in {r \in next : r.kind = "forget"}}
NextGone(next) == {row.of : row \in {r \in next : r.kind = "invalidate"}}
                    \cup {e.id : e \in {f \in evidence : Names[f.id] \cap NextForgotten(next) # {}}}
NextNew(next) == {[id |-> row.of, rev |-> row.rev] :
                    row \in {r \in next : r.kind = "event" /\ Names[r.of] \cap (banned \cup NextForgotten(next)) = {}}}

\* What a call deletes of somebody who was forgotten before.
Again(c) == {e.id : e \in {f \in evidence : Names[f.id] \cap Forgotten(c) \cap banned # {}}}

\* Rows of a call that have had their effect add nothing to it but Again: the call does what
\* its other rows do.
LEMMA OldRows ==
    ASSUME BridgeInv, NEW c, Acceptable(c), TakeIn(c),
           NEW next, next \subseteq Sent(c),
           \A row \in Sent(c) : row \in next \/ HasEffect(row)
    PROVE  /\ banned' = banned \cup NextForgotten(next)
           /\ tombs' = tombs \cup (NextGone(next) \cup Again(c))
           /\ evidence' = {e \in evidence : e.id \notin NextGone(next) \cup Again(c)} \cup NextNew(next)
           /\ \A e \in NextNew(next) : e.id \notin tombs'
<1>1. banned \cup Forgotten(c) = banned \cup NextForgotten(next)
  BY DEF Forgotten, NextForgotten, HasEffect
<1>2. ASSUME NEW e \in evidence
      PROVE  /\ Names[e.id] \cap Forgotten(c) # {} <=> \/ Names[e.id] \cap NextForgotten(next) # {}
                                                       \/ Names[e.id] \cap Forgotten(c) \cap banned # {}
             /\ e.id \notin tombs
  <2>1. NextForgotten(next) \subseteq Forgotten(c)
    BY DEF Forgotten, NextForgotten
  <2> QED
    BY <1>1, <2>1 DEF BridgeInv, Buried
<1>3. Gone(c) \subseteq tombs \cup (NextGone(next) \cup Again(c))
  BY <1>2 DEF Gone, NextGone, Again, HasEffect
<1>4. NextGone(next) \cup Again(c) \subseteq Gone(c)
  BY <1>2 DEF Gone, NextGone, Again
<1>5. NextNew(next) \subseteq Ingested(c)
  BY <1>1 DEF NextNew, Ingested
<1>6. ASSUME NEW new \in Ingested(c), new \notin NextNew(next)
      PROVE  new \in evidence /\ new.id \notin Gone(c)
  <2>1. PICK row \in Sent(c) : /\ row.kind = "event"
                               /\ Names[row.of] \cap (banned \cup Forgotten(c)) = {}
                               /\ new = [id |-> row.of, rev |-> row.rev]
    BY DEF Ingested
  <2>2. row \notin next
    BY <1>1, <1>6, <2>1 DEF NextNew
  <2>3. new.id = row.of /\ new.id \notin tombs \cup Gone(c)
    BY <2>1 DEF Acceptable
  <2>4. ~ Known(row.of)
    BY <2>1 DEF Known
  <2> QED
    BY <2>1, <2>2, <2>3, <2>4 DEF HasEffect
<1>7. \A e \in evidence : e.id \notin Gone(c) <=> e.id \notin NextGone(next) \cup Again(c)
  BY <1>2, <1>3, <1>4
<1>8. evidence' = {e \in evidence : e.id \notin NextGone(next) \cup Again(c)} \cup NextNew(next)
  BY <1>5, <1>6, <1>7 DEF TakeIn
<1>9. tombs' = tombs \cup (NextGone(next) \cup Again(c))
  BY <1>3, <1>4 DEF TakeIn
<1>10. \A e \in NextNew(next) : e.id \notin tombs'
  BY <1>5 DEF TakeIn, Acceptable
<1> QED
  BY <1>1, <1>8, <1>9, <1>10 DEF TakeIn

\* A call that is taken in is a step of the feed.
LEMMA TakeInRefines ==
    ASSUME BridgeInv, NEW c, c.first \in 1..(taken + 1), c.last \in c.first..Len(outbox),
           Acceptable(c), TakeIn(c), UNCHANGED outbox
    PROVE  Feed!Next
<1>0. /\ taken \in Nat /\ taken <= Len(outbox) /\ Len(outbox) \in Nat /\ c.first \in Nat /\ c.last \in Nat
      /\ taken' \in taken..Len(outbox) /\ (c.last > taken => taken' = c.last)
      /\ (c.last <= taken => taken' = taken)
  BY DEF BridgeInv, BridgeTypeOK, RowsOK, TakeIn
<1> DEFINE next == {outbox[i] : i \in (taken + 1)..taken'}
<1>1. next \subseteq Sent(c)
  BY <1>0 DEF Sent
<1>2. \A row \in Sent(c) : row \in next \/ HasEffect(row)
  <2> SUFFICES ASSUME NEW i \in c.first..c.last PROVE outbox[i] \in next \/ HasEffect(outbox[i])
    BY DEF Sent
  <2>1. CASE i <= taken
    BY <1>0, <2>1 DEF BridgeInv, Effects
  <2>2. CASE i > taken
    BY <1>0, <2>2
  <2> QED
    BY <1>0, <2>1, <2>2
<1>3. /\ banned' = banned \cup NextForgotten(next)
      /\ tombs' = tombs \cup (NextGone(next) \cup Again(c))
      /\ evidence' = {e \in evidence : e.id \notin NextGone(next) \cup Again(c)} \cup NextNew(next)
      /\ \A e \in NextNew(next) : e.id \notin tombs'
  <2> HIDE DEF next
  <2> QED
    BY <1>1, <1>2, OldRows
<1>4. Again(c) \in SUBSET {e.id : e \in {f \in evidence : Names[f.id] \cap banned # {}}}
  BY DEF Again
<1>5. Feed!TakeIn
  BY <1>0, <1>3, <1>4 DEF Feed!TakeIn, NextForgotten, NextGone, NextNew
<1> QED
  BY <1>5 DEF Feed!Next

\* Every step of the bridge is a step of the feed or changes nothing it speaks of.
LEMMA StepRefines ==
    ASSUME BridgeInv, [BridgeNext]_bridgeVars
    PROVE  [Feed!Next]_(Feed!feed)
<1>1. ASSUME NEW row \in Feed!Row, Write(row) PROVE [Feed!Next]_(Feed!feed)
  BY <1>1 DEF Write, Feed!Tell, Feed!Next
<1>2. CASE Arrive
  <2>1. CASE Acceptable(call)
    <3>1. call.first \in 1..(taken + 1) /\ call.last \in call.first..Len(outbox)
      BY <1>2 DEF Arrive, BridgeInv, Calls, NoCall, Waiting
    <3> QED
      BY <1>2, <2>1, <3>1, TakeInRefines DEF Arrive
  <2>2. CASE ~ Acceptable(call)
    BY <1>2, <2>2 DEF Arrive, Refuse, Feed!feed
  <2> QED
    BY <2>1, <2>2
<1>3. ASSUME NEW c \in late, ArriveLate(c) PROVE [Feed!Next]_(Feed!feed)
  <2>1. CASE Acceptable(c)
    <3>1. c.first \in 1..(taken + 1) /\ c.last \in c.first..Len(outbox)
      BY DEF BridgeInv, Calls
    <3> QED
      BY <1>3, <2>1, <3>1, TakeInRefines DEF ArriveLate
  <2>2. CASE ~ Acceptable(c)
    BY <1>3, <2>2 DEF ArriveLate, Refuse, Feed!feed
  <2> QED
    BY <2>1, <2>2
<1>4. ASSUME NEW id \in hits, Ingest(id) PROVE [Feed!Next]_(Feed!feed)
  <2>1. id \in EventId
    BY DEF BridgeInv, BridgeTypeOK
  <2>2. CASE id \in tombs
    BY <1>4, <2>2 DEF Ingest, Feed!feed
  <2>3. CASE id \notin tombs
    BY <1>4, <2>1, <2>3 DEF Ingest, Feed!Look, Feed!Next
  <2> QED
    BY <2>2, <2>3
<1>5. ASSUME NEW id \in Deletable, DeleteEvidence(id) PROVE [Feed!Next]_(Feed!feed)
  <2>1. id \in EventId
    BY BridgeAssumption
  <2> QED
    BY <1>5, <2>1 DEF DeleteEvidence, Feed!Delete, Feed!Next
<1>6. ASSUME UNCHANGED <<outbox, taken, evidence, tombs, banned>> PROVE [Feed!Next]_(Feed!feed)
  BY <1>6 DEF Feed!feed
<1> QED
  BY <1>1, <1>2, <1>3, <1>4, <1>5, <1>6, Writers
     DEF bridgeVars, Deliver, Answered, GiveUp, AwaitPhoto, Search, Fetch

\* The bridge implements the feed: the agent takes in every row once and in order, whatever
\* happens to the calls and whoever the photos it asks for show (agent-bridge.ts).
THEOREM BridgeImplementsFeed == BridgeSpec => FeedIsExactlyOnce
<1>1. BridgeInit => Feed!Init
  BY DEF BridgeInit, Feed!Init
<1>2. BridgeInv /\ [BridgeNext]_bridgeVars => [Feed!Next]_(Feed!feed)
  BY StepRefines
<1> QED
  BY InvAlways, <1>1, <1>2, PTL DEF BridgeSpec, FeedIsExactlyOnce, Feed!Spec

=============================================================================
