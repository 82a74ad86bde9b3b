------------------------------ MODULE SceneFeed ------------------------------
(***************************************************************************)
(* What the bridge from the scene memory to the agent promises: the agent  *)
(* takes in the rows the memory has written, each of them once and in the  *)
(* order in which they were written, whatever happens to the calls that    *)
(* carry them.  AgentBridge implements this specification over calls that  *)
(* are lost, answered too late, handled late and repeated.                 *)
(***************************************************************************)
EXTENDS Integers, Sequences

CONSTANTS
    EventId,   \* the events that rows, searches and photos bring
    Revisions, \* the revisions an event may have
    Person,    \* the people the gallery knows
    Names      \* the people an event names: [EventId -> SUBSET Person]

VARIABLES
    told,       \* the rows the memory has written
    taken,      \* how many of them the agent has taken in
    evidence,   \* the revisions of events the agent holds
    tombs,      \* the ids the agent has deleted for good
    banned      \* the people it was told to forget

feed == <<told, taken, evidence, tombs, banned>>

(* A row: an event with a revision, a note that is no longer held, or a person to forget. *)
Row == [kind: {"event"}, of: EventId, rev: Revisions]
         \cup [kind: {"invalidate"}, of: EventId, rev: {0}]
         \cup [kind: {"forget"}, of: Person, rev: {0}]

Init == told = <<>> /\ taken = 0 /\ evidence = {} /\ tombs = {} /\ banned = {}

Tell == /\ \E row \in Row : told' = Append(told, row)
        /\ UNCHANGED <<taken, evidence, tombs, banned>>

(* The next rows are taken in together: deletions first, then the events that name *)
(* nobody forgotten. What another way has brought of somebody forgotten may go with *)
(* them, when they are forgotten again.                                             *)
TakeIn == \E n \in taken..Len(told), again \in SUBSET {e.id : e \in {f \in evidence : Names[f.id] \cap banned # {}}} :
    LET next      == {told[i] : i \in (taken + 1)..n}
        forgotten == {row.of : row \in {r \in next : r.kind = "forget"}}
        gone      == {row.of : row \in {r \in next : r.kind = "invalidate"}}
                       \cup {e.id : e \in {f \in evidence : Names[f.id] \cap forgotten # {}}} \cup again
        new       == {[id |-> row.of, rev |-> row.rev] :
                        row \in {r \in next : r.kind = "event" /\ Names[r.of] \cap (banned \cup forgotten) = {}}}
    IN /\ taken' = n
       /\ banned' = banned \cup forgotten
       /\ tombs' = tombs \cup gone
       /\ evidence' = {e \in evidence : e.id \notin gone} \cup new
       /\ \A e \in new : e.id \notin tombs'
       /\ UNCHANGED told

(* The user deletes an event. *)
Delete == \E id \in EventId :
    /\ tombs' = tombs \cup {id}
    /\ evidence' = {e \in evidence : e.id # id}
    /\ UNCHANGED <<told, taken, banned>>

(* A search or a photo brings an event by another way, whoever it names; what is *)
(* deleted does not come back.                                                   *)
Look == \E id \in EventId \ tombs :
    /\ evidence' = evidence \cup {[id |-> id, rev |-> 0]}
    /\ UNCHANGED <<told, taken, tombs, banned>>

Next == Tell \/ TakeIn \/ Delete \/ Look

Spec == Init /\ [][Next]_feed
=============================================================================
