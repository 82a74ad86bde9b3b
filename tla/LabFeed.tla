------------------------------- MODULE LabFeed -------------------------------
(***************************************************************************)
(* What a tab of the perception lab shows of its session.  The session     *)
(* puts its changes in a queue of bounded length; one socket at a time     *)
(* reads it.  What a tab missed while it had no socket is made up for by   *)
(* the snapshot that answers its hello.                                    *)
(***************************************************************************)
EXTENDS Integers, Sequences

CONSTANTS
    FeedPerson, LabNote, LabMoment,  \* records
    NoteAbout,    \* note -> person
    NoteVersions, \* bound: versions of a note
    QueueLimit,   \* messages the queue holds
    MaxChanges,   \* bound: changes of the session
    MaxLinks      \* bound: sockets

ASSUME LabFeedAssumption ==
    /\ NoteAbout \in [LabNote -> FeedPerson]
    /\ {NoteVersions, MaxChanges, MaxLinks} \subseteq Nat /\ QueueLimit \in Nat \ {0}

VARIABLES
    feedSession,    \* the records of the session
    usedIds,    \* ids of records that were made: an id is not used again
    labQueue,   \* what the tab has not been sent, or has not read
    overflowed, \* the queue was full
    attached,   \* the session has a socket
    tabLink,    \* the tab's side of it: none, open, greeted (hello was sent)
    helloAcked,
    tabShows,   \* the records of the tab, and what it knows to be deleted
    labChanges,
    labLinks

feedVars == <<feedSession, usedIds, labQueue, overflowed, attached, tabLink, helloAcked, tabShows, labChanges, labLinks>>

MomentStatus == {"none", "recording", "saved", "failed"}
\* A record that is not there has version 0, or status none; a deleted person, note or moment does not come back.
Records == [people : SUBSET FeedPerson, notes : [LabNote -> 0..NoteVersions], films : [LabMoment -> MomentStatus]]
NoRecords == [people |-> {}, notes |-> [n \in LabNote |-> 0], films |-> [m \in LabMoment |-> "none"]]
\* emptyState(): nothing is known to be deleted.
FeedShown(records) == [rec |-> records, gonePeople |-> {}, goneFilms |-> {}]

FeedInit ==
    /\ feedSession = NoRecords /\ usedIds = {} /\ labQueue = <<>> /\ overflowed = FALSE /\ attached = FALSE
    /\ tabLink = "none" /\ helloAcked = FALSE /\ tabShows = FeedShown(NoRecords) /\ labChanges = 0 /\ labLinks = 0

-----------------------------------------------------------------------------
Full == TRUE

(* enqueue() *)
EnqueueUpdate(messages) ==
    IF Len(labQueue) < QueueLimit
    THEN labQueue' = labQueue \o messages /\ UNCHANGED overflowed
    ELSE overflowed' = Full /\ UNCHANGED labQueue

\* With a person, the notes about them go.
NotesWithout(rec, p) == [n \in LabNote |-> IF NoteAbout[n] = p THEN 0 ELSE rec.notes[n]]

(* What an envelope makes of the records: reduce(), and what the session did itself. *)
After(rec, e) ==
    CASE e.type = "person"  -> [rec EXCEPT !.people = @ \cup {e.id}]
      [] e.type = "forget"  -> [rec EXCEPT !.people = @ \ {e.id}, !.notes = NotesWithout(rec, e.id)]
      [] e.type = "note"    -> [rec EXCEPT !.notes[e.id] = e.value]
      [] e.type = "unnote"  -> [rec EXCEPT !.notes[e.id] = 0]
      [] e.type = "film"    -> [rec EXCEPT !.films[e.id] = e.value]
      [] e.type = "discard" -> [rec EXCEPT !.films[e.id] = "none"]

(* The changes a session makes: people, notes about those it knows, clips. *)
MayWrite(n) ==
    /\ NoteAbout[n] \in feedSession.people /\ feedSession.notes[n] < NoteVersions
    /\ feedSession.notes[n] = 0 => n \notin usedIds
Envelope(type, id, value) == [type |-> type, id |-> id, value |-> value]
Possible ==
    {Envelope("person", p, 0) : p \in FeedPerson \ usedIds} \cup {Envelope("forget", p, 0) : p \in feedSession.people}
    \cup {Envelope("note", n, feedSession.notes[n] + 1) : n \in {n \in LabNote : MayWrite(n)}}
    \cup {Envelope("unnote", n, 0) : n \in {n \in LabNote : feedSession.notes[n] # 0}}
    \cup {Envelope("film", m, "recording") : m \in LabMoment \ usedIds}
    \cup {Envelope("film", m, s) : m \in {m \in LabMoment : feedSession.films[m] = "recording"}, s \in {"saved", "failed"}}
    \cup {Envelope("discard", m, 0) : m \in {m \in LabMoment : feedSession.films[m] \in {"saved", "failed"}}}

Change(e) ==
    /\ labChanges < MaxChanges /\ labChanges' = labChanges + 1
    /\ feedSession' = After(feedSession, e) /\ usedIds' = usedIds \cup {e.id}
    /\ EnqueueUpdate(<<e>>)
    /\ UNCHANGED <<attached, tabLink, helloAcked, tabShows, labLinks>>

-----------------------------------------------------------------------------
(* The socket is accepted unless the session still has one: what is queued is stale. *)
Attach ==
    /\ tabLink = "none" /\ ~attached /\ labLinks < MaxLinks /\ labLinks' = labLinks + 1
    /\ attached' = TRUE /\ tabLink' = "open" /\ helloAcked' = FALSE
    /\ labQueue' = <<>> /\ overflowed' = FALSE
    /\ UNCHANGED <<feedSession, usedIds, tabShows, labChanges>>

Greeting == <<[type |-> "ack", snapshot |-> feedSession]>>

Hello ==
    /\ tabLink = "open" /\ attached /\ tabLink' = "greeted"
    /\ EnqueueUpdate(Greeting)
    /\ UNCHANGED <<feedSession, usedIds, attached, helloAcked, tabShows, labChanges, labLinks>>

(* A page that is loaded fetches the session before it has a socket. *)
LoadPage ==
    /\ tabLink = "none" /\ tabShows' = FeedShown(feedSession)
    /\ UNCHANGED <<feedSession, usedIds, labQueue, overflowed, attached, tabLink, helloAcked, labChanges, labLinks>>

(* The link is lost, the page is reloaded, or the session ends it: the tab keeps what it shows. *)
LinkEnds ==
    /\ tabLink # "none" /\ tabLink' = "none" /\ helloAcked' = FALSE
    /\ UNCHANGED <<feedSession, usedIds, labQueue, overflowed, attached, tabShows, labChanges, labLinks>>

(* The session has seen it, and cleaned up. *)
Detach ==
    /\ attached /\ tabLink = "none" /\ attached' = FALSE
    /\ UNCHANGED <<feedSession, usedIds, labQueue, overflowed, tabLink, helloAcked, tabShows, labChanges, labLinks>>

-----------------------------------------------------------------------------
(* staleCheck() *)
Stale(e) ==
    \/ e.type = "person" /\ e.id \in tabShows.gonePeople
    \/ e.type = "note" /\ (NoteAbout[e.id] \in tabShows.gonePeople \/ tabShows.rec.notes[e.id] > e.value)
    \/ e.type = "film" /\ (e.id \in tabShows.goneFilms
                           \/ tabShows.rec.films[e.id] \notin {"none", "recording", e.value})

(* send(), which ends the connection of a tab that fell behind, and the tab that reads. *)
TabReads ==
    /\ attached /\ tabLink # "none" /\ labQueue # <<>>
    /\ IF overflowed
       THEN tabLink' = "none" /\ helloAcked' = FALSE /\ UNCHANGED <<labQueue, tabShows>>
       ELSE LET e == Head(labQueue)
            IN  /\ labQueue' = Tail(labQueue) /\ UNCHANGED tabLink
                /\ helloAcked' = (helloAcked \/ e.type \in {"ack", "greeted"})
                /\ tabShows' = IF e.type = "ack" THEN FeedShown(e.snapshot)
                               ELSE IF e.type = "greeted" \/ Stale(e) THEN tabShows
                               ELSE [rec |-> After(tabShows.rec, e),
                                     gonePeople |-> tabShows.gonePeople \cup (IF e.type = "forget" THEN {e.id} ELSE {}),
                                     goneFilms |-> tabShows.goneFilms \cup (IF e.type = "discard" THEN {e.id} ELSE {})]
    /\ UNCHANGED <<feedSession, usedIds, overflowed, attached, labChanges, labLinks>>

FeedNext ==
    \/ \E e \in Possible : Change(e)
    \/ Attach \/ Hello \/ LoadPage \/ LinkEnds \/ Detach \/ TabReads

FeedSpec == FeedInit /\ [][FeedNext]_feedVars

-----------------------------------------------------------------------------
FeedTypeOK ==
    /\ feedSession \in Records /\ tabShows.rec \in Records
    /\ Len(labQueue) <= QueueLimit /\ tabLink \in {"none", "open", "greeted"}
    /\ {overflowed, attached, helloAcked} \subseteq BOOLEAN

(* A tab that is connected and has read its queue shows what the session has, whatever it missed, *)
(* however often it fell behind, and whichever order its snapshots and changes arrived in.         *)
TheTabIsTheSession == helloAcked /\ labQueue = <<>> /\ ~overflowed => tabShows.rec = feedSession
=============================================================================
