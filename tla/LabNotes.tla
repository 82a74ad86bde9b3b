------------------------------- MODULE LabNotes -------------------------------
(***************************************************************************)
(* Personal notes of the perception lab.  Every tab has a product session  *)
(* of its own with a copy of the notes about the people it knows; the note *)
(* memory and the face gallery are on disk and outlive the sessions.  A    *)
(* change is written first, and then told to the other sessions.           *)
(***************************************************************************)
EXTENDS Integers, FiniteSets

CONSTANTS
    NoteTab,      \* browser tabs
    NotePerson,   \* people that are or will be enrolled
    Saying,       \* what is said or typed
    Overheard,    \* what of it is said in conversation
    MaxNotes,     \* bound: notes that are made
    NoteTroubles  \* bound: failures of the disk, ends of the process

ASSUME LabNotesAssumption == Overheard \subseteq Saying /\ "typed" \notin Saying /\ {MaxNotes, NoteTroubles} \subseteq Nat

VARIABLES
    faceGallery,  \* who is enrolled
    newcomers,    \* who has not been enrolled yet
    noteRows,     \* personal_notes
    digests,      \* conversation_fingerprints
    lab,          \* tab -> its session
    madeNotes,
    noteTroubles,
    wiped,       \* notes whose deletion was confirmed
    halfErased,   \* notes that are deleted although the deletion was reported as failed
    forgotten,    \* people whose deletion was confirmed
    savedTimes    \* person, saying -> times it was saved from conversation

noteVars == <<faceGallery, newcomers, noteRows, digests, lab, madeNotes, noteTroubles, wiped, halfErased,
              forgotten, savedTimes>>

NoteIds == 1..MaxNotes
Typed == "typed"
NoteRow == [id : NoteIds, of : NotePerson, text : Saying, heard : Saying \cup {Typed}]
NoLabSession == [open |-> FALSE, knows |-> {}, late |-> {}, notes |-> {}, shown |-> {}, gone |-> {}, heard |-> {}]

NotesInit ==
    /\ faceGallery \in SUBSET NotePerson /\ newcomers = NotePerson \ faceGallery /\ noteRows = {} /\ digests = {}
    /\ lab = [t \in NoteTab |-> NoLabSession]
    /\ madeNotes = 0 /\ noteTroubles = 0 /\ wiped = {} /\ halfErased = {} /\ forgotten = {}
    /\ savedTimes = [k \in NotePerson \X Saying |-> 0]

OpenTabs == {t \in NoteTab : lab[t].open}
NotesOf(rows, p) == {n \in rows : n.of = p}
Without(rows, i) == {n \in rows : n.id # i}
NoteTrouble == noteTroubles < NoteTroubles /\ noteTroubles' = noteTroubles + 1

-----------------------------------------------------------------------------
(* What a session does with a change; the other sessions that know the person follow. *)

Upsert(s, n) == [s EXCEPT !.notes = Without(@, n.id) \cup {n}, !.shown = Without(@, n.id) \cup {n}]
RemoveNote(s, i) == [s EXCEPT !.notes = Without(@, i), !.gone = @ \cup {i}]

SyncRemove(s, i) == RemoveNote(s, i)

Peers(t, p) == {o \in OpenTabs \ {t} : p \in lab[o].knows}

(* note.upserted and note.deleted in t, and sync_person_note() in the others. *)
TellUpsert(t, n) == lab' = [o \in NoteTab |-> IF o \in {t} \cup Peers(t, n.of) THEN Upsert(lab[o], n) ELSE lab[o]]
TellRemove(t, n) == lab' = [o \in NoteTab |-> IF o = t THEN RemoveNote(lab[o], n.id)
                                              ELSE IF o \in Peers(t, n.of) THEN SyncRemove(lab[o], n.id) ELSE lab[o]]

(* The note memory, a transaction each: a note with the fingerprint of what was heard, *)
(* and all there is about a person.                                                     *)
WriteNote(n) ==
    /\ noteRows' = Without(noteRows, n.id) \cup {n}
    /\ digests' = IF n.heard = Typed THEN digests ELSE digests \cup {<<n.of, n.heard>>}

WipePerson(p) == noteRows' = noteRows \ NotesOf(noteRows, p) /\ digests' = {k \in digests : k[1] # p}

-----------------------------------------------------------------------------
(* create(): a session with the people of the gallery and the notes about them. *)
OpenTab(t) ==
    /\ ~lab[t].open
    /\ LET notes == {n \in noteRows : n.of \in faceGallery}
       IN  lab' = [lab EXCEPT ![t] = [NoLabSession EXCEPT !.open = TRUE, !.knows = faceGallery, !.notes = notes, !.shown = notes]]
    /\ UNCHANGED <<faceGallery, newcomers, noteRows, digests, madeNotes, noteTroubles, wiped, halfErased, forgotten, savedTimes>>

(* The process ends, or a session that is idle or deleted: the memory stays. *)
SessionsEnd ==
    /\ NoteTrouble
    /\ \E over \in SUBSET OpenTabs : over # {} /\ lab' = [t \in NoteTab |-> IF t \in over THEN NoLabSession ELSE lab[t]]
    /\ UNCHANGED <<faceGallery, newcomers, noteRows, digests, madeNotes, wiped, halfErased, forgotten, savedTimes>>

(* An enrollment is complete: the gallery, and the session that asked for it. *)
EnrollPerson(t, p) ==
    /\ lab[t].open /\ p \in newcomers /\ newcomers' = newcomers \ {p}
    /\ faceGallery' = faceGallery \cup {p} /\ lab' = [lab EXCEPT ![t].knows = @ \cup {p}]
    /\ UNCHANGED <<noteRows, digests, madeNotes, noteTroubles, wiped, halfErased, forgotten, savedTimes>>

(* rename_person() reaches every session: some of them hear of the person for the first time. *)
RenamePerson(p) ==
    /\ p \in faceGallery
    /\ lab' = [t \in NoteTab |-> IF t \notin OpenTabs \/ p \in lab[t].knows THEN lab[t]
                                 ELSE [lab[t] EXCEPT !.knows = @ \cup {p}, !.late = @ \cup {p}]]
    /\ UNCHANGED <<faceGallery, newcomers, noteRows, digests, madeNotes, noteTroubles, wiped, halfErased, forgotten, savedTimes>>

(* note.save: a new note, or one that a page still shows. *)
SaveNote(t, n) ==
    /\ lab[t].open /\ n.of \in lab[t].knows /\ n.id \notin lab[t].gone
    /\ WriteNote(n) /\ TellUpsert(t, n) /\ halfErased' = halfErased \ {n.id}

NewNote(t, p, text) ==
    /\ madeNotes < MaxNotes /\ madeNotes' = madeNotes + 1
    /\ SaveNote(t, [id |-> madeNotes + 1, of |-> p, text |-> text, heard |-> Typed])
    /\ UNCHANGED <<faceGallery, newcomers, noteTroubles, wiped, forgotten, savedTimes>>

(* What was heard in conversation keeps where it is from. *)
EditNote(t, n, text) ==
    /\ n \in lab[t].shown /\ n.text # text
    /\ SaveNote(t, [n EXCEPT !.text = text])
    /\ UNCHANGED <<faceGallery, newcomers, madeNotes, noteTroubles, wiped, forgotten, savedTimes>>

(* note.delete: truncating the log may fail after the row is gone, which is reported as a failure. *)
DeleteNote(t, n) ==
    /\ n \in lab[t].notes
    /\ noteRows' = Without(noteRows, n.id)
    /\ \/ /\ TellRemove(t, n) /\ UNCHANGED noteTroubles
          /\ wiped' = wiped \cup {n.id} /\ halfErased' = halfErased \ {n.id}
       \/ /\ NoteTrouble /\ halfErased' = halfErased \cup {n.id} /\ UNCHANGED <<lab, wiped>>
    /\ UNCHANGED <<faceGallery, newcomers, digests, madeNotes, forgotten, savedTimes>>

(* _remember_conversation(): said while exactly this person is in view. *)
SavedAs(n) == IF n.heard = Typed THEN n.text ELSE n.heard
Remembered(t, p, s) == \/ \E n \in NotesOf(lab[t].notes, p) : SavedAs(n) = s
                       \/ <<p, s>> \in lab[t].heard \cup digests

RememberConversation(t, p, s) ==
    /\ p \in lab[t].knows /\ ~Remembered(t, p, s) /\ madeNotes < MaxNotes
    /\ madeNotes' = madeNotes + 1
    /\ LET n == [id |-> madeNotes + 1, of |-> p, text |-> s, heard |-> s]
       IN  /\ WriteNote(n)
           /\ lab' = [o \in NoteTab |->
                        IF o = t THEN [Upsert(lab[o], n) EXCEPT !.heard = @ \cup {<<p, s>>}]
                        ELSE IF o \in Peers(t, p) THEN Upsert(lab[o], n) ELSE lab[o]]
    /\ savedTimes' = [savedTimes EXCEPT ![<<p, s>>] = @ + 1]
    /\ UNCHANGED <<faceGallery, newcomers, noteTroubles, wiped, halfErased, forgotten>>

(* delete_person(): the gallery, the memory, and every session.  The first error ends it; *)
(* asked again, it goes on with what is left.                                              *)
ForgetPerson(t, p) ==
    /\ p \in lab[t].knows
    /\ faceGallery' = faceGallery \ {p}
    /\ \/ /\ WipePerson(p) /\ forgotten' = forgotten \cup {p}
          /\ lab' = [o \in NoteTab |-> [lab[o] EXCEPT !.knows = @ \ {p}, !.late = @ \ {p}, !.notes = @ \ NotesOf(@, p),
                                                      !.heard = {k \in @ : k[1] # p}]]
          /\ UNCHANGED <<noteTroubles, halfErased, savedTimes>>
       \/ NoteTrouble /\ UNCHANGED <<noteRows, digests, lab, halfErased, savedTimes, forgotten>>
       \/ /\ NoteTrouble /\ WipePerson(p) /\ UNCHANGED <<lab, forgotten>>
          /\ halfErased' = halfErased \cup {n.id : n \in NotesOf(noteRows, p)}
          /\ savedTimes' = [k \in DOMAIN savedTimes |-> IF k[1] = p THEN 0 ELSE savedTimes[k]]
    /\ UNCHANGED <<newcomers, madeNotes, wiped>>

NotesNext ==
    \/ SessionsEnd \/ \E p \in NotePerson : RenamePerson(p)
    \/ \E t \in NoteTab :
          \/ OpenTab(t)
          \/ \E p \in NotePerson : EnrollPerson(t, p) \/ ForgetPerson(t, p)
          \/ \E p \in NotePerson, s \in Saying : NewNote(t, p, s) \/ (s \in Overheard /\ RememberConversation(t, p, s))
          \/ \E n \in lab[t].shown : DeleteNote(t, n) \/ \E s \in Saying : EditNote(t, n, s)

NotesSpec == NotesInit /\ [][NotesNext]_noteVars

-----------------------------------------------------------------------------
NotesTypeOK ==
    /\ faceGallery \subseteq NotePerson /\ newcomers \subseteq NotePerson /\ forgotten \subseteq NotePerson /\ noteRows \subseteq NoteRow
    /\ digests \subseteq NotePerson \X Saying /\ wiped \subseteq NoteIds /\ halfErased \subseteq NoteIds
    /\ \A t \in NoteTab : lab[t].notes \subseteq NoteRow /\ lab[t].knows \subseteq NotePerson

(* All open sessions have the notes that are on disk about the people they know - but for a note *)
(* whose deletion was reported as failed after it was done, and for what was written about a     *)
(* person before the session first heard of them from a change of name.                          *)
TabsAgree == \A t \in OpenTabs : \A p \in lab[t].knows :
    /\ {n \in NotesOf(lab[t].notes, p) : n.id \notin halfErased} \subseteq noteRows
    /\ p \notin lab[t].late => NotesOf(noteRows, p) \subseteq lab[t].notes

(* A note whose deletion was confirmed does not come back, whatever another tab still shows; and *)
(* of a person whose deletion was confirmed, nothing is left on disk or in any session.           *)
DeletedStaysDeleted ==
    /\ {n.id : n \in noteRows} \cap wiped = {}
    /\ \A p \in forgotten : /\ p \notin faceGallery /\ NotesOf(noteRows, p) = {} /\ \A k \in digests : k[1] # p
                            /\ \A t \in OpenTabs : p \notin lab[t].knows /\ NotesOf(lab[t].notes, p) = {}

(* What was said is remembered about a person once: in one tab, though other tabs hear it as *)
(* well, though the note is edited or deleted, and though the process is started again.       *)
RememberedOnce == \A k \in DOMAIN savedTimes : savedTimes[k] <= 1
=============================================================================
