------------------------------- MODULE Archive -------------------------------
(***************************************************************************)
(* The transcript archive of the agent (transcripts.ts): the journal is    *)
(* the evidence table, an hour's file is written from it while more speech  *)
(* arrives, is corrected or is deleted.  And the search of the journal      *)
(* (history.ts), one batch of rows at a time, in the same interleavings.    *)
(***************************************************************************)
EXTENDS Integers, Sequences

CONSTANTS
    Utterance,    \* transcript events
    MaxRevision,  \* bound: revisions of an event
    MaxJournal,      \* bound: rows of the journal
    MaxHour,      \* bound: hours
    MaxCrashes,   \* bound: crashes and failed writes
    MaxSearches   \* bound: searches

ASSUME ArchiveAssumption == {MaxRevision, MaxJournal, MaxHour, MaxCrashes, MaxSearches} \subseteq Nat

VARIABLES
    journal,      \* rows in the order they were received, with their hour
    erased,       \* events that were deleted (their rows have an empty payload)
    hour,         \* the current hour
    version, exported,   \* transcript_exports: hour -> version; 0: there is no row
    file,         \* hour -> the rows its file has
    flushing,     \* the flush under way: "no", "closed hours" or "all hours"
    writing,      \* drain(): the hour being written, or NoWriting
    up,           \* the process is there
    crashes,
    search,       \* the search under way, or NoSearch
    answer        \* the last answer, and what it had to be

archiveVars == <<journal, erased, hour, version, exported, file, flushing, writing, up, crashes, search, answer>>

Hours == 0..MaxHour
NoWriting == [hour |-> 0, version |-> 0, rows |-> {}, stored |-> TRUE]
NoSearch == [cursor |-> 0, ceiling |-> 0, found |-> {}, began |-> {}, n |-> 0]

ArchiveInit ==
    /\ journal = << >> /\ erased = {} /\ hour = 0
    /\ version = [h \in Hours |-> 0] /\ exported = [h \in Hours |-> 0] /\ file = [h \in Hours |-> {}]
    /\ flushing = "no" /\ writing = NoWriting /\ up = TRUE /\ crashes = 0
    /\ search = NoSearch /\ answer = [rows |-> {}, expected |-> {}]

Written(i) == journal[i].of \notin erased
RowsOf(h) == {i \in DOMAIN journal : journal[i].hour = h /\ Written(i)}

(* The latest revision of an event that was not deleted. *)
Latest(i) ==
    /\ Written(i)
    /\ \A j \in DOMAIN journal : journal[j].of = journal[i].of => journal[j].revision <= journal[i].revision

-----------------------------------------------------------------------------
(* The journal. *)

Dirty(hs) == version' = [h \in Hours |-> IF h \in hs THEN version[h] + 1 ELSE version[h]]

(* ingest(): revisions in any order, each of them once. *)
Receive(u, r) ==
    /\ up /\ u \notin erased /\ Len(journal) < MaxJournal
    /\ \A i \in DOMAIN journal : journal[i].of # u \/ journal[i].revision # r
    /\ journal' = Append(journal, [of |-> u, revision |-> r, hour |-> hour])
    /\ Dirty({hour})
    /\ UNCHANGED <<erased, hour, exported, file, flushing, writing, up, crashes, search, answer>>

HoursOf(u) == {journal[i].hour : i \in {j \in DOMAIN journal : journal[j].of = u}}

Erase(u) ==
    /\ up /\ u \notin erased /\ HoursOf(u) # {}
    /\ Dirty(HoursOf(u)) /\ erased' = erased \cup {u}
    /\ UNCHANGED <<journal, hour, exported, file, flushing, writing, up, crashes, search, answer>>

HourPasses ==
    /\ hour < MaxHour /\ hour' = hour + 1
    /\ UNCHANGED <<journal, erased, version, exported, file, flushing, writing, up, crashes, search, answer>>

-----------------------------------------------------------------------------
(* flush() and drain(). *)

(* The pump flushes the hours that are over, stop() all of them. *)
Flush(all) ==
    /\ up /\ flushing = "no"
    /\ flushing' = IF all THEN "all hours" ELSE "closed hours"
    /\ UNCHANGED <<journal, erased, hour, version, exported, file, writing, up, crashes, search, answer>>

Behind == {h \in Hours : version[h] > exported[h] /\ (flushing = "all hours" \/ h < hour)}

(* The oldest bucket: its version and its rows are read together. *)
Read ==
    /\ flushing # "no" /\ writing = NoWriting /\ Behind # {}
    /\ \E h \in Behind :
         /\ \A g \in Behind : h <= g
         /\ writing' = [hour |-> h, version |-> version[h], rows |-> RowsOf(h), stored |-> FALSE]
    /\ UNCHANGED <<journal, erased, hour, version, exported, file, flushing, up, crashes, search, answer>>

Store ==
    /\ ~writing.stored
    /\ file' = [file EXCEPT ![writing.hour] = writing.rows]
    /\ writing' = [writing EXCEPT !.stored = TRUE]
    /\ UNCHANGED <<journal, erased, hour, version, exported, flushing, up, crashes, search, answer>>

\* Mutant: the bucket is marked with the version it has by now.
Marked_Now == version[writing.hour]

Marked == writing.version

Mark ==
    /\ writing # NoWriting /\ writing.stored
    /\ exported' = [exported EXCEPT ![writing.hour] = Marked]
    /\ writing' = NoWriting
    /\ UNCHANGED <<journal, erased, hour, version, file, flushing, up, crashes, search, answer>>

Drained ==
    /\ flushing # "no" /\ writing = NoWriting /\ Behind = {}
    /\ flushing' = "no"
    /\ UNCHANGED <<journal, erased, hour, version, exported, file, writing, up, crashes, search, answer>>

(* The write fails before or after the file was replaced: the flush ends with it. *)
WriteFails ==
    /\ writing # NoWriting /\ crashes < MaxCrashes
    /\ crashes' = crashes + 1 /\ writing' = NoWriting /\ flushing' = "no"
    /\ UNCHANGED <<journal, erased, hour, version, exported, file, up, search, answer>>

ProcessDies ==
    /\ up /\ crashes < MaxCrashes
    /\ crashes' = crashes + 1 /\ up' = FALSE
    /\ writing' = NoWriting /\ flushing' = "no" /\ search' = [NoSearch EXCEPT !.n = search.n]
    /\ UNCHANGED <<journal, erased, hour, version, exported, file, answer>>

ComesBack ==
    /\ ~up /\ up' = TRUE
    /\ UNCHANGED <<journal, erased, hour, version, exported, file, flushing, writing, crashes, search, answer>>

-----------------------------------------------------------------------------
(* grepHistory(). *)

Searching == search.ceiling # 0

SearchStarts ==
    /\ up /\ ~Searching /\ journal # << >> /\ search.n < MaxSearches
    /\ search' = [cursor |-> 0, ceiling |-> Len(journal), found |-> {}, n |-> search.n + 1,
                  began |-> {i \in DOMAIN journal : Latest(i)}]
    /\ UNCHANGED <<journal, erased, hour, version, exported, file, flushing, writing, up, crashes, answer>>

Unread == {i \in (search.cursor + 1)..search.ceiling : Latest(i)}

(* A batch, of one row. *)
SearchReads ==
    /\ Searching
    /\ \E i \in Unread :
         /\ \A j \in Unread : i <= j
         /\ search' = [search EXCEPT !.cursor = i, !.found = @ \cup {i}]
    /\ UNCHANGED <<journal, erased, hour, version, exported, file, flushing, writing, up, crashes, answer>>

(* store.valid(): every row that was found is still the latest of its event. *)
Valid == \A i \in search.found : Latest(i)

(* The matches, or a conflict. *)
SearchEnds ==
    /\ Searching /\ Unread = {}
    /\ answer' = IF Valid THEN [rows |-> search.found, expected |-> {i \in search.began : Latest(i)}]
                 ELSE answer
    /\ search' = [NoSearch EXCEPT !.n = search.n]
    /\ UNCHANGED <<journal, erased, hour, version, exported, file, flushing, writing, up, crashes>>

ArchiveNext ==
    \/ \E u \in Utterance, r \in 1..MaxRevision : Receive(u, r)
    \/ \E u \in Utterance : Erase(u)
    \/ HourPasses \/ (\E all \in BOOLEAN : Flush(all))
    \/ Read \/ Store \/ Mark \/ Drained \/ WriteFails
    \/ ProcessDies \/ ComesBack
    \/ SearchStarts \/ SearchReads \/ SearchEnds

(* The pump flushes every minute, a write ends, the service is started again. *)
Archives == Flush(FALSE) \/ Read \/ Store \/ Mark \/ Drained \/ ComesBack

ArchiveSpec == ArchiveInit /\ [][ArchiveNext]_archiveVars /\ WF_archiveVars(Archives) /\ WF_archiveVars(HourPasses)

-----------------------------------------------------------------------------
ArchiveTypeOK ==
    /\ \A i \in DOMAIN journal : journal[i].of \in Utterance /\ journal[i].hour \in Hours
    /\ erased \subseteq Utterance /\ hour \in Hours /\ up \in BOOLEAN
    /\ \A h \in Hours : exported[h] <= version[h] /\ file[h] \subseteq DOMAIN journal
    /\ flushing \in {"no", "closed hours", "all hours"} /\ crashes \in 0..MaxCrashes

(* An hour that counts as exported has in its file the rows the journal has for it *)
(* and nothing that was deleted, whatever arrived, was deleted or failed while the  *)
(* file was being written.                                                          *)
ExportedIsTheJournal ==
    \A h \in Hours : exported[h] = version[h] => file[h] = RowsOf(h)

(* A search that reports no conflict found what was current when it began and  *)
(* still is, and nothing that was corrected or deleted while it went on.       *)
SearchTellsTheTruth == answer.rows = answer.expected
=============================================================================
