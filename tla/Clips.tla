-------------------------------- MODULE Clips --------------------------------
(***************************************************************************)
(* Temporary clips of one perception-lab session: the moments of           *)
(* ProductSession (product.py), the records, encoders, retention and       *)
(* deletion of SessionClipBuffer (clips.py), and the session that stops,   *)
(* resumes and closes them (product_routes.py).  Footage is abstracted to  *)
(* whether there is a file; the byte limits to the limit on their number.  *)
(***************************************************************************)
EXTENDS Integers, FiniteSets

CONSTANTS
    Moment,
    MaxTails,    \* clips.max_pending
    MaxKept      \* clips.max_completed

ASSUME ClipsAssumption == IsFiniteSet(Moment) /\ MaxTails \in Nat \ {0} /\ MaxKept \in Nat \ {0}

VARIABLES
    moment,      \* ProductSession.moments
    records,     \* _records
    place,       \* where in the order of insertion each record is, or was
    clip,        \* the status of each record, kept by its worker when it is forgotten
    worker,      \* the task that records and encodes it
    cancelled,   \* workers whose task is cancelled
    footage,     \* files
    prune,       \* _prune_once: where it is, the records it has left, and the one whose file it unlinks
    dirty,       \* _prune_dirty
    deleting,    \* moments whose deletion waits
    clips        \* "accepting", "stopping", "stopped", "closing", "closed"

clipVars == <<moment, records, place, clip, worker, cancelled, footage, prune, dirty, deleting, clips>>

Idle == [at |-> "idle", left |-> {}, unlinking |-> {}]
Unfinished == {"recording", "encoding"}
AtWork(m) == worker[m] \notin {"none", "done"}
Tails == {m \in records : clip[m] \in Unfinished}

ClipsInit ==
    /\ moment = [m \in Moment |-> "none"]
    /\ records = {} /\ place = [m \in Moment |-> 0] /\ clip = [m \in Moment |-> "none"]
    /\ worker = [m \in Moment |-> "none"] /\ cancelled = {}
    /\ footage = {} /\ prune = Idle /\ dirty = FALSE /\ deleting = {} /\ clips = "accepting"

-----------------------------------------------------------------------------
(* _set() for the records ms, with the consumer it notifies (_clip_update, clip_failed) *)
(* and the retention it asks for.                                                       *)

FailedStates == {"failed", "cancelled", "expired"}

Told(ms, s) ==
    [m \in Moment |->
        IF m \in ms /\ s \in FailedStates /\ moment[m] \in {"recording", "saved"} THEN "failed"
        ELSE IF m \in ms /\ s = "saved" /\ moment[m] = "recording" THEN "saved"
        ELSE moment[m]]

SetTo(ms, s) ==
    /\ clip' = [m \in Moment |-> IF m \in ms THEN s ELSE clip[m]]
    /\ moment' = Told(ms, s)
    /\ dirty' = (dirty \/ (ms # {} /\ s \notin Unfinished \cup {"expired"} /\ clips \notin {"closing", "closed"}))

MarkedMoments == {m \in Moment : moment[m] # "none"}

(* _mark() and, in the same step, trigger(). *)
MarkMoment(m) ==
    /\ moment[m] = "none" /\ clips = "accepting"
    /\ Cardinality({n \in Moment : moment[n] = "recording"}) < MaxTails
    /\ IF Cardinality(Tails) < MaxTails /\ Cardinality(records) < MaxTails + MaxKept
         THEN /\ moment' = [moment EXCEPT ![m] = "recording"]
              /\ records' = records \cup {m} /\ place' = [place EXCEPT ![m] = 1 + Cardinality(MarkedMoments)]
              /\ clip' = [clip EXCEPT ![m] = "recording"]
              /\ worker' = [worker EXCEPT ![m] = "waiting"]
         ELSE /\ moment' = [moment EXCEPT ![m] = "failed"]
              /\ UNCHANGED <<records, place, clip, worker>>
    /\ UNCHANGED <<cancelled, footage, prune, dirty, deleting, clips>>

-----------------------------------------------------------------------------
(* The worker of a record. *)

(* add_frame() and add_audio(): too many samples fail the record. *)
SampleLimit(m) ==
    /\ m \in records /\ clip[m] = "recording" /\ clips = "accepting"
    /\ SetTo({m}, "failed")
    /\ cancelled' = cancelled \cup {m}
    /\ UNCHANGED <<records, place, worker, footage, prune, deleting, clips>>

(* The five seconds after the event are over; is there footage without a gap? *)
TailEnds(m) ==
    /\ worker[m] = "waiting" /\ m \notin cancelled
    /\ IF clip[m] # "recording"
         THEN worker' = [worker EXCEPT ![m] = "clearing"] /\ UNCHANGED <<moment, clip, dirty>>
         ELSE \/ SetTo({m}, "encoding") /\ worker' = [worker EXCEPT ![m] = "queued"]
              \/ SetTo({m}, "failed") /\ worker' = [worker EXCEPT ![m] = "clearing"]
    /\ UNCHANGED <<records, place, cancelled, footage, prune, deleting, clips>>

(* One encoder at a time; it writes the file. *)
Encode(m) ==
    /\ worker[m] = "queued" /\ m \notin cancelled
    /\ \A n \in Moment : worker[n] # "encoder"
    /\ worker' = [worker EXCEPT ![m] = "encoder"]
    /\ footage' = footage \cup {m}
    /\ UNCHANGED <<moment, records, place, clip, cancelled, prune, dirty, deleting, clips>>

EncodeEnds(m) ==
    /\ worker[m] = "encoder" /\ m \notin cancelled
    /\ \/ SetTo({m}, "saved") /\ worker' = [worker EXCEPT ![m] = "done"]
       \/ SetTo({m}, "failed") /\ worker' = [worker EXCEPT ![m] = "clearing"]
    /\ UNCHANGED <<records, place, cancelled, footage, prune, deleting, clips>>

Interrupted(m) ==
    /\ m \in cancelled /\ worker[m] \in {"waiting", "queued", "encoder"}
    /\ IF clip[m] \in Unfinished THEN SetTo({m}, "cancelled") ELSE UNCHANGED <<moment, clip, dirty>>
    /\ worker' = [worker EXCEPT ![m] = "clearing"]
    /\ UNCHANGED <<records, place, cancelled, footage, prune, deleting, clips>>

(* The finally block of _record(). *)
Leaves(m) == {m}

Cleared(m) ==
    /\ worker[m] = "clearing"
    /\ footage' = footage \ Leaves(m)
    /\ worker' = [worker EXCEPT ![m] = "done"]
    /\ UNCHANGED <<moment, records, place, clip, cancelled, prune, dirty, deleting, clips>>

-----------------------------------------------------------------------------
(* Retention: _prune() while it is dirty. *)

Completed == {m \in records : clip[m] \notin Unfinished}

(* Failed and cancelled records go before a clip that can be played, older ones before newer. *)
GoesBefore(m, n) == IF (clip[m] = "saved") = (clip[n] = "saved") THEN place[m] <= place[n] ELSE clip[n] = "saved"

PruneStarts ==
    /\ prune.at = "idle" /\ dirty
    /\ prune' = [at |-> "loop", left |-> Completed, unlinking |-> {}] /\ dirty' = FALSE
    /\ UNCHANGED <<moment, records, place, clip, worker, cancelled, footage, deleting, clips>>

ExpireClip(m) == SetTo({m}, "expired")

PruneLoops == prune.at = "loop" /\ prune.unlinking = {}

PruneWithout(m, unlinking) == prune' = [at |-> "loop", left |-> prune.left \ {m}, unlinking |-> unlinking]

PruneOne ==
    /\ PruneLoops /\ Cardinality(prune.left) > MaxKept
    /\ \E m \in prune.left :
          /\ \A n \in prune.left : GoesBefore(m, n)
          /\ IF m \notin records
               THEN PruneWithout(m, {}) /\ UNCHANGED <<moment, records, clip, dirty>>
               ELSE /\ records' = records \ {m}
                    /\ ExpireClip(m)
                    /\ PruneWithout(m, IF clip[m] = "saved" THEN {m} ELSE {})
    /\ UNCHANGED <<place, worker, cancelled, footage, deleting, clips>>

PruneUnlinks ==
    /\ prune.unlinking # {}
    /\ footage' = footage \ prune.unlinking
    /\ prune' = [prune EXCEPT !.unlinking = {}]
    /\ UNCHANGED <<moment, records, place, clip, worker, cancelled, dirty, deleting, clips>>

PruneEnds ==
    /\ PruneLoops /\ Cardinality(prune.left) <= MaxKept
    /\ prune' = Idle
    /\ UNCHANGED <<moment, records, place, clip, worker, cancelled, footage, dirty, deleting, clips>>

-----------------------------------------------------------------------------
(* The command moment.delete: the clip first, and then the moment. *)

Delete(m) ==
    /\ moment[m] \in {"recording", "saved", "failed"} /\ deleting = {} /\ clips \in {"accepting", "stopped"}
    /\ deleting' = {m}
    /\ IF m \in records /\ clip[m] # "saved"
         THEN /\ records' = records \ {m}
              /\ IF AtWork(m)
                   THEN SetTo({m}, "cancelled") /\ cancelled' = cancelled \cup {m}
                   ELSE UNCHANGED <<moment, clip, dirty, cancelled>>
         ELSE UNCHANGED <<moment, records, clip, dirty, cancelled>>
    /\ UNCHANGED <<place, worker, footage, prune, clips>>

(* The saved file is removed, or the worker has gone. *)
DeleteEnds(m) ==
    /\ m \in deleting /\ ~AtWork(m)
    /\ footage' = IF m \in records THEN footage \ {m} ELSE footage
    /\ records' = records \ {m}
    /\ moment' = [moment EXCEPT ![m] = "deleted"]
    /\ deleting' = {}
    /\ UNCHANGED <<place, clip, worker, cancelled, prune, dirty, clips>>

(* The disk refuses: the record is kept for another attempt. *)
DeleteFails(m) ==
    /\ m \in deleting /\ m \in records /\ clip[m] = "saved"
    /\ deleting' = {}
    /\ UNCHANGED <<moment, records, place, clip, worker, cancelled, footage, prune, dirty, clips>>

-----------------------------------------------------------------------------
(* Stop, resume and close. *)

Halt(next) ==
    /\ clips' = next
    /\ SetTo(Tails, "cancelled")
    /\ cancelled' = cancelled \cup {m \in Moment : AtWork(m)}
    /\ UNCHANGED <<records, place, worker, footage, prune, deleting>>

(* The camera is turned off, or the page goes away; a command is never under way. *)
StopClips == clips = "accepting" /\ deleting = {} /\ Halt("stopping")

(* stop() waits for its workers and for the retention. *)
Quiet == (\A m \in Moment : ~AtWork(m)) /\ prune.at = "idle" /\ ~dirty

Stopped ==
    /\ clips = "stopping" /\ Quiet
    /\ clips' = "stopped"
    /\ UNCHANGED <<moment, records, place, clip, worker, cancelled, footage, prune, dirty, deleting>>

Resume ==
    /\ clips = "stopped" /\ deleting = {}
    /\ clips' = "accepting"
    /\ UNCHANGED <<moment, records, place, clip, worker, cancelled, footage, prune, dirty, deleting>>

(* DELETE of the session, its expiry, or shutdown. *)
Close == clips \in {"accepting", "stopped"} /\ Halt("closing")

Closed ==
    /\ clips = "closing" /\ Quiet
    /\ clips' = "closed" /\ footage' = {} /\ records' = {}
    /\ UNCHANGED <<place, moment, clip, worker, cancelled, prune, dirty, deleting>>

Work(m) == TailEnds(m) \/ Encode(m) \/ EncodeEnds(m) \/ Interrupted(m) \/ Cleared(m)
Retention == PruneStarts \/ PruneOne \/ PruneUnlinks \/ PruneEnds

ClipsNext ==
    \/ \E m \in Moment : MarkMoment(m) \/ SampleLimit(m) \/ Work(m) \/ Delete(m) \/ DeleteEnds(m) \/ DeleteFails(m)
    \/ Retention \/ StopClips \/ Stopped \/ Resume \/ Close \/ Closed

(* The event loop runs its tasks, and an encoder ends (its timeout is 20 s). *)
ClipsSpec ==
    /\ ClipsInit /\ [][ClipsNext]_clipVars
    /\ \A m \in Moment : WF_clipVars(TailEnds(m)) /\ SF_clipVars(Encode(m)) /\ WF_clipVars(EncodeEnds(m))
                           /\ WF_clipVars(Interrupted(m)) /\ WF_clipVars(Cleared(m))

-----------------------------------------------------------------------------
ClipsTypeOK ==
    /\ moment \in [Moment -> {"none", "recording", "saved", "failed", "deleted"}]
    /\ records \subseteq Moment /\ place \in [Moment -> 0..Cardinality(Moment)]
    /\ clip \in [Moment -> {"none", "saved"} \cup Unfinished \cup FailedStates]
    /\ worker \in [Moment -> {"none", "waiting", "queued", "encoder", "clearing", "done"}]

(* A moment that is shown as saved can be played until it is deleted, however  *)
(* retention, deletion and Stop interleave; and there is no footage left that  *)
(* no record, worker or deletion answers for.                                  *)
FootageIsAccountedFor ==
    clips # "closed" =>
        \A m \in Moment :
            /\ moment[m] = "saved" => m \in footage
            /\ m \in footage => m \in records \/ AtWork(m) \/ m \in prune.unlinking
=============================================================================
