------------------------------- MODULE LabFaces -------------------------------
(***************************************************************************)
(* The face session of the perception lab (faces.py FaceSession): a track  *)
(* keeps its place while faces come and go in it, three votes give it a    *)
(* name, and an introduction heard on the track enrols the face that was   *)
(* there.  An embedding is the person it is of; the gallery recognizes a   *)
(* person it has, or nobody.  One place in the picture is modelled.        *)
(***************************************************************************)
EXTENDS Integers, Sequences, FiniteSets

CONSTANTS
    Face,         \* people who stand there
    Enrolled,     \* those the gallery has at first
    MaxTracks,    \* bound: tracks
    Samples,      \* frames an enrollment needs (5)
    Sightings     \* frames an introduction wants to have seen of its track (3)

ASSUME LabFacesAssumption ==
    Enrolled \subseteq Face /\ "nobody" \notin Face /\ {MaxTracks, Samples, Sightings} \subseteq Nat \ {0}

VARIABLES
    gallery,      \* who can be recognized
    track,        \* the track of the place, or NoTrack
    nextTrack,
    inView,       \* the last frame: who is there and is it alone?
    spoken,       \* an introduction that was heard: its track, and whose face that began with
    enrolling,    \* FaceSession.enrolling
    wrong,        \* frames in a row that showed a name on another face
    entered       \* the last enrollment: of whom, and whose face began the track of the introduction

facesVars == <<gallery, track, nextTrack, inView, spoken, enrolling, wrong, entered>>

Nobody == "nobody"
NoTrack == [id |-> 0, votes |-> << >>, stable |-> Nobody, match |-> Nobody, face |-> Nobody, anchor |-> Nobody,
            seen |-> 0]
NotSpoken == [target |-> 0, began |-> Nobody]
NotEnrolling == [target |-> 0, anchor |-> Nobody, samples |-> 0, spoken |-> NotSpoken]

LabFacesInit ==
    /\ gallery = Enrolled /\ track = NoTrack /\ nextTrack = 1
    /\ inView = [face |-> Nobody, alone |-> FALSE]
    /\ spoken = NotSpoken /\ enrolling = NotEnrolling /\ wrong = 0
    /\ entered = [of |-> Nobody, began |-> Nobody]

Named(t) == IF t.stable \in gallery THEN t.stable ELSE Nobody
Count(s, x) == Cardinality({i \in DOMAIN s : s[i] = x})
LastThree(s) == IF Len(s) > 3 THEN Tail(s) ELSE s

-----------------------------------------------------------------------------
(* process(): the votes of a track. *)

(* An unknown face that replaces an unknown face does not inherit the track. *)
Replaced(f, m) ==
    /\ track.stable = Nobody /\ track.match = Nobody /\ m = Nobody
    /\ track.face # f \/ track.anchor # f

Kept(f, m) ==
    IF track.id # 0 /\ ~Replaced(f, m) THEN track
    ELSE [NoTrack EXCEPT !.id = nextTrack, !.anchor = f]

(* A conflicting match forgets the votes and the name. *)
Conflict(t, m) ==
    m # Nobody /\ (t.stable \notin {Nobody, m} \/ \E i \in DOMAIN t.votes : t.votes[i] \notin {Nobody, m})

Weak(votes, old) == old \/ votes = <<Nobody, Nobody, Nobody>>

Voted(t, f, m, old) ==
    LET c == Conflict(t, m)
        votes == LastThree(Append(IF c THEN << >> ELSE t.votes, m))
        before == IF c THEN Nobody ELSE t.stable
    IN [t EXCEPT !.face = f, !.match = m, !.votes = votes,
                 !.stable = IF m # Nobody /\ Count(votes, m) >= 2 THEN m
                            ELSE IF m = Nobody /\ Weak(votes, old) THEN Nobody
                            ELSE before]

Capped(n) == IF n > Sightings THEN Sightings ELSE n

(* The product session counts the frames in which the track kept its name. *)
Sighted(old, t) == [t EXCEPT !.seen = IF Named(old) = Named(t) THEN Capped(old.seen + 1) ELSE 1]

(* A bound enrollment takes the frame, or ends. *)
TakesSample(t, f, m, alone) ==
    alone /\ t.id = enrolling.target /\ Named(t) = Nobody /\ m = Nobody /\ f = enrolling.anchor

Enrols(t, f, m, alone) ==
    IF enrolling.target = 0 THEN UNCHANGED <<gallery, enrolling, entered>>
    ELSE IF ~TakesSample(t, f, m, alone) THEN enrolling' = NotEnrolling /\ UNCHANGED <<gallery, entered>>
    ELSE IF enrolling.samples + 1 < Samples
      THEN enrolling' = [enrolling EXCEPT !.samples = @ + 1] /\ UNCHANGED <<gallery, entered>>
    ELSE /\ gallery' = gallery \cup {f}
         /\ entered' = [of |-> f, began |-> enrolling.spoken.began]
         /\ enrolling' = NotEnrolling

(* A frame with face f, which the gallery may fail to recognize; old: the name was *)
(* last confirmed a second ago.                                                     *)
Frame(f, recognized, old, alone) ==
    LET m == IF recognized THEN f ELSE Nobody
        t == Sighted(Kept(f, m), Voted(Kept(f, m), f, m, old))
    IN /\ recognized => f \in gallery
       /\ old => ~recognized /\ track.stable # Nobody
       /\ t.id <= MaxTracks
       /\ track' = t /\ nextTrack' = IF t.id = nextTrack THEN nextTrack + 1 ELSE nextTrack
       /\ inView' = [face |-> f, alone |-> alone]
       /\ wrong' = IF Named(t) \notin {Nobody, f} THEN wrong + 1 ELSE 0
       /\ Enrols(t, f, m, alone)
       /\ UNCHANGED spoken

(* A frame without a face; after a second the track is gone. *)
EmptyFrame(gone) ==
    /\ track' = IF gone THEN NoTrack ELSE track
    /\ inView' = [face |-> Nobody, alone |-> FALSE]
    /\ enrolling' = NotEnrolling
    /\ UNCHANGED <<gallery, nextTrack, spoken, wrong, entered>>

-----------------------------------------------------------------------------
(* Introductions. *)

(* _introduction_binding(): a track without a name, alone in view for some frames. *)
Bindable == inView.alone /\ track.seen >= Sightings /\ Named(track) = Nobody

(* A name is said while the track is alone, and the product session binds it to the *)
(* track, whoever says it.                                                           *)
HearIntroduction ==
    /\ spoken = NotSpoken /\ Bindable
    /\ spoken' = [target |-> track.id, began |-> track.anchor]
    /\ UNCHANGED <<gallery, track, nextTrack, inView, enrolling, wrong, entered>>

MayEnroll == /\ Bindable /\ track.id = spoken.target
             /\ track.stable = Nobody /\ track.match = Nobody

(* begin_enrollment(), once the decision on the speech has come back. *)
Begin ==
    /\ spoken # NotSpoken
    /\ enrolling' = IF MayEnroll
                      THEN [target |-> track.id, anchor |-> track.face, samples |-> 0, spoken |-> spoken]
                      ELSE enrolling
    /\ spoken' = NotSpoken
    /\ UNCHANGED <<gallery, track, nextTrack, inView, wrong, entered>>

EnrollmentTimesOut ==
    /\ enrolling # NotEnrolling
    /\ enrolling' = NotEnrolling
    /\ UNCHANGED <<gallery, track, nextTrack, inView, spoken, wrong, entered>>

(* delete_person(): out of the gallery, and no pending speech is decided any more. *)
ForgetFace(f) ==
    /\ f \in gallery
    /\ gallery' = gallery \ {f} /\ spoken' = NotSpoken
    /\ wrong' = 0
    /\ UNCHANGED <<track, nextTrack, inView, enrolling, entered>>

LabFacesNext ==
    \/ \E f \in Face, recognized, old, alone \in BOOLEAN : Frame(f, recognized, old, alone)
    \/ \E gone \in BOOLEAN : EmptyFrame(gone)
    \/ HearIntroduction \/ Begin \/ EnrollmentTimesOut
    \/ \E f \in Face : ForgetFace(f)

LabFacesSpec == LabFacesInit /\ [][LabFacesNext]_facesVars

-----------------------------------------------------------------------------
LabFacesTypeOK ==
    /\ gallery \subseteq Face /\ nextTrack \in 1..(MaxTracks + 1) /\ track.id \in 0..MaxTracks
    /\ {track.stable, track.match, track.face, track.anchor, inView.face} \subseteq Face \cup {Nobody}
    /\ Len(track.votes) <= 3 /\ enrolling.samples < Samples

(* A name that another face has inherited with the track is gone after two frames. *)
WrongNameIsBrief == wrong <= 2

(* Nobody is enrolled but the one whose face began the track in which the name was   *)
(* said, whoever came and went in the place while the decision on the speech was      *)
(* pending and the samples were taken.  So whoever introduces themselves in a track    *)
(* that began with them has that name; in a track that began with somebody else, whom  *)
(* the gallery recognizes in one frame and misses in the next, the code gives the name *)
(* to the other face when that is the one that stays.                                  *)
EnrolledBeganTheTrack == entered.of = entered.began
=============================================================================
