----------------------------- MODULE LabPresence -----------------------------
(***************************************************************************)
(* Who is there in the perception lab's product session (product.py): the  *)
(* frames of two streams open and end encounters, decide who is in the      *)
(* foreground and what the display shows of them with which reminder, and   *)
(* save a clip of an object that has disappeared.  A unit of time is half   *)
(* the time after which an absence ends an encounter.                       *)
(***************************************************************************)
EXTENDS Integers, FiniteSets

CONSTANTS
    LabPerson,        \* enrolled people
    Object,       \* object categories
    CoastTime, GapTime, EndTime,   \* COAST_S, OBSERVATION_GAP_S, END_S in units
    MaxMeetings   \* bound: encounters

ASSUME LabPresenceAssumption ==
    /\ {CoastTime, GapTime, EndTime, MaxMeetings} \subseteq Nat
    /\ 0 < CoastTime /\ CoastTime <= GapTime /\ GapTime < EndTime
    /\ IsFiniteSet(LabPerson) /\ IsFiniteSet(Object) /\ LabPerson \cap Object = {}
    /\ "no profile" \notin LabPerson \cup Object

VARIABLES
    labCamera,       \* the camera is live
    available, silence,   \* stream -> can it be received? time since its last frame
    profiles,     \* who has a profile
    meeting,      \* profile -> the encounters there were; active: the last is open
    active,
    age,          \* profile -> time on its stream's clock since it was seen
    obsAge,       \* profile -> time since it was seen
    sightings, missed,    \* object -> in this encounter; frames without it since it was seen
    foreground,
    labReminder,     \* person -> there is one, and it is neither completed nor snoozed
    dismissed,    \* person -> the encounter it was dismissed for (0: none)
    display,      \* what is shown: its template, of whom, with a reminder?
    cardKey,      \* _profile_key
    cooling,      \* objects whose clip was saved a short time ago
    saved         \* the last clip that was saved by the rule

presenceVars == <<labCamera, available, silence, profiles, meeting, active, age, obsAge, sightings, missed,
                  foreground, labReminder, dismissed, display, cardKey, cooling, saved>>
seenVars == <<meeting, active, age, obsAge, sightings, missed>>

Profile == LabPerson \cup Object
NoProfile == "no profile"
StreamOf(i) == IF i \in LabPerson THEN "faces" ELSE "objects"
LabStreams == {"faces", "objects"}
Idling == [template |-> "idle", of |-> NoProfile, reminder |-> FALSE]
NoKey == [of |-> NoProfile, meeting |-> 0, reminder |-> FALSE]

PresenceInit ==
    /\ labCamera = FALSE /\ available = [s \in LabStreams |-> FALSE] /\ silence = [s \in LabStreams |-> GapTime + 1]
    /\ profiles = LabPerson /\ meeting = [i \in Profile |-> 0] /\ active = {}
    /\ age = [i \in Profile |-> EndTime] /\ obsAge = [i \in Profile |-> GapTime + 1]
    /\ sightings = [i \in Object |-> 0] /\ missed = [i \in Object |-> 0]
    /\ foreground = NoProfile
    /\ labReminder = [i \in LabPerson |-> FALSE] /\ dismissed = [i \in LabPerson |-> 0]
    /\ display = Idling /\ cardKey = NoKey /\ cooling = {}
    /\ saved = [sightings |-> 2, missed |-> 1]

UpTo(n, top) == IF n > top THEN top ELSE n

-----------------------------------------------------------------------------
(* The card of the foreground (_profile_card, _show): with the reminder that is due. *)

Due(i) == i \in LabPerson /\ labReminder'[i] /\ dismissed'[i] # meeting'[i]
Card(i) == [template |-> "profile", of |-> i, reminder |-> Due(i)]
KeyOf(i) == [of |-> i, meeting |-> meeting'[i], reminder |-> Due(i)]

(* The card is shown when it is another one and nothing more important is shown. *)
Shown(i, now) ==
    IF now.key = KeyOf(i) THEN now
    ELSE [key |-> KeyOf(i), shows |-> IF now.shows.template = "answer" THEN now.shows ELSE Card(i)]

Displays(now) == display' = now.shows /\ cardKey' = now.key

(* _track_live(), after the frame or the tick. *)
LiveThen(i) ==
    /\ i \in active' /\ available'[StreamOf(i)] /\ silence'[StreamOf(i)] <= GapTime
    /\ obsAge'[i] <= GapTime /\ age'[i] <= CoastTime

(* _foreground(): a person first, of those the size of whose box decides. *)
Preferred == LET there == {i \in Profile : LiveThen(i)}
             IN IF there \cap LabPerson # {} THEN there \cap LabPerson ELSE there

(* _foreground(): who is gone from the foreground goes from the display. *)
Refocused(now) ==
    IF foreground' = foreground THEN now
    ELSE IF foreground' # NoProfile THEN Shown(foreground', [now EXCEPT !.key = NoKey])
    ELSE [key |-> NoKey, shows |-> IF now.shows.template = "answer" THEN now.shows ELSE Idling]

(* A display that has expired gives way to the card of the foreground, a card to nothing. *)
ExpiredDisplay(now) ==
    IF now.shows.template = "answer" /\ foreground' # NoProfile
      THEN [key |-> KeyOf(foreground'), shows |-> Card(foreground')]
    ELSE [now EXCEPT !.shows = Idling]

(* tick() and _foreground(): the display after a frame, or after time has passed. *)
SettledDisplay(expires) ==
    /\ foreground' \in IF Preferred = {} THEN {NoProfile} ELSE Preferred
    /\ LET was == [key |-> cardKey, shows |-> display]
           focused == Refocused(was)
           now == IF foreground' = NoProfile THEN focused ELSE Shown(foreground', focused)
       IN Displays(IF expires /\ display # Idling /\ now.shows = display /\ now.key = cardKey
                     THEN ExpiredDisplay(now) ELSE now)

-----------------------------------------------------------------------------
(* Frames. *)

Encountered(is, s) ==
    /\ age' = [i \in Profile |-> IF i \in is THEN 0 ELSE age[i]]
    /\ obsAge' = [i \in Profile |-> IF i \in is THEN 0 ELSE obsAge[i]]
    /\ sightings' = [i \in Object |-> IF i \notin is THEN sightings[i]
                                       ELSE IF i \in active THEN UpTo(sightings[i] + 1, 2) ELSE 1]
    /\ missed' = [i \in Object |-> IF i \in is THEN 0
                                   ELSE IF s = "objects" THEN UpTo(missed[i] + 1, 2) ELSE missed[i]]
    /\ meeting' = [i \in Profile |-> IF i \in is \ active THEN meeting[i] + 1 ELSE meeting[i]]
    /\ active' = active \cup is

(* The encounters there have been, with those that begin. *)
MeetingsThen(is) ==
    Cardinality({m \in Profile \X (1..MaxMeetings) : m[2] <= meeting[m[1]]} \cup
                {<<i, MaxMeetings + 1>> : i \in is \ active})

(* ingest_faces(), ingest_objects(): a frame of a stream that is available. *)
SeesFrame(s, is, expires) ==
    /\ labCamera /\ available[s] /\ \A i \in is : StreamOf(i) = s /\ (i \in LabPerson => i \in profiles)
    /\ MeetingsThen(is) <= MaxMeetings
    /\ silence' = [silence EXCEPT ![s] = 0]
    /\ profiles' = profiles \cup is
    /\ Encountered(is, s)
    /\ UNCHANGED <<labCamera, available, labReminder, dismissed, cooling, saved>>
    /\ SettledDisplay(expires)

(* _advance(): a stream's clock goes on for a while after each of its frames. *)
Runs(s) == available[s] /\ silence[s] < GapTime

(* Those whose absence is confirmed end, and the rule saves a clip of an object. *)
Ending == {i \in active : age'[i] >= EndTime}

PlacementOf(i) == i \in Object /\ sightings[i] >= 2 /\ labCamera /\ i \notin cooling

PresenceTick(expires) ==
    /\ age' = [i \in Profile |-> IF Runs(StreamOf(i)) THEN UpTo(age[i] + 1, EndTime) ELSE age[i]]
    /\ obsAge' = [i \in Profile |-> UpTo(obsAge[i] + 1, GapTime + 1)]
    /\ silence' = [s \in LabStreams |-> UpTo(silence[s] + 1, GapTime + 1)]
    /\ active' = active \ Ending
    /\ cooling' = cooling \cup {i \in Ending : PlacementOf(i)}
    /\ IF \E i \in Ending : PlacementOf(i)
         THEN LET i == CHOOSE j \in Ending : PlacementOf(j)
              IN saved' = [sightings |-> sightings[i], missed |-> missed[i]]
         ELSE UNCHANGED saved
    /\ UNCHANGED <<labCamera, available, profiles, meeting, sightings, missed, labReminder, dismissed>>
    /\ SettledDisplay(expires)

CooldownEnds ==
    /\ cooling # {} /\ cooling' = {}
    /\ UNCHANGED <<labCamera, available, silence, profiles, seenVars, foreground, labReminder, dismissed,
                   display, cardKey, saved>>

-----------------------------------------------------------------------------
(* Capture and streams. *)

CameraOn ==
    /\ ~labCamera /\ labCamera' = TRUE
    /\ UNCHANGED <<available, silence, profiles, seenVars, foreground, labReminder, dismissed, display,
                   cardKey, cooling, saved>>

(* The camera is off, or capture stops: every encounter ends, and none was confirmed. *)
CameraOff ==
    /\ labCamera /\ labCamera' = FALSE /\ active' = {} /\ foreground' = NoProfile
    /\ available' = [s \in LabStreams |-> FALSE] /\ silence' = [s \in LabStreams |-> GapTime + 1]
    /\ age' = [i \in Profile |-> EndTime] /\ obsAge' = [i \in Profile |-> GapTime + 1]
    /\ display' = Idling /\ cardKey' = NoKey
    /\ UNCHANGED <<profiles, meeting, sightings, missed, labReminder, dismissed, cooling, saved>>

(* stream_state(). *)
StreamState(s, there) ==
    /\ labCamera /\ available[s] # there
    /\ available' = [available EXCEPT ![s] = there]
    /\ silence' = [silence EXCEPT ![s] = GapTime + 1]
    /\ UNCHANGED <<labCamera, profiles, seenVars, foreground, labReminder, dismissed, display, cardKey, cooling, saved>>

-----------------------------------------------------------------------------
(* Commands. *)

(* An answer is shown over everything; the profile card is not forgotten. *)
ShowAnswer(i) ==
    /\ i \in profiles
    /\ display' = [template |-> "answer", of |-> i, reminder |-> FALSE]
    /\ UNCHANGED <<labCamera, available, silence, profiles, seenVars, foreground, labReminder, dismissed,
                   cardKey, cooling, saved>>

ClearDisplay ==
    /\ display # Idling /\ display' = Idling
    /\ UNCHANGED <<labCamera, available, silence, profiles, seenVars, foreground, labReminder, dismissed,
                   cardKey, cooling, saved>>

(* A change of a reminder of the foreground makes its card again. *)
Refreshed(i) == IF foreground = i THEN Displays(Shown(i, [key |-> cardKey, shows |-> display])) ELSE UNCHANGED <<display, cardKey>>

SetReminder(i, due, sinceEncounter) ==
    /\ i \in profiles \cap LabPerson
    /\ labReminder' = [labReminder EXCEPT ![i] = due] /\ dismissed' = [dismissed EXCEPT ![i] = sinceEncounter]
    /\ UNCHANGED <<labCamera, available, silence, profiles, seenVars, foreground, cooling, saved>>
    /\ Refreshed(i)

(* Spoken reminders are for the next meeting, others for this one. *)
SaveReminder(i, next) ==
    ~labReminder[i] /\ SetReminder(i, TRUE, IF next /\ i \in active THEN meeting[i] ELSE 0)

CompleteReminder(i) == labReminder[i] /\ SetReminder(i, FALSE, dismissed[i])
Snooze(i) == labReminder[i] /\ SetReminder(i, FALSE, 0)
Dismiss(i) == labReminder[i] /\ i \in active /\ SetReminder(i, TRUE, meeting[i])

(* The snooze is over; the next tick shows it. *)
SnoozeEnds(i) ==
    /\ ~labReminder[i] /\ i \in profiles
    /\ labReminder' = [labReminder EXCEPT ![i] = TRUE]
    /\ UNCHANGED <<labCamera, available, silence, profiles, seenVars, foreground, dismissed, display,
                   cardKey, cooling, saved>>

(* delete_profile(): the person, the encounters and the reminders; an answer goes with them. *)
DeleteProfile(i) ==
    /\ i \in profiles \cap LabPerson
    /\ profiles' = profiles \ {i} /\ active' = active \ {i}
    /\ age' = [age EXCEPT ![i] = EndTime] /\ obsAge' = [obsAge EXCEPT ![i] = GapTime + 1]
    /\ labReminder' = [labReminder EXCEPT ![i] = FALSE] /\ dismissed' = [dismissed EXCEPT ![i] = 0]
    /\ UNCHANGED <<labCamera, available, silence, meeting, sightings, missed, cooling, saved>>
    /\ foreground' \in IF Preferred = {} THEN {NoProfile} ELSE Preferred
    /\ Displays(Refocused([key |-> NoKey, shows |-> IF foreground = i \/ display.template = "answer"
                                                    THEN Idling ELSE display]))

PresenceNext ==
    \/ \E s \in LabStreams, is \in SUBSET Profile, expires \in BOOLEAN : SeesFrame(s, is, expires)
    \/ \E expires \in BOOLEAN : PresenceTick(expires)
    \/ CooldownEnds \/ CameraOn \/ CameraOff
    \/ \E s \in LabStreams, there \in BOOLEAN : StreamState(s, there)
    \/ \E i \in Profile : ShowAnswer(i)
    \/ ClearDisplay
    \/ \E i \in LabPerson : \/ \E next \in BOOLEAN : SaveReminder(i, next)
                        \/ CompleteReminder(i) \/ Snooze(i) \/ Dismiss(i) \/ SnoozeEnds(i)
                        \/ DeleteProfile(i)

PresenceSpec == PresenceInit /\ [][PresenceNext]_presenceVars

-----------------------------------------------------------------------------
PresenceTypeOK ==
    /\ profiles \subseteq Profile /\ active \subseteq profiles /\ foreground \in Profile \cup {NoProfile}
    /\ \A i \in Profile : age[i] \in 0..EndTime /\ obsAge[i] \in 0..(GapTime + 1) /\ meeting[i] \in 0..MaxMeetings
    /\ display.template \in {"idle", "profile", "answer"} /\ cardKey.of \in Profile \cup {NoProfile}

(* The rule saves a clip of an object that was seen twice and that a frame has  *)
(* missed: an outage alone, or the end of capture, is never taken for an absence. *)
AbsenceIsObserved == saved.sightings >= 2 /\ saved.missed >= 1

(* The card on the display is of who is in the foreground, never of somebody deleted, *)
(* and does not show a reminder that is completed, snoozed or dismissed for this       *)
(* meeting.                                                                             *)
TheCardIsOfWhoIsThere ==
    display.template = "profile" =>
        /\ display.of = foreground /\ display.of \in active
        /\ display.reminder => /\ labReminder[display.of]
                               /\ dismissed[display.of] # meeting[display.of]
=============================================================================
