---------------------------- MODULE VoiceDecisions ----------------------------
(***************************************************************************)
(* Speech that waits for a model in the perception lab: the product        *)
(* session records a final with what was in view (product.py), the route   *)
(* keeps its token (product_routes.py), the bridge decides one event at a   *)
(* time and keeps one more (product_decisions.py), and the answer is        *)
(* applied to a world that has moved on.                                    *)
(***************************************************************************)
EXTENDS Integers, FiniteSets

CONSTANTS
    Final,        \* final segments, spoken in any order
    Scene,        \* perception events
    Someone,      \* who can be in view
    MaxGenerations   \* bound: stops, stream changes and forgotten people

ASSUME VoiceDecisionsAssumption == MaxGenerations \in Nat \ {0} /\ "no event" \notin Final \cup Scene

VARIABLES
    view,         \* who is in the foreground, recognized there, alone and steady before the camera
    live,         \* the microphone and the bridge are on
    generation,   \* _speech_generation
    bound,        \* segment -> what was recorded with it (_pending_speech), or NoRecord
    tokens,       \* segments with a token in the route
    inHand,       \* the event at the provider, or NoEvent
    waiting,      \* the bridge's one pending event, or NoEvent
    newest,       \* the segment submitted last (_latest_voice)
    backingOff, barred,   \* after a failure; after a refused key
    order,        \* segments in the order they were submitted: segment -> number
    fate,         \* what became of every event
    acts          \* what was executed: the words with their target, and the target found then

voiceVars == <<view, live, generation, bound, tokens, inHand, waiting, newest, backingOff, barred,
               order, fate, acts>>

NoOne == "no one"
NoEvent == "no event"
NoRecord == [kind |-> "other", target |-> NoOne, generation |-> 0]
Events == Final \cup Scene

(* Who is recognized in view is the foreground (_live_person_target()); an unknown *)
(* face may be alone before the camera (_introduction_binding()) beside either.    *)
Views == {v \in [foreground : Someone \cup {NoOne}, person : Someone \cup {NoOne}, face : Someone \cup {NoOne}] :
             v.person \in {NoOne, v.foreground}}
EmptyView == [foreground |-> NoOne, person |-> NoOne, face |-> NoOne]

(* What the words are: to find, to recall, a reminder and to clear are "other".  The *)
(* argument of a command and words that are none are left to the answer.             *)
Kinds == {"note", "identify", "introduction", "other"}

VoiceInit ==
    /\ view = EmptyView /\ live = TRUE /\ generation = 1
    /\ bound = [s \in Final |-> NoRecord] /\ tokens = {}
    /\ inHand = NoEvent /\ waiting = NoEvent /\ newest = NoEvent
    /\ backingOff = FALSE /\ barred = FALSE
    /\ order = [s \in Final |-> 0] /\ fate = [e \in Events |-> "new"]
    /\ acts = {}

FateOf(es, what) == [e \in Events |-> IF e \in es THEN what ELSE fate[e]]
Undecided(e) == fate[e] = "pending"

-----------------------------------------------------------------------------
(* submit(): one event at the provider, one waiting; finals before perception. *)

Refuses == ~live \/ barred \/ backingOff
Yields(e) == e \in Scene /\ waiting \in Final

SubmittedToBridge(e) ==
    IF Refuses \/ Yields(e)
      THEN fate' = FateOf({e}, "dropped") /\ UNCHANGED <<inHand, waiting>>
    ELSE IF inHand = NoEvent
      THEN inHand' = e /\ fate' = FateOf({e}, "pending") /\ UNCHANGED waiting
    ELSE /\ waiting' = e /\ UNCHANGED inHand
         /\ fate' = [FateOf({waiting} \cap Events, "dropped") EXCEPT ![e] = "pending"]

(* What ingest_transcript() records of the view that a command of this kind is about. *)
TargetOf(kind) ==
    CASE kind = "note" -> view.foreground
      [] kind = "identify" -> view.person
      [] kind = "introduction" -> view.face
      [] kind = "other" -> NoOne

NextNumber == Cardinality({s \in Final : order[s] # 0}) + 1

HearFinal(s, kind) ==
    /\ live /\ fate[s] = "new"
    /\ bound' = [bound EXCEPT ![s] = [kind |-> kind, target |-> TargetOf(kind), generation |-> generation]]
    /\ SubmittedToBridge(s)
    /\ IF Refuses THEN UNCHANGED <<tokens, newest, order>>
       ELSE /\ tokens' = (tokens \cup {s}) \ {waiting}
            /\ newest' = s /\ order' = [order EXCEPT ![s] = NextNumber]
    /\ UNCHANGED <<view, live, generation, backingOff, barred, acts>>

Watch(e) ==
    /\ live /\ fate[e] = "new"
    /\ SubmittedToBridge(e)
    /\ UNCHANGED <<view, live, generation, bound, tokens, newest, backingOff, barred, order, acts>>

-----------------------------------------------------------------------------
(* _run(): the answer, a late answer, a failure; then the one that waited. *)

TakesWaiting == inHand' = waiting /\ waiting' = NoEvent

\* Mutant: an answer is applied whatever has been said since.
CommandCurrent_Any(s) == TRUE

CommandCurrent(s) == s = newest

(* A note, an identification and an introduction want the target they were spoken *)
(* about, and an introduction one that was there; the others ask for none.          *)
SameTarget(s) ==
    /\ bound[s].target = TargetOf(bound[s].kind)
    /\ bound[s].kind = "introduction" => bound[s].target # NoOne

(* apply_transcript_decision(): the answer agrees with the rule the words matched. *)
Executes(s) ==
    /\ s \in tokens /\ bound[s] # NoRecord /\ bound[s].generation = generation /\ live
    /\ CommandCurrent(s) /\ SameTarget(s)

(* agrees: there is a rule, of the intent the model names, and directed at the device *)
(* (or, for an introduction, allowed).                                                *)
DecisionComes(agrees) ==
    /\ inHand # NoEvent
    /\ IF inHand \in Final
         THEN /\ tokens' = tokens \ {inHand}
              /\ bound' = IF inHand \in tokens THEN [bound EXCEPT ![inHand] = NoRecord] ELSE bound
              /\ IF agrees /\ Executes(inHand)
                   THEN /\ acts' = acts \cup {[of |-> inHand, said |-> bound[inHand],
                                               found |-> TargetOf(bound[inHand].kind), in |-> generation,
                                               newest |-> \A s \in Final : order[s] <= order[inHand]]}
                        /\ fate' = FateOf({inHand}, "executed")
                   ELSE fate' = FateOf({inHand}, "rejected") /\ UNCHANGED acts
         ELSE fate' = FateOf({inHand}, "rejected") /\ UNCHANGED <<tokens, bound, acts>>
    /\ TakesWaiting
    /\ UNCHANGED <<view, live, generation, newest, backingOff, barred, order>>

(* The answer comes when the event is no longer fresh. *)
AnswerTooLate ==
    /\ inHand # NoEvent
    /\ fate' = FateOf({inHand}, "dropped") /\ tokens' = tokens \ {inHand}
    /\ TakesWaiting
    /\ UNCHANGED <<view, live, generation, bound, newest, backingOff, barred, order, acts>>

(* What waited is lost with it. *)
Lost == {inHand, waiting} \cap Events

DecisionFails(refused) ==
    /\ inHand # NoEvent
    /\ fate' = FateOf(Lost, "dropped") /\ tokens' = tokens \ {inHand, waiting}
    /\ inHand' = NoEvent /\ waiting' = IF waiting \in Lost THEN NoEvent ELSE waiting
    /\ backingOff' = TRUE /\ barred' = (barred \/ refused)
    /\ UNCHANGED <<view, live, generation, bound, newest, order, acts>>

BackoffEnds ==
    /\ backingOff /\ backingOff' = FALSE
    /\ UNCHANGED <<view, live, generation, bound, tokens, inHand, waiting, newest, barred, order, fate, acts>>

-----------------------------------------------------------------------------
(* The world meanwhile. *)

Look(v) ==
    /\ v # view /\ live
    /\ view' = v
    /\ UNCHANGED <<live, generation, bound, tokens, inHand, waiting, newest, backingOff, barred, order, fate, acts>>

Invalidated ==
    /\ generation <= MaxGenerations
    /\ generation' = generation + 1 /\ bound' = [s \in Final |-> NoRecord]

(* Capture stops: the call is cancelled and what waited is dropped. *)
StopCapture ==
    /\ live /\ live' = FALSE /\ Invalidated
    /\ view' = EmptyView /\ tokens' = {} /\ newest' = NoEvent
    /\ inHand' = NoEvent /\ waiting' = NoEvent
    /\ fate' = FateOf({e \in Events : Undecided(e)}, "dropped")
    /\ UNCHANGED <<backingOff, barred, order, acts>>

StartCapture ==
    /\ ~live /\ live' = TRUE /\ Invalidated
    /\ UNCHANGED <<view, tokens, inHand, waiting, newest, backingOff, barred, order, fate, acts>>

(* The speech stream is a new one. *)
NewSpeechStream ==
    /\ live /\ Invalidated
    /\ UNCHANGED <<view, live, tokens, inHand, waiting, newest, backingOff, barred, order, fate, acts>>

(* delete_person(): nothing that waits is about that person any more. *)
ForgetSomeone ==
    /\ Invalidated /\ tokens' = {} /\ view' = EmptyView
    /\ UNCHANGED <<live, inHand, waiting, newest, backingOff, barred, order, fate, acts>>

VoiceNext ==
    \/ \E s \in Final, kind \in Kinds : HearFinal(s, kind)
    \/ \E e \in Scene : Watch(e)
    \/ \E agrees \in BOOLEAN : DecisionComes(agrees)
    \/ \E refused \in BOOLEAN : DecisionFails(refused)
    \/ AnswerTooLate \/ BackoffEnds
    \/ \E v \in Views : Look(v)
    \/ StopCapture \/ StartCapture \/ NewSpeechStream \/ ForgetSomeone

(* A call has two seconds. *)
Decides == AnswerTooLate \/ (\E agrees \in BOOLEAN : DecisionComes(agrees)) \/ (\E r \in BOOLEAN : DecisionFails(r))

VoiceSpec == VoiceInit /\ [][VoiceNext]_voiceVars /\ WF_voiceVars(Decides)

-----------------------------------------------------------------------------
VoiceTypeOK ==
    /\ view \in Views /\ generation \in 1..(MaxGenerations + 2) /\ tokens \subseteq Final
    /\ {inHand, waiting, newest} \subseteq Events \cup {NoEvent}
    /\ \A e \in Events : fate[e] \in {"new", "pending", "dropped", "rejected", "executed"}

(* A spoken command acts once, in the capture it was spoken in, and only while nothing  *)
(* newer has been submitted; a note, an identification and an introduction, moreover,  *)
(* only where the target is the one they were spoken about, which has to be there for  *)
(* an introduction.  (Recalling has no target of its own: product.py answers it with   *)
(* the notes of whoever is in the foreground when the decision comes.)                 *)
CommandsAreMeant ==
    /\ \A a \in acts :
         /\ a.said.generation = a.in /\ a.newest
         /\ a.said.kind \in {"note", "identify", "introduction"} => a.found = a.said.target
         /\ a.said.kind = "introduction" => a.found # NoOne
    /\ \A a, b \in acts : a.of = b.of => a = b
=============================================================================
