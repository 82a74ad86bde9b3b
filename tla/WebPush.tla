------------------------------- MODULE WebPush -------------------------------
(***************************************************************************)
(* Web push to one device.  The page prepares, enables and disables push,  *)
(* one operation at a time (memory/client push.ts PushController); the     *)
(* browser and the agent each keep the subscription; and the agent's flush *)
(* sends every pending notification to every subscription it has           *)
(* (agent/src/push.ts PushDelivery).                                       *)
(***************************************************************************)
EXTENDS Integers

CONSTANTS
    Endpoint,     \* the endpoints the browser may get
    Update,       \* the notifications of the agent
    MaxPushAttempts,  \* 6 in the code
    MaxPushFaults     \* bound: lost answers, refusals of the browser, restarts, endpoints that die

ASSUME PushAssumption == MaxPushAttempts \in Nat \ {0} /\ MaxPushFaults \in Nat

VARIABLES
    update,       \* the state of each notification
    pushService,      \* the endpoint the browser holds, or NoEndpoint
    alive,        \* endpoints the push service still serves
    known,        \* push_subscriptions of the agent
    delivery,     \* push_deliveries of the agent
    round,        \* the flush under way
    ctl,          \* the page's PushController
    accepted,     \* for each row of delivery, how often the push service took it, and how many
                  \* of these times the agent has not heard of (for the properties)
    pushFaults

pushVars == <<update, pushService, alive, known, delivery, round, ctl, accepted, pushFaults>>

NoEndpoint == "no endpoint"
NoUpdate == "no update"
NoDelivery == [state |-> "none", attempts |-> 0, waits |-> FALSE]
NewRow == [NoDelivery EXCEPT !.state = "pending"]
Never == [times |-> 0, unheard |-> 0]
NoRound == [on |-> FALSE, todo |-> {}, dev |-> NoEndpoint, list |-> {}, sending |-> NoUpdate, taken |-> FALSE]

Fault == pushFaults < MaxPushFaults /\ pushFaults' = pushFaults + 1
Ends(says) == ctl' = [ctl EXCEPT !.kind = "none", !.sub = NoEndpoint, !.says = says]
Pending == {n \in Update : update[n] = "pending"}

PushInit ==
    /\ update = [n \in Update |-> "none"]
    /\ pushService = NoEndpoint /\ alive = Endpoint /\ known = {}
    /\ delivery = [d \in Endpoint |-> [n \in Update |-> NoDelivery]]
    /\ round = NoRound
    /\ ctl = [kind |-> "none", sub |-> NoEndpoint, prepared |-> FALSE, subscribed |-> FALSE, says |-> "off"]
    /\ accepted = [d \in Endpoint |-> [n \in Update |-> Never]] /\ pushFaults = 0

-----------------------------------------------------------------------------
(* The page.  A step is what happens up to the next await. *)

Step(kind) == ctl.kind = kind

Starts(kind) ==
    /\ Step("none")
    /\ ctl' = [ctl EXCEPT !.kind = kind, !.prepared = @ /\ kind # "prepare"]
    /\ UNCHANGED <<update, pushService, alive, known, delivery, round, accepted, pushFaults>>

Prepare == Starts("prepare")
Enable == ctl.prepared /\ ~ctl.subscribed /\ Starts("ask")
Disable == ctl.subscribed /\ Starts("disable")

(* subscribe(): an upsert, the rows of its deliveries stay. *)
Recorded(d) == known' = known \cup {d}

(* unsubscribe(): the subscription and its deliveries. *)
WithdrawnHere(d) ==
    /\ known' = known \ {d}
    /\ delivery' = [delivery EXCEPT ![d] = [n \in Update |-> NoDelivery]]
    /\ accepted' = [accepted EXCEPT ![d] = [n \in Update |-> Never]]

(* The browser gives its endpoint up, which dies with that. *)
BrowserDrops == pushService' = NoEndpoint /\ alive' = alive \ {pushService}

(* Neither the agent's key nor the registration could be had. *)
NotReady ==
    /\ Step("prepare") /\ Fault
    /\ Ends("trouble")
    /\ UNCHANGED <<update, pushService, alive, known, delivery, round, accepted>>

(* What the browser holds is kept, unless it was made for another key of the agent. *)
PrepareLooks ==
    /\ Step("prepare")
    /\ \/ /\ pushService # NoEndpoint
          /\ ctl' = [ctl EXCEPT !.kind = "sync", !.sub = pushService]
          /\ UNCHANGED <<pushService, alive, pushFaults>>
       \/ /\ \/ pushService = NoEndpoint /\ UNCHANGED <<pushService, alive, pushFaults>>
             \/ pushService # NoEndpoint /\ Fault /\ (BrowserDrops \/ UNCHANGED <<pushService, alive>>)
          /\ ctl' = [ctl EXCEPT !.kind = "none", !.prepared = TRUE, !.subscribed = FALSE, !.says = "ready"]
    /\ UNCHANGED <<update, known, delivery, round, accepted>>

(* A subscription the agent did not confirm is reported. *)
Synced(ok) == IF ok THEN "enabled" ELSE "trouble"

Sync == \E ok \in BOOLEAN :
    /\ Step("sync")
    /\ IF ok THEN Recorded(ctl.sub) /\ UNCHANGED pushFaults
             ELSE Fault /\ (Recorded(ctl.sub) \/ UNCHANGED known)
    /\ ctl' = [ctl EXCEPT !.kind = "none", !.sub = NoEndpoint, !.prepared = TRUE, !.subscribed = TRUE, !.says = Synced(ok)]
    /\ UNCHANGED <<update, pushService, alive, delivery, round, accepted>>

(* The wearer lets the page push, and the browser returns its endpoint or a new one; or not. *)
AskToSubscribe ==
    /\ Step("ask")
    /\ \/ /\ Ends("ready") /\ UNCHANGED pushService
       \/ /\ \/ pushService # NoEndpoint /\ UNCHANGED pushService
             \/ pushService = NoEndpoint /\ pushService' \in alive
          /\ ctl' = [ctl EXCEPT !.kind = "record", !.sub = pushService']
    /\ UNCHANGED <<update, alive, known, delivery, round, accepted, pushFaults>>

(* What the agent does not confirm is rolled back in the browser, which may refuse. *)
Record ==
    /\ Step("record")
    /\ \/ /\ Recorded(ctl.sub)
          /\ ctl' = [ctl EXCEPT !.kind = "none", !.sub = NoEndpoint, !.subscribed = TRUE, !.says = "enabled"]
          /\ UNCHANGED <<pushService, alive, pushFaults>>
       \/ /\ Fault
          /\ Recorded(ctl.sub) \/ UNCHANGED known
          /\ BrowserDrops \/ UNCHANGED <<pushService, alive>>
          /\ Ends("trouble")
    /\ UNCHANGED <<update, delivery, round, accepted>>

(* Both are asked, the browser first, and the page says what each of them did. *)
Undo ==
    /\ Step("disable")
    /\ IF pushService = NoEndpoint
         THEN /\ ctl' = [ctl EXCEPT !.kind = "none", !.subscribed = FALSE, !.says = "off"]
              /\ UNCHANGED <<pushService, alive, pushFaults>>
         ELSE /\ ctl' = [ctl EXCEPT !.kind = "forget", !.sub = pushService]
              /\ (BrowserDrops /\ UNCHANGED pushFaults) \/ (Fault /\ UNCHANGED <<pushService, alive>>)
    /\ UNCHANGED <<update, known, delivery, round, accepted>>

(* The answer of the agent may be lost; and the browser may have kept what the agent forgets. *)
UndoSays(ok) ==
    CASE ~ok -> "trouble"
      [] ok /\ pushService = ctl.sub -> "kept"
      [] OTHER -> "off"

ForgetSubscription == \E ok \in BOOLEAN :
    /\ Step("forget")
    /\ \/ WithdrawnHere(ctl.sub) /\ (IF ok THEN UNCHANGED pushFaults ELSE Fault)
       \/ ~ok /\ Fault /\ UNCHANGED <<known, delivery, accepted>>
    /\ ctl' = [ctl EXCEPT !.kind = "none", !.sub = NoEndpoint, !.subscribed = (pushService = ctl.sub), !.says = UndoSays(ok)]
    /\ UNCHANGED <<update, pushService, alive, round>>

-----------------------------------------------------------------------------
(* The agent's notifications and its flush, every 250 ms unless one is under way. *)

Notified(n) ==
    /\ update[n] = "none"
    /\ update' = [update EXCEPT ![n] = "pending"]
    /\ UNCHANGED <<pushService, alive, known, delivery, round, ctl, accepted, pushFaults>>

(* It expires, is acknowledged or withdrawn. *)
NotWanted(n) ==
    /\ update[n] = "pending"
    /\ update' = [update EXCEPT ![n] = "gone"]
    /\ UNCHANGED <<pushService, alive, known, delivery, round, ctl, accepted, pushFaults>>

FlushStarts ==
    /\ ~round.on /\ known # {}
    /\ round' = [NoRound EXCEPT !.on = TRUE, !.todo = known]
    /\ UNCHANGED <<update, pushService, alive, known, delivery, ctl, accepted, pushFaults>>

(* The next subscription of the list, with what is pending when its turn comes. *)
NextDevice ==
    /\ round.on /\ round.list = {} /\ round.sending = NoUpdate
    /\ IF round.todo = {}
         THEN round' = NoRound
         ELSE \E d \in round.todo : round' = [round EXCEPT !.todo = @ \ {d}, !.dev = d, !.list = Pending]
    /\ UNCHANGED <<update, pushService, alive, known, delivery, ctl, accepted, pushFaults>>

\* Mutant: a row is written anew for every round.
Listed_Again(d, n) == NewRow

(* INSERT OR IGNORE. *)
Listed(d, n) == IF delivery[d][n] = NoDelivery THEN NewRow ELSE delivery[d][n]

(* Every notification of the list has a row; it is sent when the row is pending and due, and *)
(* the notification and the subscription, which were read before other sends, still stand.   *)
Try == \E n \in round.list :
    LET d == round.dev
        row == Listed(d, n)
        due == row.state = "pending" /\ ~row.waits
    IN
    /\ round.sending = NoUpdate
    /\ delivery' = [delivery EXCEPT ![d][n] = row]
    /\ round' = [round EXCEPT !.list = @ \ {n}, !.sending = IF due /\ n \in Pending /\ d \in known THEN n ELSE NoUpdate]
    /\ UNCHANGED <<update, pushService, alive, known, ctl, accepted, pushFaults>>

Failed(row) ==
    [row EXCEPT !.attempts = @ + 1, !.waits = TRUE, !.state = IF row.attempts + 1 >= MaxPushAttempts THEN "failed" ELSE "pending"]

Stands(d, n) == delivery[d][n] # NoDelivery
SendIsOver == round' = [round EXCEPT !.sending = NoUpdate, !.taken = FALSE]

(* The push service takes what is sent to it; the agent does not know of that yet. *)
PushTaken ==
    LET d == round.dev
        n == round.sending
    IN
    /\ n # NoUpdate /\ ~round.taken /\ d \in alive
    /\ round' = [round EXCEPT !.taken = TRUE]
    /\ accepted' = [accepted EXCEPT ![d][n] = IF Stands(d, n) THEN [times |-> @.times + 1, unheard |-> @.unheard + 1] ELSE @]
    /\ UNCHANGED <<update, pushService, alive, known, delivery, ctl, pushFaults>>

(* It answers that it took it.  An UPDATE finds no row when the subscription went meanwhile. *)
SentWasHeard ==
    LET d == round.dev
        n == round.sending
    IN
    /\ round.taken
    /\ delivery' = [delivery EXCEPT ![d][n] = IF Stands(d, n) THEN [@ EXCEPT !.state = "sent"] ELSE @]
    /\ accepted' = [accepted EXCEPT ![d][n] = IF Stands(d, n) THEN [times |-> @.times, unheard |-> @.unheard - 1] ELSE @]
    /\ SendIsOver
    /\ UNCHANGED <<update, pushService, alive, known, ctl, pushFaults>>

(* It refuses, it cannot be reached, or no answer comes within five seconds, whether it took *)
(* the push or not.                                                                          *)
SendFailed ==
    LET d == round.dev
        n == round.sending
    IN
    /\ n # NoUpdate
    /\ delivery' = [delivery EXCEPT ![d][n] = IF Stands(d, n) THEN Failed(@) ELSE @]
    /\ SendIsOver
    /\ UNCHANGED <<update, pushService, alive, known, ctl, accepted, pushFaults>>

(* It knows the endpoint no more: the subscription goes, and the flush goes to the next one. *)
EndpointIsGone ==
    /\ round.sending # NoUpdate /\ ~round.taken /\ round.dev \notin alive
    /\ WithdrawnHere(round.dev)
    /\ round' = [round EXCEPT !.sending = NoUpdate, !.list = {}]
    /\ UNCHANGED <<update, pushService, alive, ctl, pushFaults>>

SendEnds == SentWasHeard \/ SendFailed \/ EndpointIsGone

WaitIsOver(d, n) ==
    /\ delivery[d][n].waits /\ delivery[d][n].state = "pending"
    /\ delivery' = [delivery EXCEPT ![d][n].waits = FALSE]
    /\ UNCHANGED <<update, pushService, alive, known, round, ctl, accepted, pushFaults>>

(* The agent's process restarts: the push under way is forgotten, taken or not, and its row *)
(* waits to be sent.                                                                         *)
AgentRestarts ==
    /\ round.on /\ Fault
    /\ round' = NoRound
    /\ UNCHANGED <<update, pushService, alive, known, delivery, ctl, accepted>>

EndpointDies ==
    /\ pushService \in alive /\ Fault
    /\ alive' = alive \ {pushService}
    /\ UNCHANGED <<update, pushService, known, delivery, round, ctl, accepted>>

FlushGoesOn == FlushStarts \/ NextDevice \/ Try \/ PushTaken \/ SendEnds

PushNext ==
    \/ Prepare \/ Enable \/ Disable \/ NotReady \/ PrepareLooks \/ Sync \/ AskToSubscribe \/ Record \/ Undo \/ ForgetSubscription
    \/ \E n \in Update : Notified(n) \/ NotWanted(n)
    \/ FlushStarts \/ NextDevice \/ Try \/ PushTaken \/ SentWasHeard \/ SendFailed \/ EndpointIsGone
    \/ \E d \in Endpoint, n \in Update : WaitIsOver(d, n)
    \/ AgentRestarts \/ EndpointDies

(* The flush's timer and the backoff's clock. *)
PushSpec == PushInit /\ [][PushNext]_pushVars /\ WF_pushVars(FlushGoesOn)
            /\ \A d \in Endpoint, n \in Update : WF_pushVars(WaitIsOver(d, n))

-----------------------------------------------------------------------------
PushTypeOK ==
    /\ update \in [Update -> {"none", "pending", "gone"}]
    /\ pushService \in Endpoint \cup {NoEndpoint} /\ alive \subseteq Endpoint /\ known \subseteq Endpoint
    /\ delivery \in [Endpoint -> [Update -> [state: {"none", "pending", "sent", "failed"},
                                             attempts: 0..MaxPushAttempts, waits: BOOLEAN]]]
    /\ round \in [on: BOOLEAN, todo: SUBSET Endpoint, dev: Endpoint \cup {NoEndpoint}, list: SUBSET Update,
                  sending: Update \cup {NoUpdate}, taken: BOOLEAN]

(* Push is what the page and the rows say it is.  While the page says "enabled" the agent *)
(* has the browser's endpoint, or the push service has dropped that one; when it says that *)
(* push is off the browser holds no endpoint, and when it says that only the browser kept  *)
(* its subscription the agent has forgotten it.  A row is "sent" exactly when the agent    *)
(* heard that the push service took the update.  From then on it is not sent again: an     *)
(* update the push service took more than once for a subscription that stands was repeated *)
(* only for answers that never came, because they were late or the agent restarted.        *)
PushIsHonest ==
    /\ Step("none") =>
         /\ ctl.says = "enabled" => pushService \in known \/ pushService \notin alive
         /\ ctl.says = "off" => pushService = NoEndpoint
         /\ ctl.says = "kept" => pushService # NoEndpoint /\ pushService \notin known
    /\ \A d \in Endpoint, n \in Update :
         /\ delivery[d][n].state = "sent" <=> accepted[d][n].times > accepted[d][n].unheard
         /\ accepted[d][n].times <= 1 + accepted[d][n].unheard
=============================================================================
