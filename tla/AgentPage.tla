------------------------------ MODULE AgentPage ------------------------------
(***************************************************************************)
(* The agent's own page (web/app.ts) keeps itself connected: it asks for a *)
(* session, asks again after a failure, takes a 401 for a stale session    *)
(* unless the request is older than the session, and while connected polls *)
(* the notifications, receives them on an event stream and acknowledges    *)
(* them.  The agent forgets its sessions when it restarts.                 *)
(***************************************************************************)
EXTENDS Integers, FiniteSets

CONSTANTS
    PageMessage,        \* notifications
    PageTroubles    \* bound: restarts and outages, requests that fail, acknowledgements pressed too late

ASSUME AgentPageAssumption == PageTroubles \in Nat

VARIABLES
    reachable,      \* the agent can be reached
    agentRun,       \* the run of the agent: its sessions die with it
    message,        \* message[n]: the agent's row
    pageState,      \* session
    cookie,         \* the run of the agent the page's session is of (0: none)
    bootstrapping,  \* POST /v1/client/session is under way
    retryTimer,
    justConnected,  \* less than RECONNECT_MS since lastConnectAt
    pollers,        \* poll timers that run
    eventSource,    \* none, open or lost (the browser reconnects)
    streamed,       \* what was sent on it since it was opened
    listed,         \* notifications of the page
    poll,           \* GET /v1/notifications
    marking,         \* POST .../ack
    pageTroubles

agentPageVars == <<reachable, agentRun, message, pageState, cookie, bootstrapping, retryTimer, justConnected, pollers,
                   eventSource, streamed, listed, poll, marking, pageTroubles>>
linkVars == <<pageState, cookie, bootstrapping, retryTimer, justConnected, pollers, eventSource, streamed>>
agentVars == <<reachable, agentRun, message>>

NoPoll == [at |-> "none", old |-> FALSE, list |-> {}]
NoMessage == "no message"
NoAck == [of |-> NoMessage, at |-> "none", old |-> FALSE]
PendingMessages == {n \in PageMessage : message[n] = "pending"}
PageTrouble == pageTroubles < PageTroubles /\ pageTroubles' = pageTroubles + 1
ValidCookie == cookie = agentRun

AgentPageInit ==
    /\ reachable = TRUE /\ agentRun = 1 /\ message = [n \in PageMessage |-> "none"]
    /\ pageState = "connecting" /\ cookie = 0 /\ bootstrapping = TRUE /\ retryTimer = FALSE /\ justConnected = FALSE
    /\ pollers = 0 /\ eventSource = "none" /\ streamed = {} /\ listed = {} /\ poll = NoPoll /\ marking = NoAck
    /\ pageTroubles = 0

-----------------------------------------------------------------------------
(* The agent. *)

ShowNotice(n) ==
    /\ message[n] = "none" /\ message' = [message EXCEPT ![n] = "pending"]
    /\ UNCHANGED <<reachable, agentRun, linkVars, listed, poll, marking, pageTroubles>>

(* Acknowledged elsewhere, or expired. *)
SettledElsewhere(n) ==
    /\ message[n] = "pending" /\ message' = [message EXCEPT ![n] = "over"]
    /\ UNCHANGED <<reachable, agentRun, linkVars, listed, poll, marking, pageTroubles>>

AgentIsRestarted ==
    /\ PageTrouble /\ agentRun' = agentRun + 1
    /\ eventSource' = IF eventSource = "open" THEN "lost" ELSE eventSource
    /\ UNCHANGED <<reachable, message, pageState, cookie, bootstrapping, retryTimer, justConnected, pollers, streamed,
                   listed, poll, marking>>

Outage ==
    /\ \/ reachable /\ PageTrouble
       \/ ~reachable /\ UNCHANGED pageTroubles
    /\ reachable' = ~reachable
    /\ eventSource' = IF eventSource = "open" THEN "lost" ELSE eventSource
    /\ UNCHANGED <<agentRun, message, pageState, cookie, bootstrapping, retryTimer, justConnected, pollers, streamed,
                   listed, poll, marking>>

-----------------------------------------------------------------------------
(* The session of the page. *)

StopsLive == pollers' = 0 /\ eventSource' = "none"

(* setSession(), for a session that is not connected. *)
Disconnected(s) ==
    /\ pageState' = s
    /\ IF pageState = "connected" THEN StopsLive ELSE UNCHANGED <<pollers, eventSource>>

(* markUnavailable(). *)
MarkUnavailable ==
    IF bootstrapping \/ pageState = "unavailable"
      THEN UNCHANGED <<pageState, pollers, eventSource, retryTimer, bootstrapping>>
      ELSE Disconnected("unavailable") /\ retryTimer' = TRUE /\ UNCHANGED bootstrapping

(* handleUnauthorized(): a request older than the session says nothing of it. *)
Unauthorized(old) ==
    IF bootstrapping \/ old
      THEN UNCHANGED <<pageState, pollers, eventSource, retryTimer, bootstrapping>>
    ELSE IF justConnected
      THEN Disconnected("unavailable") /\ retryTimer' = TRUE /\ UNCHANGED bootstrapping
      ELSE Disconnected("connecting") /\ bootstrapping' = TRUE /\ retryTimer' = FALSE

(* The timer, or the button. *)
StreamAgain ==
    /\ ~bootstrapping /\ (retryTimer \/ pageState = "unavailable")
    /\ bootstrapping' = TRUE /\ retryTimer' = FALSE
    /\ pageState' = "connecting"
    /\ UNCHANGED <<agentVars, cookie, justConnected, pollers, eventSource, streamed, listed, poll, marking, pageTroubles>>

PageConnected ==
    /\ bootstrapping /\ reachable /\ bootstrapping' = FALSE
    /\ cookie' = agentRun /\ pageState' = "connected" /\ justConnected' = TRUE
    /\ poll' = IF poll.at = "none" THEN poll ELSE [poll EXCEPT !.old = TRUE]
    /\ marking' = IF marking.at = "none" THEN marking ELSE [marking EXCEPT !.old = TRUE]
    /\ pollers' = pollers + 1 /\ eventSource' = "open" /\ streamed' = {}
    /\ UNCHANGED <<agentVars, retryTimer, listed, pageTroubles>>

NotConnected ==
    /\ bootstrapping /\ bootstrapping' = FALSE
    /\ \/ ~reachable /\ UNCHANGED pageTroubles
       \/ reachable /\ PageTrouble
    /\ Disconnected("unavailable") /\ retryTimer' = TRUE
    /\ UNCHANGED <<agentVars, cookie, justConnected, streamed, listed, poll, marking>>

TimePasses ==
    /\ justConnected /\ justConnected' = FALSE
    /\ UNCHANGED <<agentVars, pageState, cookie, bootstrapping, retryTimer, pollers, eventSource, streamed, listed,
                   poll, marking, pageTroubles>>

-----------------------------------------------------------------------------
(* Notifications. *)

(* The browser opens the stream again; an answer that is not 200 closes it for good. *)
ResumePage ==
    /\ eventSource = "lost" /\ reachable
    /\ IF ValidCookie
         THEN /\ eventSource' = "open" /\ streamed' = {}
              /\ UNCHANGED <<pageState, pollers, retryTimer, bootstrapping>>
         ELSE MarkUnavailable /\ UNCHANGED streamed
    /\ UNCHANGED <<agentVars, cookie, justConnected, listed, poll, marking, pageTroubles>>

Streams(n) ==
    /\ eventSource = "open" /\ reachable /\ message[n] = "pending" /\ n \notin streamed
    /\ streamed' = streamed \cup {n} /\ listed' = listed \cup {n}
    /\ UNCHANGED <<agentVars, pageState, cookie, bootstrapping, retryTimer, justConnected, pollers, eventSource, poll,
                   marking, pageTroubles>>

PollPage ==
    /\ pollers > 0 /\ poll = NoPoll
    /\ poll' = [NoPoll EXCEPT !.at = "sent"]
    /\ UNCHANGED <<agentVars, linkVars, listed, marking, pageTroubles>>

PollReachesAgent ==
    /\ poll.at = "sent" /\ reachable
    /\ poll' = [poll EXCEPT !.at = IF ValidCookie THEN "answered" ELSE "refused", !.list = PendingMessages]
    /\ UNCHANGED <<agentVars, linkVars, listed, marking, pageTroubles>>

(* What the agent does not list is gone, unless it is being acknowledged. *)
RefreshedList(list) == list \cup (listed \cap {marking.of})

PollAnswered ==
    /\ \/ /\ poll.at = "answered" /\ listed' = RefreshedList(poll.list)
          /\ UNCHANGED <<pageState, pollers, eventSource, retryTimer, bootstrapping>>
       \/ poll.at = "refused" /\ Unauthorized(poll.old) /\ UNCHANGED listed
       \/ poll.at = "sent" /\ ~reachable /\ MarkUnavailable /\ UNCHANGED listed
    /\ poll' = NoPoll
    /\ UNCHANGED <<agentVars, cookie, justConnected, streamed, marking, pageTroubles>>

PressRead(n) ==
    /\ n \in listed /\ marking = NoAck
    /\ marking' = [NoAck EXCEPT !.of = n, !.at = "sent"]
    /\ IF message[n] = "over" THEN PageTrouble ELSE UNCHANGED pageTroubles
    /\ UNCHANGED <<agentVars, linkVars, listed, poll>>

AckReachesAgent ==
    /\ marking.at = "sent" /\ reachable
    /\ IF ~ValidCookie THEN marking' = [marking EXCEPT !.at = "refused"] /\ UNCHANGED message
       ELSE /\ marking' = [marking EXCEPT !.at = IF message[marking.of] = "pending" THEN "acked" ELSE "not acked"]
            /\ message' = [message EXCEPT ![marking.of] = "over"]
    /\ UNCHANGED <<reachable, agentRun, linkVars, listed, poll, pageTroubles>>

AckAnswered ==
    /\ \/ /\ marking.at \in {"acked", "not acked"}
          /\ listed' = IF marking.at = "acked" THEN listed \ {marking.of} ELSE listed
          /\ UNCHANGED <<pageState, pollers, eventSource, retryTimer, bootstrapping>>
       \/ marking.at = "refused" /\ Unauthorized(marking.old) /\ UNCHANGED listed
       \/ marking.at # "none" /\ ~reachable /\ MarkUnavailable /\ UNCHANGED listed
    /\ marking' = NoAck
    /\ UNCHANGED <<agentVars, cookie, justConnected, streamed, poll, pageTroubles>>

AgentPageNext ==
    \/ \E n \in PageMessage : ShowNotice(n) \/ SettledElsewhere(n) \/ Streams(n) \/ PressRead(n)
    \/ AgentIsRestarted \/ Outage \/ StreamAgain \/ PageConnected \/ NotConnected \/ TimePasses
    \/ ResumePage \/ PollPage \/ PollReachesAgent \/ PollAnswered \/ AckReachesAgent \/ AckAnswered

Connects == StreamAgain \/ PageConnected \/ NotConnected
Polls == PollPage \/ PollReachesAgent \/ PollAnswered
Answers == AckReachesAgent \/ AckAnswered

AgentPageSpec == /\ AgentPageInit /\ [][AgentPageNext]_agentPageVars
                 /\ WF_agentPageVars(Connects) /\ WF_agentPageVars(Polls) /\ WF_agentPageVars(Answers)

-----------------------------------------------------------------------------
AgentPageTypeOK ==
    /\ pageState \in {"connecting", "connected", "unavailable"} /\ cookie \in 0..agentRun
    /\ message \in [PageMessage -> {"none", "pending", "over"}] /\ listed \subseteq PageMessage /\ streamed \subseteq PageMessage
    /\ eventSource \in {"none", "open", "lost"} /\ marking.of \in PageMessage \cup {NoMessage}

(* One poll timer and one stream while the page is connected, none otherwise; a page that is *)
(* not connected has a request or a timer that will connect it, a connected one has none.     *)
OneFeed ==
    /\ pageState = "connected" => ~bootstrapping /\ ~retryTimer
    /\ pollers = (IF pageState = "connected" THEN 1 ELSE 0)
    /\ pageState # "connected" => eventSource = "none" /\ (bootstrapping \/ retryTimer)
=============================================================================
