------------------------------- MODULE Notices -------------------------------
(***************************************************************************)
(* An update on its way to the wearer.  The agent keeps it until it is     *)
(* acknowledged, expires or is withdrawn (agent/src/store.ts); it is       *)
(* streamed to the page (agent/src/server.ts, memory/client agentFeed.ts)  *)
(* and pushed to the device (module WebPush), whose worker shows a    *)
(* banner and tells the page (memory/public/sw.js, main.ts).               *)
(***************************************************************************)
EXTENDS Integers, FiniteSets

CONSTANTS
    Notice,
    MaxBreaks     \* bound: streams that break, answers that are lost, pages that are left or closed

ASSUME NoticeAssumption == MaxBreaks \in Nat

VARIABLES
    notice,       \* the state of each notification
    pushed,       \* pushes on their way to the device
    banner,       \* banners the device shows
    posted,       \* messages of the worker to the page
    page,         \* "closed", "hidden", or in front with the Live view or with another one
    shown,        \* the notifications the page lists
    ackedHere,    \* the ones it shows as acknowledged
    acking,       \* acknowledgements under way
    stream,       \* is the event stream open, and what it has sent
    seenByWearer,         \* notifications whose row was before the wearer's eyes (for the properties)
    breaks        \* what has failed so far

noticeVars == <<notice, pushed, banner, posted, page, shown, ackedHere, acking, stream, seenByWearer, breaks>>

Break == breaks < MaxBreaks /\ breaks' = breaks + 1
InFront == page \in {"live", "other"}

(* notifications(owner): what is pending, not expired, and rests on current evidence. *)
Current == {n \in Notice : notice[n] = "pending"}

NoticesInit ==
    /\ notice = [n \in Notice |-> "none"]
    /\ pushed = {} /\ banner = {} /\ posted = {}
    /\ page = "closed" /\ shown = {} /\ ackedHere = {} /\ acking = {} /\ stream = [up |-> FALSE, sent |-> {}]
    /\ seenByWearer = {} /\ breaks = 0

-----------------------------------------------------------------------------
(* The agent and the device. *)

Notify(n) ==
    /\ notice[n] = "none"
    /\ notice' = [notice EXCEPT ![n] = "pending"]
    /\ UNCHANGED <<pushed, banner, posted, page, shown, ackedHere, acking, stream, seenByWearer, breaks>>

(* It expires, its task is cancelled, or what it rests on changes. *)
TakeBack(n) ==
    /\ notice[n] = "pending"
    /\ notice' = [notice EXCEPT ![n] = "withdrawn"]
    /\ UNCHANGED <<pushed, banner, posted, page, shown, ackedHere, acking, stream, seenByWearer, breaks>>

(* A push is begun while the notification is pending, and may be repeated. *)
Push(n) ==
    /\ n \in Current \ pushed
    /\ pushed' = pushed \cup {n}
    /\ UNCHANGED <<notice, banner, posted, page, shown, ackedHere, acking, stream, seenByWearer, breaks>>

(* The worker shows every push, then tells the page, and whether it was in front. *)
ShowBanner(n) ==
    /\ n \in pushed
    /\ pushed' = pushed \ {n}
    /\ banner' = banner \cup {n}
    /\ posted' = IF page = "closed" THEN posted ELSE posted \cup {[of |-> n, why |-> IF InFront THEN "in front" ELSE "hidden"]}
    /\ UNCHANGED <<notice, page, shown, ackedHere, acking, stream, seenByWearer, breaks>>

(* A push that cannot be shown is never acknowledged. *)
BannerFails(n) ==
    /\ n \in pushed
    /\ Break
    /\ pushed' = pushed \ {n}
    /\ posted' = IF page = "closed" THEN posted ELSE posted \cup {[of |-> n, why |-> "not shown"]}
    /\ UNCHANGED <<notice, banner, page, shown, ackedHere, acking, stream, seenByWearer>>

(* A click focuses the page, or opens it with the notification in its address. *)
Click(n) ==
    /\ n \in banner
    /\ banner' = banner \ {n}
    /\ posted' = posted \cup {[of |-> n, why |-> "opened"]}
    /\ IF page = "closed" THEN page' = "other" /\ shown' = Current ELSE UNCHANGED <<page, shown>>
    /\ UNCHANGED <<notice, pushed, ackedHere, acking, stream, seenByWearer, breaks>>

-----------------------------------------------------------------------------
(* The page. *)

\* Mutant: the worker's word that the page is in front is enough.
Displayed_InFront(m) == m.why = "in front" /\ InFront

(* Shown and in front, then and now, with the view that has the row. *)
Displayed(m) == m.why = "in front" /\ page = "live"

Message(m) ==
    LET opens == m.why = "opened" IN
    /\ page # "closed"
    /\ posted' = posted \ {m}
    /\ shown' = IF opens THEN shown ELSE shown \cup {m.of}
    /\ page' = IF opens THEN "live" ELSE page
    /\ seenByWearer' = IF opens \/ (page' = "live" /\ m.of \in shown') THEN seenByWearer \cup {m.of} ELSE seenByWearer
    /\ acking' = IF (opens \/ Displayed(m)) /\ m.of \notin ackedHere THEN acking \cup {m.of} ELSE acking
    /\ UNCHANGED <<notice, pushed, banner, ackedHere, stream, breaks>>

PressAck(n) ==
    /\ page = "live" /\ n \in shown \ (ackedHere \cup acking)
    /\ acking' = acking \cup {n}
    /\ seenByWearer' = seenByWearer \cup {n}
    /\ UNCHANGED <<notice, pushed, banner, posted, page, shown, ackedHere, stream, breaks>>

(* The agent acknowledges only what is pending. *)
Confirmed(n) == notice[n] = "pending"

(* The acknowledgement is handled; its answer may be lost.  The page believes only the answer. *)
Acknowledged(n) ==
    /\ acking' = acking \ {n}
    /\ notice' = [notice EXCEPT ![n] = IF @ = "pending" THEN "acked" ELSE @]
    /\ \/ /\ ackedHere' = IF Confirmed(n) THEN ackedHere \cup ({n} \cap shown) ELSE ackedHere
          /\ banner' = IF Confirmed(n) THEN banner \ {n} ELSE banner
          /\ UNCHANGED breaks
       \/ Break /\ UNCHANGED <<ackedHere, banner>>
    /\ UNCHANGED <<pushed, posted, page, shown, stream, seenByWearer>>

(* Every stream begins with everything that is pending. *)
FreshStream == stream' = [up |-> TRUE, sent |-> {}]

StreamOpens ==
    /\ page # "closed" /\ ~stream.up
    /\ FreshStream
    /\ UNCHANGED <<notice, pushed, banner, posted, page, shown, ackedHere, acking, seenByWearer, breaks>>

(* Every 100 ms the stream sends what is pending and was not sent on it; it may break under way. *)
StreamTick ==
    /\ stream.up /\ Current # stream.sent
    /\ \/ /\ shown' = shown \cup (Current \ stream.sent)
          /\ stream' = [stream EXCEPT !.sent = Current]
          /\ UNCHANGED breaks
       \/ /\ stream' = [up |-> FALSE, sent |-> Current]
          /\ UNCHANGED shown /\ Break
    /\ UNCHANGED <<notice, pushed, banner, posted, page, ackedHere, acking, seenByWearer>>

(* Opening the page, and coming back to it, load what is pending. *)
LookAt(view) ==
    /\ page # view
    /\ page' = view
    /\ shown' = IF InFront THEN shown ELSE shown \cup Current
    /\ seenByWearer' = IF view = "live" THEN seenByWearer \cup (shown' \cap acking) ELSE seenByWearer
    /\ UNCHANGED <<notice, pushed, banner, posted, ackedHere, acking, stream, breaks>>

Hide ==
    /\ InFront
    /\ page' = "hidden"
    /\ UNCHANGED <<notice, pushed, banner, posted, shown, ackedHere, acking, stream, seenByWearer, breaks>>

(* With the page its list is gone, and what it was told and had not handled; a   *)
(* request under way may still be handled, and nobody hears the answer.          *)
ClosePage ==
    /\ page # "closed" /\ Break
    /\ page' = "closed" /\ shown' = {} /\ ackedHere' = {} /\ posted' = {} /\ acking' = {}
    /\ stream' = [up |-> FALSE, sent |-> {}]
    /\ \E handled \in SUBSET acking :
          notice' = [n \in Notice |-> IF n \in handled /\ notice[n] = "pending" THEN "acked" ELSE notice[n]]
    /\ UNCHANGED <<pushed, banner, seenByWearer>>

NoticesNext ==
    \/ \E n \in Notice : Notify(n) \/ TakeBack(n) \/ Push(n) \/ ShowBanner(n) \/ BannerFails(n) \/ Click(n) \/ PressAck(n)
    \/ \E m \in posted : Message(m)
    \/ \E n \in acking : Acknowledged(n)
    \/ StreamOpens \/ StreamTick \/ Hide \/ ClosePage
    \/ \E view \in {"live", "other"} : LookAt(view)

(* The stream is reopened with a backoff and sends every 100 ms. *)
Streaming == StreamOpens \/ StreamTick

NoticesSpec == NoticesInit /\ [][NoticesNext]_noticeVars /\ WF_noticeVars(Streaming)

-----------------------------------------------------------------------------
NoticesTypeOK ==
    /\ notice \in [Notice -> {"none", "pending", "acked", "withdrawn"}]
    /\ posted \subseteq [of: Notice, why: {"in front", "hidden", "not shown", "opened"}]
    /\ page \in {"closed", "hidden", "live", "other"}
    /\ ackedHere \subseteq shown /\ stream.sent \subseteq Notice

(* An update is acknowledged only after its row was before the wearer's eyes or was *)
(* opened: never because a push arrived while the page was hidden, showed another   *)
(* view or could not show it; and the page shows it as acknowledged only if it is.  *)
AckedWasSeen == \A n \in Notice :
    /\ notice[n] = "acked" => n \in seenByWearer
    /\ n \in ackedHere => notice[n] = "acked"
=============================================================================
