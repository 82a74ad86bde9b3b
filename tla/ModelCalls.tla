------------------------------ MODULE ModelCalls ------------------------------
(***************************************************************************)
(* Calls of the language models.  The primary provider is asked first - by *)
(* a process of its own, with a folder of its own -; when it fails, the    *)
(* call goes to the fallback, and so do those of the minute that follows.  *)
(* Several tasks call at a time, and a task may be cancelled at any time.  *)
(***************************************************************************)
EXTENDS Integers, FiniteSets

CONSTANTS
    ModelCall,     \* calls
    Cooldown,      \* ticks the primary provider is left alone for after a failure
    HasFallback,   \* a fallback is configured
    MaxModelClock  \* bound: ticks

ASSUME ModelCallsAssumption == HasFallback \in BOOLEAN /\ Cooldown \in Nat \ {0} /\ MaxModelClock \in Nat

VARIABLES
    modelClock,
    unavailableUntil,
    callPhase,    \* idle, primary, fallback; answered, failed, cancelled
    callAborted,  \* calls whose task was cancelled
    child,        \* calls whose process runs
    pipes,        \* calls whose process, or one it started, holds its output open
    folders,      \* calls whose temporary folder is there
    failedAt,     \* time of the last failure of the primary provider that sent a call to the fallback
    underWay,     \* calls that were with the primary provider when that failure came
    lifting,      \* calls that brought an answer of it within the minute since
    tooEarly,     \* calls that began with it in that minute before any such answer
    lateFallback  \* calls that went to the fallback after they had been cancelled

modelVars == <<modelClock, unavailableUntil, callPhase, callAborted, child, pipes, folders, failedAt, underWay, lifting, tooEarly, lateFallback>>

NotFailed == -1
CallOver(c) == callPhase[c] \in {"answered", "failed", "cancelled"}

ModelInit ==
    /\ modelClock = 0 /\ unavailableUntil = 0 /\ callPhase = [c \in ModelCall |-> "idle"]
    /\ callAborted = {} /\ child = {} /\ pipes = {} /\ folders = {}
    /\ failedAt = NotFailed /\ underWay = {} /\ lifting = {} /\ tooEarly = {} /\ lateFallback = {}

WithPrimary == {c \in ModelCall : callPhase[c] = "primary"}
ItsMinute == failedAt # NotFailed /\ modelClock < failedAt + Cooldown

-----------------------------------------------------------------------------
Goes(c, phase) == callPhase' = [callPhase EXCEPT ![c] = phase]

(* complete(): the primary provider, unless it has failed within the last minute. *)
PrimaryIsTried == modelClock >= unavailableUntil \/ ~HasFallback

BeginCall(c) ==
    /\ callPhase[c] = "idle"
    /\ IF PrimaryIsTried
       THEN /\ Goes(c, "primary") /\ folders' = folders \cup {c}
            /\ child' = child \cup {c} /\ pipes' = pipes \cup {c}
            /\ tooEarly' = IF ItsMinute /\ lifting = {} THEN tooEarly \cup {c} ELSE tooEarly
       ELSE Goes(c, "fallback") /\ UNCHANGED <<folders, child, pipes, tooEarly>>
    /\ UNCHANGED <<modelClock, unavailableUntil, callAborted, failedAt, underWay, lifting, lateFallback>>

(* The task is cancelled: the process is killed. *)
AbortModelCall(c) ==
    /\ callPhase[c] \in {"primary", "fallback"} /\ c \notin callAborted
    /\ callAborted' = callAborted \cup {c} /\ child' = child \ {c}
    /\ UNCHANGED <<modelClock, unavailableUntil, callPhase, pipes, folders, failedAt, underWay, lifting, tooEarly, lateFallback>>

(* The process exits, or is killed when its time is over or it says too much. *)
ChildExits(c) ==
    /\ c \in child /\ child' = child \ {c}
    /\ UNCHANGED <<modelClock, unavailableUntil, callPhase, callAborted, pipes, folders, failedAt, underWay, lifting, tooEarly, lateFallback>>

(* What it started may outlive it. *)
PipesClose(c) ==
    /\ c \in pipes \ child /\ pipes' = pipes \ {c}
    /\ UNCHANGED <<modelClock, unavailableUntil, callPhase, callAborted, child, folders, failedAt, underWay, lifting, tooEarly, lateFallback>>

Killed(c) == {c}

(* However the call of the primary provider ends, its process is killed and its folder removed. *)
CleanUp(c) == child' = child \ Killed(c) /\ folders' = folders \ {c}

PrimaryAnswers(c) ==
    /\ callPhase[c] = "primary" /\ c \notin pipes /\ c \notin callAborted
    /\ Goes(c, "answered") /\ CleanUp(c)
    /\ unavailableUntil' = 0 /\ lifting' = IF ItsMinute THEN lifting \cup {c} ELSE lifting
    /\ UNCHANGED <<modelClock, callAborted, pipes, failedAt, underWay, tooEarly, lateFallback>>

CallsOff(c) == c \in callAborted

OpenUntil == modelClock + Cooldown

(* Its process or its answer is not what it should be, or says too much before it has ended: the *)
(* fallback, if there is one - but not for a task that was cancelled.                              *)
PrimaryFails(c) ==
    /\ callPhase[c] = "primary" /\ (c \notin pipes \/ c \in child) /\ CleanUp(c)
    /\ IF CallsOff(c)
       THEN Goes(c, "cancelled") /\ UNCHANGED <<unavailableUntil, failedAt, underWay, lifting, lateFallback>>
       ELSE IF ~HasFallback
       THEN Goes(c, "failed") /\ UNCHANGED <<unavailableUntil, failedAt, underWay, lifting, lateFallback>>
       ELSE /\ Goes(c, "fallback")
            /\ unavailableUntil' = OpenUntil
            /\ failedAt' = modelClock /\ underWay' = WithPrimary \ {c} /\ lifting' = {}
            /\ lateFallback' = lateFallback \cup (callAborted \cap {c})
    /\ pipes' = pipes \ {c}
    /\ UNCHANGED <<modelClock, callAborted, tooEarly>>

(* A request: what arrives is returned, even to a task that was cancelled since. *)
FallbackEnds(c, answered) ==
    /\ callPhase[c] = "fallback"
    /\ Goes(c, IF answered THEN "answered" ELSE IF c \in callAborted THEN "cancelled" ELSE "failed")
    /\ UNCHANGED <<modelClock, unavailableUntil, callAborted, child, pipes, folders, failedAt, underWay, lifting, tooEarly, lateFallback>>

ModelTick ==
    /\ modelClock < MaxModelClock /\ modelClock' = modelClock + 1
    /\ UNCHANGED <<unavailableUntil, callPhase, callAborted, child, pipes, folders, failedAt, underWay, lifting, tooEarly, lateFallback>>

ModelNext ==
    \/ ModelTick
    \/ \E c \in ModelCall :
          \/ BeginCall(c) \/ AbortModelCall(c) \/ ChildExits(c) \/ PipesClose(c) \/ PrimaryAnswers(c) \/ PrimaryFails(c)
          \/ \E answered \in BOOLEAN : FallbackEnds(c, answered)

ModelSpec == ModelInit /\ [][ModelNext]_modelVars

-----------------------------------------------------------------------------
ModelTypeOK ==
    /\ modelClock \in 0..MaxModelClock /\ unavailableUntil \in Nat
    /\ callPhase \in [ModelCall -> {"idle", "primary", "fallback", "answered", "failed", "cancelled"}]
    /\ callAborted \subseteq ModelCall /\ child \subseteq pipes /\ folders \subseteq ModelCall

(* In the minute after a failure no call begins with the primary provider, however calls    *)
(* overlap, unless the provider has answered since; and the first to bring such an answer is *)
(* a call that was under way when the failure came (models.ts:346 lifts the rest then, old   *)
(* as that call may be).  When the minute is over the provider is tried again.               *)
TheBreakerHolds ==
    /\ tooEarly = {}
    /\ lifting # {} => lifting \cap underWay # {}
    /\ failedAt # NotFailed /\ ~ItsMinute => PrimaryIsTried

(* A task that was cancelled while the primary provider was asked does not go to the fallback. *)
CancelledIsNotRetried == lateFallback = {}

(* A call that is over, or with the fallback, leaves no process and no folder of the first attempt. *)
NothingIsLeftBehind == \A c \in ModelCall : callPhase[c] # "primary" => c \notin child \cup folders
===============================================================================
