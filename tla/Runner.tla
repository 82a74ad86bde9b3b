-------------------------------- MODULE Runner --------------------------------
(***************************************************************************)
(* The workspace of a task (agent/src/runner.ts LocalRunner): the session  *)
(* its calls share, their processes, and their page in the one browser;    *)
(* and how it is closed while calls are under way: when the task ends, by  *)
(* the reaper, and when the agent stops.  One task is modelled.  Files are *)
(* left out.                                                               *)
(***************************************************************************)
EXTENDS Integers, FiniteSets

CONSTANTS
    RunnerCall,    \* calls of the task's tools
    Process,       \* the processes they start
    MaxWorkspaces    \* bound: sessions of the task

ASSUME RunnerAssumption == MaxWorkspaces \in Nat

VARIABLES
    taskEnded,
    workspace,       \* the task's entry in sessions
    closing,       \* how far close() is, or "no"
    process,       \* the jobs of the session
    runnerCall,    \* the calls under way
    aborted,       \* calls whose signal is aborted
    taskPage,          \* session.page: "none", "browser" or "context" while it is made, "open"
    context,       \* is there a browser context?
    theBrowser,
    disposal

runnerVars == <<taskEnded, workspace, closing, process, runnerCall, aborted, taskPage, context, theBrowser, disposal>>

NoSession == [at |-> "none", id |-> 0]
NoWorkspaceCall == [at |-> "idle", id |-> 0]
InState(c, s) == runnerCall[c].at = s
Ended(cs) == [c \in RunnerCall |-> IF c \in cs THEN [runnerCall[c] EXCEPT !.at = "over"] ELSE runnerCall[c]]

RunnerInit ==
    /\ taskEnded = FALSE /\ workspace = NoSession /\ closing = "no"
    /\ process = [j \in Process |-> "none"]
    /\ runnerCall = [c \in RunnerCall |-> NoWorkspaceCall] /\ aborted = {}
    /\ taskPage = "none" /\ context = FALSE /\ theBrowser = "none" /\ disposal = "no"

-----------------------------------------------------------------------------
(* Calls. *)

(* session(): refused once the runner has stopped and while the workspace is closing. *)
CallArrives(c) ==
    /\ InState(c, "idle") /\ ~taskEnded
    /\ IF disposal # "no" \/ closing # "no"
         THEN runnerCall' = Ended({c}) /\ UNCHANGED workspace
         ELSE /\ workspace.at = "none" => workspace.id < MaxWorkspaces
              /\ workspace' = IF workspace.at = "none" THEN [at |-> "creating", id |-> workspace.id + 1] ELSE workspace
              /\ runnerCall' = [runnerCall EXCEPT ![c] = [at |-> "entering", id |-> workspace'.id]]
    /\ UNCHANGED <<taskEnded, closing, process, aborted, taskPage, context, theBrowser, disposal>>

SessionCreated ==
    /\ workspace.at = "creating"
    /\ workspace' = [workspace EXCEPT !.at = "open"]
    /\ UNCHANGED <<taskEnded, closing, process, runnerCall, aborted, taskPage, context, theBrowser, disposal>>

(* Its calls fail, and so does a close() that waits for it: a next call tries again. *)
SessionFails ==
    /\ workspace.at = "creating"
    /\ workspace' = [workspace EXCEPT !.at = "none"] /\ closing' = "no"
    /\ runnerCall' = Ended({c \in RunnerCall : InState(c, "entering") /\ runnerCall[c].id = workspace.id})
    /\ UNCHANGED <<taskEnded, process, aborted, taskPage, context, theBrowser, disposal>>

MayEnter(c) == workspace.at = "open" /\ runnerCall[c].id = workspace.id /\ c \notin aborted
Entering(c) == InState(c, "entering") /\ workspace.at # "creating"

TurnedAway(c) ==
    /\ Entering(c) /\ ~MayEnter(c)
    /\ runnerCall' = Ended({c})
    /\ UNCHANGED <<taskEnded, workspace, closing, process, aborted, taskPage, context, theBrowser, disposal>>

(* execute(): two processes at most. *)
Execute(c, j) ==
    /\ Entering(c) /\ MayEnter(c) /\ process[j] = "none"
    /\ Cardinality({i \in Process : process[i] \in {"running", "killed"}}) < 2
    /\ process' = [process EXCEPT ![j] = "running"]
    /\ runnerCall' = Ended({c})
    /\ UNCHANGED <<taskEnded, workspace, closing, aborted, taskPage, context, theBrowser, disposal>>

(* getPage(): the browser is launched and the context is made once, for all that wait. *)
Browse(c) ==
    /\ Entering(c) /\ MayEnter(c)
    /\ runnerCall' = [runnerCall EXCEPT ![c].at = "browsing"]
    /\ taskPage' = IF taskPage = "none" THEN "browser" ELSE taskPage
    /\ theBrowser' = IF taskPage = "none" /\ theBrowser = "none" THEN "launching" ELSE theBrowser
    /\ UNCHANGED <<taskEnded, workspace, closing, process, aborted, context, disposal>>

(* Navigates, clicks and reads the page; all of them fail when the page is gone. *)
BrowseEnds(c) ==
    /\ InState(c, "browsing") /\ taskPage \in {"open", "none"}
    /\ runnerCall' = Ended({c})
    /\ IF c \in aborted THEN context' = FALSE /\ taskPage' = "none" ELSE UNCHANGED <<context, taskPage>>
    /\ UNCHANGED <<taskEnded, workspace, closing, process, aborted, theBrowser, disposal>>

(* The signal of a call closes the context the call shares with others, if there is one yet. *)
AbortCall(c) ==
    /\ c \notin aborted /\ ~InState(c, "over")
    /\ aborted' = aborted \cup {c}
    /\ IF InState(c, "browsing") /\ context THEN context' = FALSE /\ taskPage' = "none" ELSE UNCHANGED <<context, taskPage>>
    /\ UNCHANGED <<taskEnded, workspace, closing, process, runnerCall, theBrowser, disposal>>

-----------------------------------------------------------------------------
(* Processes and the browser. *)

(* It ends, or is killed: by its timeout, for its output, or with the run that started it. *)
ProcessEnds(j) ==
    /\ process[j] \in {"running", "killed"}
    /\ process' = [process EXCEPT ![j] = "over"]
    /\ UNCHANGED <<taskEnded, workspace, closing, runnerCall, aborted, taskPage, context, theBrowser, disposal>>

BrowserLaunched ==
    /\ theBrowser = "launching"
    /\ \/ theBrowser' = "up" /\ UNCHANGED taskPage
       \/ theBrowser' = "none" /\ taskPage' = IF taskPage = "browser" THEN "none" ELSE taskPage
    /\ UNCHANGED <<taskEnded, workspace, closing, process, runnerCall, aborted, context, disposal>>

(* A session that was closed meanwhile gets no context, or has it closed again. *)
PageGoesOn ==
    /\ \/ /\ taskPage = "browser" /\ theBrowser = "up"
          /\ taskPage' = IF workspace.at = "open" THEN "context" ELSE "none"
          /\ UNCHANGED context
       \/ /\ taskPage = "context"
          /\ taskPage' = IF workspace.at = "open" THEN "open" ELSE "none"
          /\ context' = (workspace.at = "open")
    /\ UNCHANGED <<taskEnded, workspace, closing, process, runnerCall, aborted, theBrowser, disposal>>

BrowserCrashes ==
    /\ theBrowser = "up" /\ disposal = "no"
    /\ theBrowser' = "none" /\ context' = FALSE /\ taskPage' = "none"
    /\ UNCHANGED <<taskEnded, workspace, closing, process, runnerCall, aborted, disposal>>

-----------------------------------------------------------------------------
(* close(), one at a time for a task; reap() and dispose(). *)

TaskEnds ==
    /\ ~taskEnded
    /\ taskEnded' = TRUE
    /\ UNCHANGED <<workspace, closing, process, runnerCall, aborted, taskPage, context, theBrowser, disposal>>

(* Every ten seconds the reaper closes what belongs to no active task. *)
Reapable == taskEnded \/ disposal # "no"

CloseStarts ==
    /\ closing = "no" /\ workspace.at # "none" /\ Reapable
    /\ closing' = "session"
    /\ UNCHANGED <<taskEnded, workspace, process, runnerCall, aborted, taskPage, context, theBrowser, disposal>>

CloseMarks ==
    /\ closing = "session" /\ workspace.at = "open"
    /\ workspace' = [workspace EXCEPT !.at = "closed"]
    /\ process' = [j \in Process |-> IF process[j] = "running" THEN "killed" ELSE process[j]]
    /\ closing' = "processes"
    /\ UNCHANGED <<taskEnded, runnerCall, aborted, taskPage, context, theBrowser, disposal>>

\* Mutant: a killed process is not waited for.
ProcessesOver_Killed == \A j \in Process : process[j] # "running"

ProcessesOver == \A j \in Process : process[j] \in {"none", "over"}

CloseWaits ==
    /\ closing = "processes" /\ ProcessesOver
    /\ closing' = "page"
    /\ UNCHANGED <<taskEnded, workspace, process, runnerCall, aborted, taskPage, context, theBrowser, disposal>>

(* A page that is being made is waited for; the workspace is removed and the session forgotten. *)
CloseEnds ==
    /\ closing = "page" /\ taskPage \in {"none", "open"}
    /\ context' = FALSE /\ taskPage' = "none"
    /\ workspace' = [workspace EXCEPT !.at = "none"]
    /\ process' = [j \in Process |-> IF process[j] = "over" THEN "none" ELSE process[j]]
    /\ closing' = "no"
    /\ UNCHANGED <<taskEnded, runnerCall, aborted, theBrowser, disposal>>

Dispose ==
    /\ disposal = "no"
    /\ disposal' = "reaping"
    /\ UNCHANGED <<taskEnded, workspace, closing, process, runnerCall, aborted, taskPage, context, theBrowser>>

(* With the sessions closed, the browser is. *)
Disposed ==
    /\ disposal = "reaping" /\ workspace.at = "none" /\ closing = "no" /\ theBrowser # "launching"
    /\ theBrowser' = "none" /\ disposal' = "done"
    /\ UNCHANGED <<taskEnded, workspace, closing, process, runnerCall, aborted, taskPage, context>>

CloseSteps == CloseStarts \/ CloseMarks \/ CloseWaits \/ CloseEnds \/ Disposed
OutsideWorld == SessionCreated \/ SessionFails \/ BrowserLaunched \/ PageGoesOn

RunnerNext ==
    \/ \E c \in RunnerCall : CallArrives(c) \/ TurnedAway(c) \/ Browse(c) \/ BrowseEnds(c) \/ AbortCall(c)
    \/ \E c \in RunnerCall, j \in Process : Execute(c, j)
    \/ \E j \in Process : ProcessEnds(j)
    \/ SessionCreated \/ SessionFails \/ BrowserLaunched \/ PageGoesOn \/ BrowserCrashes
    \/ TaskEnds \/ CloseStarts \/ CloseMarks \/ CloseWaits \/ CloseEnds \/ Dispose \/ Disposed

(* Directories and browsers are made or fail; a process ends, at its timeout or killed. *)
RunnerSpec ==
    /\ RunnerInit /\ [][RunnerNext]_runnerVars
    /\ WF_runnerVars(CloseSteps) /\ WF_runnerVars(OutsideWorld)
    /\ \A j \in Process : WF_runnerVars(ProcessEnds(j))

-----------------------------------------------------------------------------
RunnerTypeOK ==
    /\ workspace.at \in {"none", "creating", "open", "closed"} /\ workspace.id \in 0..MaxWorkspaces
    /\ closing \in {"no", "session", "processes", "page"} /\ process \in [Process -> {"none", "running", "killed", "over"}]
    /\ taskPage \in {"none", "browser", "context", "open"} /\ theBrowser \in {"none", "launching", "up"}
    /\ disposal \in {"no", "reaping", "done"}

(* A workspace that is gone has left no process and no browser context behind, and a *)
(* runner that has stopped no session and no browser.                                *)
NothingRunsOn ==
    /\ workspace.at = "none" => ~context /\ \A j \in Process : process[j] \notin {"running", "killed"}
    /\ disposal = "done" => workspace.at = "none" /\ theBrowser = "none"
=============================================================================
