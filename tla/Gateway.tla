------------------------------- MODULE Gateway -------------------------------
(***************************************************************************)
(* Starting, watching and stopping the scan loop: run, status and stop of  *)
(* library/src/payment_gateway.rs.  A gateway is shared by any number of   *)
(* callers; they meet at an asynchronous mutex around the handle of the    *)
(* scan task and at a channel of Stop messages that all scan tasks read.   *)
(*                                                                         *)
(* stop keeps the mutex until it has joined the task (the guard is a       *)
(* temporary of its match); run takes it twice, for the check and for      *)
(* storing the handle.                                                     *)
(*                                                                         *)
(* The scan task, Scanner::new in run, and daemon_height all use the one   *)
(* RpcClient.  A scan is any number of its calls, and the task looks for a *)
(* Stop only between two scans.                                            *)
(***************************************************************************)
EXTENDS RpcClient

CONSTANTS
    Caller,     \* users of the gateway
    Runner,     \* those among them that call run
    MaxTasks,   \* bound: scan tasks spawned
    MaxPanics,  \* bound: scan tasks that panic
    Sizes,      \* how many things a scan may ask the daemon for
    None        \* stands for "no caller"

ASSUME GatewayAssumption ==
    /\ Runner \subseteq Caller /\ IsFiniteSet(Runner)
    /\ MaxTasks \in Nat
    /\ MaxPanics \in Nat
    /\ Sizes \subseteq 0..MaxSize
    /\ Requester = Caller \cup (1..MaxTasks)
    /\ None \notin Caller

VARIABLES
    pc,         \* where each caller is
    own,        \* the task that a caller has spawned or joins, 0 for none
    holder,     \* who holds the mutex across an await
    handle,     \* scanner_handle: a task, or 0 for none
    task,       \* the state of each task spawned so far
    spawned,    \* how many tasks were spawned
    stops,      \* Stop messages in the channel
    panics      \* tasks that have panicked

gatewayVars == <<pc, own, holder, handle, task, spawned, stops, panics>>
vars == <<gatewayVars, rpcVars>>

Task == 1..MaxTasks

(* run: about to take the mutex for the check; create: in Scanner::new;    *)
(* store: the task is spawned, about to take the mutex for its handle.     *)
(* height: in daemon_height.                                               *)
(* status, stop: about to take the mutex; relock: status waits for the     *)
(* mutex that it holds itself; join: stop waits for the task to end.       *)
Places == {"idle", "run", "create", "store", "status", "relock", "stop", "join",
           "height"}

TypeOK ==
    /\ RpcTypeOK
    /\ pc \in [Caller -> Places]
    /\ own \in [Caller -> 0..MaxTasks]
    /\ holder \in Caller \cup {None}
    /\ handle \in 0..MaxTasks
    /\ task \in [Task -> {"unborn", "running", "finished"}]
    /\ spawned \in 0..MaxTasks
    /\ stops \in Nat
    /\ panics \in 0..MaxPanics

Init ==
    /\ RpcInit
    /\ pc = [c \in Caller |-> "idle"]
    /\ own = [c \in Caller |-> 0]
    /\ holder = None
    /\ handle = 0
    /\ task = [t \in Task |-> "unborn"]
    /\ spawned = 0
    /\ stops = 0
    /\ panics = 0

Goto(c, place) == pc' = [pc EXCEPT ![c] = place]

HandleRuns == handle # 0 /\ task[handle] = "running"

Call(c, place) ==
    /\ pc[c] = "idle"
    /\ Goto(c, place)
    /\ UNCHANGED <<own, holder, handle, task, spawned, stops, panics, rpcVars>>

-----------------------------------------------------------------------------
(* Defect: no check.                                                       *)
RunUnchecked(c) ==
    /\ pc[c] = "run"
    /\ holder = None
    /\ Goto(c, "create")
    /\ UNCHANGED <<own, holder, handle, task, spawned, stops, panics, rpcVars>>

(* run: AlreadyRunning if the handle's task has not finished.              *)
RunCheck(c) ==
    /\ pc[c] = "run"
    /\ holder = None
    /\ Goto(c, IF HandleRuns THEN "idle" ELSE "create")
    /\ UNCHANGED <<own, holder, handle, task, spawned, stops, panics, rpcVars>>

(* Scanner::new calls the daemon, once or again; without the mutex.        *)
RunCalls(c) ==
    /\ pc[c] = "create"
    /\ \E n \in Sizes : Begin(c, n)
    /\ UNCHANGED gatewayVars

(* Such a call or the database fails, and run returns the error ...        *)
RunFails(c) ==
    /\ pc[c] = "create"
    /\ at[c] \in {"idle", "ok", "failed"}
    /\ Goto(c, "idle")
    /\ Close(c)
    /\ UNCHANGED <<own, holder, handle, task, spawned, stops, panics>>

(* ... or the task is spawned.                                             *)
RunSpawn(c) ==
    /\ pc[c] = "create"
    /\ at[c] = "ok"
    /\ Close(c)
    /\ spawned < MaxTasks
    /\ spawned' = spawned + 1
    /\ task' = [task EXCEPT ![spawned + 1] = "running"]
    /\ own' = [own EXCEPT ![c] = spawned + 1]
    /\ Goto(c, "store")
    /\ UNCHANGED <<holder, handle, stops, panics>>

(* The handle takes the place of the old one, whose task is let go of.     *)
RunStore(c) ==
    /\ pc[c] = "store"
    /\ holder = None
    /\ handle' = own[c]
    /\ own' = [own EXCEPT ![c] = 0]
    /\ Goto(c, "idle")
    /\ UNCHANGED <<holder, task, spawned, stops, panics, rpcVars>>

(* status answers at once, or goes on to lock the mutex a second time when *)
(* the handle's task has finished; it has not let go of it.                *)
StatusLook(c) ==
    /\ pc[c] = "status"
    /\ holder = None
    /\ IF handle # 0 /\ ~HandleRuns
       THEN holder' = c /\ Goto(c, "relock")
       ELSE UNCHANGED holder /\ Goto(c, "idle")
    /\ UNCHANGED <<own, handle, task, spawned, stops, panics, rpcVars>>

(* Defects: does not wait for the task; sends a Stop to a task that has    *)
(* ended; sends none.                                                      *)
StopTakeNoJoin(c) ==
    /\ pc[c] = "stop"
    /\ holder = None
    /\ handle' = 0
    /\ stops' = IF HandleRuns THEN stops + 1 ELSE stops
    /\ Goto(c, "idle")
    /\ UNCHANGED <<own, holder, task, spawned, panics, rpcVars>>
StopTakeAlways(c) ==
    /\ pc[c] = "stop"
    /\ holder = None
    /\ handle' = 0
    /\ stops' = stops + 1
    /\ IF HandleRuns
       THEN own' = [own EXCEPT ![c] = handle] /\ holder' = c /\ Goto(c, "join")
       ELSE Goto(c, "idle") /\ UNCHANGED <<own, holder>>
    /\ UNCHANGED <<task, spawned, panics, rpcVars>>
StopTakeSilent(c) ==
    /\ pc[c] = "stop"
    /\ holder = None
    /\ handle' = 0
    /\ IF HandleRuns
       THEN own' = [own EXCEPT ![c] = handle] /\ holder' = c /\ Goto(c, "join")
       ELSE Goto(c, "idle") /\ UNCHANGED <<own, holder>>
    /\ UNCHANGED <<task, spawned, stops, panics, rpcVars>>

(* stop takes the handle out; a task that is running gets a Stop.          *)
StopTake(c) ==
    /\ pc[c] = "stop"
    /\ holder = None
    /\ handle' = 0
    /\ IF HandleRuns
       THEN /\ stops' = stops + 1
            /\ own' = [own EXCEPT ![c] = handle]
            /\ holder' = c
            /\ Goto(c, "join")
       ELSE Goto(c, "idle") /\ UNCHANGED <<stops, own, holder>>
    /\ UNCHANGED <<task, spawned, panics, rpcVars>>

StopJoined(c) ==
    /\ pc[c] = "join"
    /\ task[own[c]] = "finished"
    /\ own' = [own EXCEPT ![c] = 0]
    /\ holder' = None
    /\ Goto(c, "idle")
    /\ UNCHANGED <<handle, task, spawned, stops, panics, rpcVars>>

(* daemon_height asks the daemon, past the mutex and the scan task.        *)
HeightAsks(c) ==
    /\ pc[c] = "idle"
    /\ Begin(c, 1)
    /\ Goto(c, "height")
    /\ UNCHANGED <<own, holder, handle, task, spawned, stops, panics>>

HeightAnswered(c) ==
    /\ pc[c] = "height"
    /\ at[c] \in {"ok", "failed"}
    /\ Close(c)
    /\ Goto(c, "idle")
    /\ UNCHANGED <<own, holder, handle, task, spawned, stops, panics>>

-----------------------------------------------------------------------------
(* Defect: takes an empty channel for a Stop.                              *)
TaskStopsOnEmpty(t) ==
    /\ task[t] = "running"
    /\ at[t] = "idle"
    /\ stops' = stops - 1
    /\ task' = [task EXCEPT ![t] = "finished"]
    /\ UNCHANGED <<pc, own, holder, handle, spawned, panics, rpcVars>>

(* Before every scan the task looks into the channel.                      *)
TaskStops(t) ==
    /\ task[t] = "running"
    /\ at[t] = "idle"
    /\ stops > 0
    /\ stops' = stops - 1
    /\ task' = [task EXCEPT ![t] = "finished"]
    /\ UNCHANGED <<pc, own, holder, handle, spawned, panics, rpcVars>>

(* A scan goes to the daemon; whether it fails is only logged.             *)
TaskScans(t) ==
    /\ task[t] = "running"
    /\ stops = 0
    /\ \E n \in Sizes : Begin(t, n)
    /\ UNCHANGED gatewayVars

TaskScanned(t) ==
    /\ task[t] = "running"
    /\ at[t] \in {"ok", "failed"}
    /\ Close(t)
    /\ UNCHANGED gatewayVars

TaskPanics(t) ==
    /\ task[t] = "running"
    /\ Close(t)
    /\ panics < MaxPanics
    /\ panics' = panics + 1
    /\ task' = [task EXCEPT ![t] = "finished"]
    /\ UNCHANGED <<pc, own, holder, handle, spawned, stops>>

CallerStep(c) ==
    \/ RunCheck(c) \/ RunCalls(c) \/ RunFails(c) \/ RunSpawn(c) \/ RunStore(c)
    \/ StatusLook(c)
    \/ StopTake(c) \/ StopJoined(c)
    \/ HeightAnswered(c)

Request(r) == RpcStep(r) /\ UNCHANGED gatewayVars

Next ==
    \/ \E c \in Runner : Call(c, "run")
    \/ \E c \in Caller : Call(c, "status") \/ Call(c, "stop") \/ HeightAsks(c) \/ CallerStep(c)
    \/ \E t \in Task : TaskStops(t) \/ TaskScans(t) \/ TaskScanned(t) \/ TaskPanics(t)
    \/ \E r \in Requester : Request(r)

(* The runtime polls every task that can go on.  The mutex is handed to    *)
(* waiters in turn, so whoever waits for it gets it if it is free again    *)
(* and again: strong fairness.  A request goes on by the client's own work *)
(* or its time limit; whether the daemon ever sends the rest of a body is  *)
(* left open by NeverEnds.                                                 *)
Spec ==
    /\ Init /\ [][Next]_vars
    /\ \A c \in Caller : SF_vars(CallerStep(c))
    /\ \A t \in Task : WF_vars(TaskStops(t)) /\ WF_vars(TaskScanned(t))
    /\ \A r \in Requester : WF_vars(Request(r))

-----------------------------------------------------------------------------
(***************************************************************************)
(* Properties.                                                             *)
(***************************************************************************)
(* There is never more than one scan task at work as long as only one of   *)
(* the callers calls run, whatever the others stop and look at meanwhile:  *)
(* two scanners would overwrite each other's invoices.                     *)
OneScanner ==
    Cardinality(Runner) <= 1 =>
        \A t, u \in Task : (task[t] = "running" /\ task[u] = "running") => t = u

(* A task at work can be stopped: its handle is stored, or about to be, or *)
(* a stop call has it and waits for it.                                    *)
NoOrphan ==
    Cardinality(Runner) <= 1 =>
        \A t \in Task : task[t] = "running" =>
            handle = t \/ \E c \in Caller : pc[c] \in {"store", "join"} /\ own[c] = t

(* As long as no task panics, a Stop in the channel is meant for a task at *)
(* work that a stop call waits for: none is left over for the next task.   *)
StopHasTarget ==
    (panics = 0 /\ stops > 0) =>
        \E c \in Caller : pc[c] = "join" /\ task[own[c]] = "running"

(* Every call returns, through panics, refused and lost requests and calls *)
(* that overlap, unless a status call has come upon a task that has        *)
(* finished, or a request never ends: the caller's own or that of a scan.  *)
(* What another caller asks the daemon for holds nobody up.                *)
CallsReturn ==
    \A c \in Caller : (pc[c] # "idle") ~>
        \/ pc[c] = "idle"
        \/ \E d \in Caller : pc[d] = "relock"
        \/ \E r \in Task \cup {c} : at[r] = "hung"

(* A call of status comes back with an answer, unless a scan never ends    *)
(* and with it the stop call that holds the mutex.                         *)
StatusReturns ==
    \A c \in Caller : (pc[c] = "status") ~> (pc[c] = "idle" \/ \E t \in Task : at[t] = "hung")
=============================================================================
