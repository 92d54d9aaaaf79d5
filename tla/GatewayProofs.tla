---------------------------- MODULE GatewayProofs ----------------------------
(***************************************************************************)
(* For any number of callers, tasks, panics and requests: if one caller    *)
(* runs the gateway there is at most one scan task at work and it can be   *)
(* stopped, and no Stop is left over in the channel.                       *)
(***************************************************************************)
EXTENDS Gateway, RpcClientProofs, FiniteSetTheorems, TLAPS

(* The part of TypeOK that is about run, status and stop.                  *)
LoopTypeOK ==
    /\ pc \in [Caller -> Places]
    /\ own \in [Caller -> 0..MaxTasks]
    /\ holder \in Caller \cup {None}
    /\ handle \in 0..MaxTasks
    /\ task \in [Task -> {"unborn", "running", "finished"}]
    /\ spawned \in 0..MaxTasks
    /\ stops \in Nat
    /\ panics \in 0..MaxPanics

(* Who is in the middle of join or of the second lock holds the mutex.     *)
HolderWaits == \A c \in Caller : (holder = c) <=> (pc[c] \in {"relock", "join"})

OwnsTask == \A c \in Caller : pc[c] \in {"store", "join"} => own[c] \in Task

OnlyRunnersRun == \A c \in Caller : pc[c] \in {"run", "create", "store"} => c \in Runner

(* There is at most one Stop, and it is meant for the task that is joined. *)
StopsAreMeant == panics = 0 => stops <= 1 /\ StopHasTarget

MutexInv == LoopTypeOK /\ HolderWaits /\ OwnsTask /\ OnlyRunnersRun /\ StopsAreMeant

Running(t) == task[t] = "running"

(* Between the check and the new task nothing runs, and until its handle   *)
(* is stored nothing but the new task.                                     *)
NothingElseRuns ==
    \A c \in Caller :
        /\ pc[c] = "create" => \A t \in Task : ~Running(t)
        /\ pc[c] = "store" => \A t \in Task : Running(t) => t = own[c]

Single == \A t, u \in Task : (Running(t) /\ Running(u)) => t = u

Findable ==
    \A t \in Task : Running(t) =>
        handle = t \/ \E c \in Caller : pc[c] \in {"store", "join"} /\ own[c] = t

OneRunner == \A c, d \in Runner : c = d

LoopInv == NothingElseRuns /\ Single /\ Findable

-----------------------------------------------------------------------------
(* The steps of the requests leave the handle, the tasks and the callers   *)
(* alone.                                                                  *)
LEMMA Untouched ==
    ASSUME UNCHANGED gatewayVars
    PROVE  /\ MutexInv => MutexInv'
           /\ LoopInv => LoopInv'
    BY DEF gatewayVars, MutexInv, LoopTypeOK, HolderWaits, OwnsTask, OnlyRunnersRun, StopsAreMeant,
           StopHasTarget, LoopInv, NothingElseRuns, Single, Findable, Running

(* The state before the first call.                                        *)
LEMMA InitLoop == Init => MutexInv /\ LoopInv
<1> SUFFICES ASSUME Init PROVE MutexInv /\ LoopInv
    OBVIOUS
<1> USE GatewayAssumption
<1>1. LoopTypeOK
    BY DEF Init, LoopTypeOK, Places
<1>2. HolderWaits /\ OwnsTask /\ OnlyRunnersRun /\ StopsAreMeant
    BY DEF Init, HolderWaits, OwnsTask, OnlyRunnersRun, StopsAreMeant, StopHasTarget
<1>3. LoopInv
    BY DEF Init, LoopInv, NothingElseRuns, Single, Findable, Running
<1> QED
    BY <1>1, <1>2, <1>3 DEF MutexInv

(* A step that moves c to another place and changes neither the mutex nor  *)
(* what runs.                                                              *)
LEMMA MoveKeepsMutex ==
    ASSUME MutexInv, NEW c \in Caller, NEW place \in Places, Goto(c, place),
           pc[c] \notin {"relock", "join"}, place \notin {"relock", "join", "store"},
           place \in {"run", "create"} => c \in Runner,
           UNCHANGED <<own, holder, handle, task, spawned, stops, panics>>
    PROVE  MutexInv'
<1> USE GatewayAssumption
<1>1. LoopTypeOK /\ pc' = [pc EXCEPT ![c] = place]
    BY DEF MutexInv, Goto
<1>2. LoopTypeOK'
    BY <1>1 DEF LoopTypeOK
<1>3. HolderWaits' /\ OwnsTask' /\ OnlyRunnersRun'
    BY <1>1 DEF MutexInv, LoopTypeOK, HolderWaits, OwnsTask, OnlyRunnersRun
<1>4. StopsAreMeant'
    BY <1>1 DEF MutexInv, LoopTypeOK, StopsAreMeant, StopHasTarget
<1> QED
    BY <1>2, <1>3, <1>4 DEF MutexInv

(* run stores the handle and lets go of the task.                          *)
LEMMA RunStoreKeepsMutex ==
    ASSUME MutexInv, NEW c \in Caller, RunStore(c)
    PROVE  MutexInv'
<1> USE GatewayAssumption
<1>1. LoopTypeOK /\ pc' = [pc EXCEPT ![c] = "idle"] /\ own' = [own EXCEPT ![c] = 0]
    BY DEF MutexInv, Goto, RunStore
<1>2. LoopTypeOK'
    BY <1>1 DEF LoopTypeOK, RunStore, Places
<1>3. HolderWaits' /\ OwnsTask' /\ OnlyRunnersRun'
    BY <1>1 DEF MutexInv, LoopTypeOK, HolderWaits, OwnsTask, OnlyRunnersRun, RunStore
<1>4. StopsAreMeant'
    BY <1>1 DEF MutexInv, LoopTypeOK, StopsAreMeant, StopHasTarget, RunStore
<1> QED
    BY <1>2, <1>3, <1>4 DEF MutexInv

(* run spawns the task that it is about to store.                          *)
LEMMA RunSpawnKeepsMutex ==
    ASSUME MutexInv, NEW c \in Caller, RunSpawn(c)
    PROVE  MutexInv'
<1> USE GatewayAssumption
<1>1. /\ LoopTypeOK /\ spawned + 1 \in Task
      /\ pc' = [pc EXCEPT ![c] = "store"] /\ own' = [own EXCEPT ![c] = spawned + 1]
      /\ task' = [task EXCEPT ![spawned + 1] = "running"]
    BY DEF MutexInv, Goto, RunSpawn, LoopTypeOK, Task
<1>2. LoopTypeOK'
    BY <1>1 DEF LoopTypeOK, RunSpawn, Places, Task
<1>3. HolderWaits' /\ OwnsTask' /\ OnlyRunnersRun'
    BY <1>1 DEF MutexInv, LoopTypeOK, HolderWaits, OwnsTask, OnlyRunnersRun, RunSpawn
<1>4. StopsAreMeant'
    BY <1>1 DEF MutexInv, LoopTypeOK, StopsAreMeant, StopHasTarget, OwnsTask, RunSpawn
<1> QED
    BY <1>2, <1>3, <1>4 DEF MutexInv

(* status keeps the mutex when it locks it again.                          *)
LEMMA StatusKeepsMutex ==
    ASSUME MutexInv, NEW c \in Caller, StatusLook(c)
    PROVE  MutexInv'
<1> USE GatewayAssumption
<1>1. LoopTypeOK /\ pc[c] = "status" /\ holder = None
    BY DEF MutexInv, StatusLook
<1>2. CASE handle # 0 /\ ~HandleRuns
  <2>1. pc' = [pc EXCEPT ![c] = "relock"] /\ holder' = c
    BY <1>2 DEF StatusLook, Goto
  <2>2. LoopTypeOK'
    BY <1>1, <2>1 DEF LoopTypeOK, StatusLook, Places
  <2>3. HolderWaits' /\ OwnsTask' /\ OnlyRunnersRun'
    BY <1>1, <2>1 DEF MutexInv, LoopTypeOK, HolderWaits, OwnsTask, OnlyRunnersRun, StatusLook
  <2>4. StopsAreMeant'
    BY <1>1, <2>1 DEF MutexInv, LoopTypeOK, StopsAreMeant, StopHasTarget, StatusLook
  <2> QED
    BY <2>2, <2>3, <2>4 DEF MutexInv
<1>3. CASE ~(handle # 0 /\ ~HandleRuns)
  <2>1. Goto(c, "idle") /\ UNCHANGED <<own, holder, handle, task, spawned, stops, panics>>
    BY <1>3, Zenon DEF StatusLook
  <2> QED
    BY <1>1, <2>1, MoveKeepsMutex DEF Places
<1> QED
    BY <1>2, <1>3

(* stop finds no Stop in the channel: nobody is in join, for the mutex is  *)
(* free.                                                                   *)
LEMMA StopTakeKeepsMutex ==
    ASSUME MutexInv, NEW c \in Caller, StopTake(c)
    PROVE  MutexInv'
<1> USE GatewayAssumption
<1>1. /\ LoopTypeOK /\ pc[c] = "stop" /\ holder = None /\ handle' = 0
      /\ UNCHANGED <<task, spawned, panics>>
    BY DEF MutexInv, StopTake
<1>2. \A d \in Caller : pc[d] # "join"
    BY <1>1 DEF MutexInv, HolderWaits
<1>3. panics = 0 => stops = 0
    BY <1>1, <1>2 DEF MutexInv, StopsAreMeant, StopHasTarget, LoopTypeOK
<1>4. CASE HandleRuns
  <2>1. /\ pc' = [pc EXCEPT ![c] = "join"] /\ own' = [own EXCEPT ![c] = handle]
        /\ holder' = c /\ stops' = stops + 1 /\ handle \in Task /\ task[handle] = "running"
    BY <1>1, <1>4 DEF StopTake, Goto, HandleRuns, LoopTypeOK, Task
  <2>2. LoopTypeOK'
    BY <1>1, <2>1 DEF LoopTypeOK, Places
  <2>3. HolderWaits' /\ OwnsTask' /\ OnlyRunnersRun'
    BY <1>1, <1>2, <2>1 DEF MutexInv, LoopTypeOK, HolderWaits, OwnsTask, OnlyRunnersRun
  <2>4. /\ pc'[c] = "join" /\ task'[own'[c]] = "running"
        /\ panics' = 0 => stops' <= 1
    BY <1>1, <1>3, <2>1 DEF LoopTypeOK
  <2>5. StopsAreMeant'
    BY <2>4 DEF StopsAreMeant, StopHasTarget
  <2> QED
    BY <2>2, <2>3, <2>5 DEF MutexInv
<1>5. CASE ~HandleRuns
  <2>1. Goto(c, "idle") /\ UNCHANGED <<stops, own, holder>>
    BY <1>5, Zenon DEF StopTake
  <2>2. pc' = [pc EXCEPT ![c] = "idle"]
    BY <2>1 DEF Goto
  <2>3. LoopTypeOK'
    BY <1>1, <2>1, <2>2 DEF LoopTypeOK, Places
  <2>4. HolderWaits' /\ OwnsTask' /\ OnlyRunnersRun'
    BY <1>1, <2>1, <2>2 DEF MutexInv, LoopTypeOK, HolderWaits, OwnsTask, OnlyRunnersRun
  <2>5. StopsAreMeant'
    BY <1>1, <1>3, <2>1 DEF LoopTypeOK, StopsAreMeant, StopHasTarget
  <2> QED
    BY <2>3, <2>4, <2>5 DEF MutexInv
<1> QED
    BY <1>4, <1>5

(* When the task has ended its Stop has been taken.                        *)
LEMMA StopJoinedKeepsMutex ==
    ASSUME MutexInv, NEW c \in Caller, StopJoined(c)
    PROVE  MutexInv'
<1> USE GatewayAssumption
<1>1. /\ LoopTypeOK /\ pc[c] = "join" /\ task[own[c]] = "finished" /\ holder' = None
      /\ pc' = [pc EXCEPT ![c] = "idle"] /\ own' = [own EXCEPT ![c] = 0]
      /\ UNCHANGED <<handle, task, spawned, stops, panics>>
    BY DEF MutexInv, StopJoined, Goto
<1>2. \A d \in Caller : pc[d] \in {"relock", "join"} => d = c
    BY <1>1 DEF MutexInv, HolderWaits
<1>3. LoopTypeOK'
    BY <1>1 DEF LoopTypeOK, Places
<1>4. HolderWaits' /\ OwnsTask' /\ OnlyRunnersRun'
    BY <1>1, <1>2 DEF MutexInv, LoopTypeOK, HolderWaits, OwnsTask, OnlyRunnersRun
<1>5. panics = 0 => stops = 0
    BY <1>1, <1>2 DEF MutexInv, StopsAreMeant, StopHasTarget, LoopTypeOK
<1>6. StopsAreMeant'
    BY <1>1, <1>5 DEF StopsAreMeant, StopHasTarget
<1> QED
    BY <1>3, <1>4, <1>6 DEF MutexInv

(* Whichever task takes the Stop, it was the only one.                     *)
LEMMA TaskKeepsMutex ==
    ASSUME MutexInv, NEW t \in Task, TaskStops(t) \/ TaskPanics(t)
    PROVE  MutexInv'
<1> USE GatewayAssumption
<1>1. /\ LoopTypeOK /\ task' = [task EXCEPT ![t] = "finished"]
      /\ UNCHANGED <<pc, own, holder, handle, spawned>>
    BY DEF MutexInv, TaskStops, TaskPanics
<1>2. LoopTypeOK'
    BY <1>1 DEF LoopTypeOK, TaskStops, TaskPanics
<1>3. HolderWaits' /\ OwnsTask' /\ OnlyRunnersRun'
    BY <1>1 DEF MutexInv, HolderWaits, OwnsTask, OnlyRunnersRun
<1>4. panics' = 0 => stops' = 0
    BY DEF MutexInv, LoopTypeOK, StopsAreMeant, TaskStops, TaskPanics
<1>5. StopsAreMeant'
    BY <1>4 DEF StopsAreMeant, StopHasTarget
<1> QED
    BY <1>2, <1>3, <1>5 DEF MutexInv

(* Every step keeps what the mutex and the channel are for.                *)
LEMMA StepMutex == MutexInv /\ [Next]_vars => MutexInv'
<1> SUFFICES ASSUME MutexInv, [Next]_vars PROVE MutexInv'
    OBVIOUS
<1> USE GatewayAssumption
<1>1. ASSUME NEW c \in Caller,
             \/ c \in Runner /\ Call(c, "run")
             \/ Call(c, "status") \/ Call(c, "stop") \/ HeightAsks(c) \/ HeightAnswered(c)
             \/ RunCheck(c) \/ RunFails(c)
      PROVE  MutexInv'
  <2>1. c \in Runner \/ pc[c] \notin {"run", "create", "store"}
    BY DEF MutexInv, OnlyRunnersRun
  <2>2. UNCHANGED <<own, holder, handle, task, spawned, stops, panics>>
    BY <1>1 DEF Call, HeightAsks, HeightAnswered, RunCheck, RunFails
  <2>3. CASE Call(c, "run") /\ c \in Runner
    BY <2>2, <2>3, MoveKeepsMutex DEF Call, Places
  <2>4. CASE Call(c, "status") \/ Call(c, "stop")
    BY <2>2, <2>4, MoveKeepsMutex DEF Call, Places
  <2>5. CASE HeightAsks(c) \/ HeightAnswered(c)
    BY <2>2, <2>5, MoveKeepsMutex DEF HeightAsks, HeightAnswered, Places
  <2>6. CASE RunCheck(c)
    <3>1. pc[c] = "run" /\ (Goto(c, "idle") \/ Goto(c, "create"))
      BY <2>6 DEF RunCheck
    <3> QED
      BY <2>1, <2>2, <3>1, MoveKeepsMutex DEF Places
  <2>7. CASE RunFails(c)
    BY <2>2, <2>7, MoveKeepsMutex DEF RunFails, Places
  <2> QED
    BY <1>1, <2>3, <2>4, <2>5, <2>6, <2>7
<1>2. CASE UNCHANGED vars
    BY <1>2, Untouched DEF vars
<1>3. CASE \/ \E c \in Caller : RunCalls(c)
           \/ \E t \in Task : TaskScans(t) \/ TaskScanned(t)
           \/ \E r \in Requester : Request(r)
  <2>1. UNCHANGED gatewayVars
    BY <1>3 DEF RunCalls, TaskScans, TaskScanned, Request
  <2> QED
    BY <2>1, Untouched
<1> QED
    BY <1>1, <1>2, <1>3, RunStoreKeepsMutex, RunSpawnKeepsMutex, StatusKeepsMutex,
       StopTakeKeepsMutex, StopJoinedKeepsMutex, TaskKeepsMutex DEF Next, CallerStep

(* The mutex and the channel of Stop messages are used as meant in every   *)
(* reachable state.                                                        *)
THEOREM MutexInvariance == Spec => []MutexInv
    BY InitLoop, StepMutex, PTL DEF Spec

(* As long as no task panics, stop leaves no Stop in the channel that      *)
(* would end a later task, for any number of callers that run and stop.    *)
THEOREM NoStrayStop == Spec => []StopHasTarget
<1>1. MutexInv => StopHasTarget
    BY DEF MutexInv, StopsAreMeant, StopHasTarget
<1> QED
    BY <1>1, MutexInvariance, PTL
-----------------------------------------------------------------------------
(***************************************************************************)
(* One caller runs the gateway.                                            *)
(***************************************************************************)
(* A set of at most one caller has no two.                                 *)
LEMMA AtMostOneRunner == Cardinality(Runner) <= 1 => OneRunner
<1> SUFFICES ASSUME Cardinality(Runner) <= 1 PROVE OneRunner
    OBVIOUS
<1>1. IsFiniteSet(Runner)
    BY GatewayAssumption
<1>2. Cardinality(Runner) = 0 \/ Cardinality(Runner) = 1
    BY <1>1, FS_CardinalityType
<1>3. Runner = {} \/ \E c : Runner = {c}
    BY <1>1, <1>2, FS_EmptySet, FS_Singleton
<1> QED
    BY <1>3 DEF OneRunner

(* The check of run: with the mutex free, a task at work is the handle's,  *)
(* for nobody is in join and nobody else in store.                         *)
LEMMA RunCheckKeepsLoop ==
    ASSUME OneRunner, MutexInv, LoopInv, NEW c \in Caller, RunCheck(c)
    PROVE  LoopInv'
<1> USE GatewayAssumption
<1>1. /\ LoopTypeOK /\ pc[c] = "run" /\ holder = None /\ c \in Runner
      /\ UNCHANGED <<own, holder, handle, task>>
    BY DEF MutexInv, OnlyRunnersRun, RunCheck
<1>2. \A d \in Caller : pc[d] \notin {"create", "store", "join"}
    BY <1>1 DEF MutexInv, OnlyRunnersRun, HolderWaits, OneRunner
<1>3. \A t \in Task : Running(t) => handle = t
    BY <1>2 DEF LoopInv, Findable
<1>4. \A t \in Task : Running(t)' = Running(t)
    BY <1>1 DEF Running
<1>5. CASE HandleRuns
  <2>1. pc' = [pc EXCEPT ![c] = "idle"]
    BY <1>5 DEF RunCheck, Goto
  <2> QED
    BY <1>1, <1>2, <1>3, <1>4, <2>1 DEF LoopInv, NothingElseRuns, Single, Findable, LoopTypeOK
<1>6. CASE ~HandleRuns
  <2>1. pc' = [pc EXCEPT ![c] = "create"]
    BY <1>6 DEF RunCheck, Goto
  <2>2. \A t \in Task : ~Running(t)
    BY <1>3, <1>6 DEF HandleRuns, Running, Task
  <2> QED
    BY <1>4, <2>2 DEF LoopInv, NothingElseRuns, Single, Findable
<1> QED
    BY <1>5, <1>6

(* The new task is the only one.                                           *)
LEMMA RunSpawnKeepsLoop ==
    ASSUME OneRunner, MutexInv, LoopInv, NEW c \in Caller, RunSpawn(c)
    PROVE  LoopInv'
<1> USE GatewayAssumption
<1>1. /\ LoopTypeOK /\ pc[c] = "create" /\ c \in Runner /\ spawned + 1 \in Task
      /\ pc' = [pc EXCEPT ![c] = "store"] /\ own' = [own EXCEPT ![c] = spawned + 1]
      /\ task' = [task EXCEPT ![spawned + 1] = "running"]
    BY DEF MutexInv, LoopTypeOK, OnlyRunnersRun, RunSpawn, Goto, Task
<1>2. \A t \in Task : ~Running(t)
    BY <1>1 DEF LoopInv, NothingElseRuns
<1>3. \A t \in Task : Running(t)' => t = spawned + 1
    BY <1>1, <1>2 DEF Running, LoopTypeOK
<1>4. pc'[c] = "store" /\ own'[c] = spawned + 1
    BY <1>1 DEF LoopTypeOK
<1>5. \A d \in Caller : pc'[d] \in {"create", "store"} => d = c
    BY <1>1 DEF LoopTypeOK, MutexInv, OnlyRunnersRun, OneRunner
<1> QED
    BY <1>3, <1>4, <1>5 DEF LoopInv, NothingElseRuns, Single, Findable

(* The handle that is replaced is not that of a task at work.              *)
LEMMA RunStoreKeepsLoop ==
    ASSUME OneRunner, MutexInv, LoopInv, NEW c \in Caller, RunStore(c)
    PROVE  LoopInv'
<1> USE GatewayAssumption
<1>1. /\ LoopTypeOK /\ pc[c] = "store" /\ c \in Runner /\ handle' = own[c]
      /\ pc' = [pc EXCEPT ![c] = "idle"] /\ own' = [own EXCEPT ![c] = 0]
      /\ UNCHANGED task
    BY DEF MutexInv, OnlyRunnersRun, RunStore, Goto
<1>2. \A t \in Task : Running(t)' => t = own[c]
    BY <1>1 DEF LoopInv, NothingElseRuns, Running
<1>3. \A d \in Caller : pc'[d] \notin {"create", "store"}
    BY <1>1 DEF LoopTypeOK, MutexInv, OnlyRunnersRun, OneRunner
<1> QED
    BY <1>1, <1>2, <1>3 DEF LoopInv, NothingElseRuns, Single, Findable

(* stop carries the handle over to the call that joins.                    *)
LEMMA StopKeepsLoop ==
    ASSUME MutexInv, LoopInv, NEW c \in Caller, StopTake(c) \/ StopJoined(c)
    PROVE  LoopInv'
<1> USE GatewayAssumption
<1>1. LoopTypeOK /\ UNCHANGED task /\ \A t \in Task : Running(t)' = Running(t)
    BY DEF MutexInv, StopTake, StopJoined, Running
<1>2. CASE StopTake(c) /\ HandleRuns
  <2>1. /\ pc' = [pc EXCEPT ![c] = "join"] /\ own' = [own EXCEPT ![c] = handle]
        /\ handle \in Task /\ Running(handle) /\ pc[c] = "stop"
    BY <1>1, <1>2 DEF StopTake, Goto, HandleRuns, LoopTypeOK, Task, Running
  <2>2. \A t \in Task : Running(t) => t = handle
    BY <2>1 DEF LoopInv, Single
  <2>3. pc'[c] = "join" /\ own'[c] = handle
    BY <1>1, <2>1 DEF LoopTypeOK
  <2>4. NothingElseRuns'
    BY <1>1, <2>1 DEF LoopInv, NothingElseRuns, LoopTypeOK
  <2> QED
    BY <1>1, <2>2, <2>3, <2>4 DEF LoopInv, Single, Findable
<1>3. CASE StopTake(c) /\ ~HandleRuns
  <2>1. pc' = [pc EXCEPT ![c] = "idle"] /\ UNCHANGED own /\ pc[c] = "stop"
    BY <1>3 DEF StopTake, Goto
  <2>2. \A t \in Task : Running(t) => t # handle
    BY <1>3 DEF HandleRuns, Running, Task
  <2>3. NothingElseRuns'
    BY <1>1, <2>1 DEF LoopInv, NothingElseRuns, LoopTypeOK
  <2> QED
    BY <1>1, <2>1, <2>2, <2>3 DEF LoopInv, Single, Findable, LoopTypeOK
<1>4. CASE StopJoined(c)
  <2>1. /\ pc' = [pc EXCEPT ![c] = "idle"] /\ own' = [own EXCEPT ![c] = 0] /\ handle' = handle
        /\ pc[c] = "join" /\ ~Running(own[c])
    BY <1>4 DEF StopJoined, Goto, Running
  <2>2. NothingElseRuns'
    BY <1>1, <2>1 DEF LoopInv, NothingElseRuns, LoopTypeOK
  <2> QED
    BY <1>1, <2>1, <2>2 DEF LoopInv, Single, Findable, LoopTypeOK
<1> QED
    BY <1>2, <1>3, <1>4

(* Tasks end; calls come and go without touching tasks or handle.          *)
LEMMA OtherKeepsLoop ==
    ASSUME MutexInv, LoopInv,
           \/ \E t \in Task : TaskStops(t) \/ TaskPanics(t)
           \/ \E c \in Caller : \/ \E p \in {"run", "status", "stop"} : Call(c, p)
                                \/ HeightAsks(c) \/ HeightAnswered(c) \/ RunFails(c)
                                \/ StatusLook(c)
    PROVE  LoopInv'
<1> USE GatewayAssumption
<1>1. ASSUME NEW t \in Task, TaskStops(t) \/ TaskPanics(t)
      PROVE  LoopInv'
  <2>1. /\ LoopTypeOK /\ task' = [task EXCEPT ![t] = "finished"]
        /\ UNCHANGED <<pc, own, holder, handle>>
    BY <1>1 DEF MutexInv, TaskStops, TaskPanics
  <2>2. \A u \in Task : Running(u)' => Running(u)
    BY <2>1 DEF Running, LoopTypeOK
  <2> QED
    BY <2>1, <2>2 DEF LoopInv, NothingElseRuns, Single, Findable
<1>2. ASSUME NEW c \in Caller,
             \/ \E p \in {"run", "status", "stop"} : Call(c, p)
             \/ HeightAsks(c) \/ HeightAnswered(c) \/ RunFails(c) \/ StatusLook(c)
      PROVE  LoopInv'
  <2>1. /\ LoopTypeOK /\ UNCHANGED <<own, handle, task>>
        /\ pc[c] \notin {"store", "join"}
        /\ \E p \in Places \ {"create", "store", "join"} : pc' = [pc EXCEPT ![c] = p]
    BY <1>2 DEF MutexInv, Call, HeightAsks, HeightAnswered, RunFails, StatusLook, Goto, Places
  <2>2. \A t \in Task : Running(t)' = Running(t)
    BY <2>1 DEF Running
  <2>3. \A d \in Caller : /\ pc'[d] \in {"create", "store", "join"} => pc'[d] = pc[d]
                          /\ pc[d] \in {"store", "join"} => pc'[d] = pc[d]
    BY <2>1 DEF LoopTypeOK
  <2> QED
    BY <2>1, <2>2, <2>3 DEF LoopInv, NothingElseRuns, Single, Findable
<1> QED
    BY <1>1, <1>2

(* Every step keeps the one task.                                          *)
LEMMA StepLoop == OneRunner /\ MutexInv /\ LoopInv /\ [Next]_vars => LoopInv'
<1> SUFFICES ASSUME OneRunner, MutexInv, LoopInv, [Next]_vars PROVE LoopInv'
    OBVIOUS
<1>1. CASE UNCHANGED vars
    BY <1>1, Untouched DEF vars
<1>2. CASE \/ \E c \in Caller : RunCalls(c)
           \/ \E t \in Task : TaskScans(t) \/ TaskScanned(t)
           \/ \E r \in Requester : Request(r)
  <2>1. UNCHANGED gatewayVars
    BY <1>2 DEF RunCalls, TaskScans, TaskScanned, Request
  <2> QED
    BY <2>1, Untouched
<1> QED
    BY <1>1, <1>2, RunCheckKeepsLoop, RunSpawnKeepsLoop, RunStoreKeepsLoop, StopKeepsLoop,
       OtherKeepsLoop, GatewayAssumption DEF Next, CallerStep

(* The one task and its handle in every reachable state.                   *)
LEMMA LoopInvariance == Spec => [](OneRunner => LoopInv)
<1>1. Init => (OneRunner => LoopInv)
    BY InitLoop
<1>2. MutexInv /\ (OneRunner => LoopInv) /\ [Next]_vars => (OneRunner => LoopInv)'
  <2> SUFFICES ASSUME MutexInv, OneRunner => LoopInv, [Next]_vars, OneRunner' PROVE LoopInv'
    OBVIOUS
  <2>1. OneRunner
    BY DEF OneRunner
  <2> QED
    BY <2>1, StepLoop
<1> QED
    BY <1>1, <1>2, MutexInvariance, PTL DEF Spec

(* run checks the handle and stores the new one under two locks, with      *)
(* Scanner::new between; stop, status and panics come anywhere. With one   *)
(* caller that runs there are never two scanners.                          *)
THEOREM OneScannerAtMost == Spec => []OneScanner
<1>1. (OneRunner => LoopInv) => OneScanner
    BY AtMostOneRunner DEF LoopInv, Single, Running, OneScanner
<1> QED
    BY <1>1, LoopInvariance, PTL

(* Nor is there one that no stop call can reach.                           *)
THEOREM NoTaskLost == Spec => []NoOrphan
<1>1. (OneRunner => LoopInv) => NoOrphan
    BY AtMostOneRunner DEF LoopInv, Findable, Running, NoOrphan
<1> QED
    BY <1>1, LoopInvariance, PTL

-----------------------------------------------------------------------------
(***************************************************************************)
(* The client under the gateway.                                           *)
(***************************************************************************)
(* Callers and tasks do with a call only what a client allows: they make   *)
(* it, wait for it, and take or drop its result.                           *)
LEMMA OnlyClientSteps == [Next]_vars => [ClientNext]_rpcVars
<1> SUFFICES ASSUME [Next]_vars PROVE [ClientNext]_rpcVars
    OBVIOUS
<1>0. /\ Caller \subseteq Requester /\ Task \subseteq Requester /\ Runner \subseteq Caller
      /\ Sizes \subseteq 0..MaxSize
    BY GatewayAssumption DEF Task
<1>1. CASE UNCHANGED vars
    BY <1>1 DEF vars
<1>2. ASSUME NEW c \in Caller,
             \/ \E p \in {"run", "status", "stop"} : Call(c, p)
             \/ RunCheck(c) \/ RunStore(c) \/ StatusLook(c) \/ StopTake(c) \/ StopJoined(c)
      PROVE  UNCHANGED rpcVars
    BY <1>2 DEF Call, RunCheck, RunStore, StatusLook, StopTake, StopJoined
<1>3. ASSUME NEW c \in Caller,
             HeightAsks(c) \/ RunCalls(c) \/ RunFails(c) \/ RunSpawn(c) \/ HeightAnswered(c)
      PROVE  ClientNext
  <2>1. CASE HeightAsks(c)
    <3>1. at[c] = "idle" /\ Begin(c, 1)
      BY <2>1 DEF HeightAsks, Begin
    <3>2. 1 \in 0..MaxSize
      BY RpcAssumption
    <3> QED
      BY <1>0, <3>1, <3>2 DEF ClientNext, ClientStep
  <2>2. CASE RunCalls(c)
    BY <1>0, <2>2 DEF RunCalls, ClientNext, ClientStep
  <2>3. CASE RunFails(c) \/ RunSpawn(c) \/ HeightAnswered(c)
    BY <1>0, <2>3 DEF RunFails, RunSpawn, HeightAnswered, ClientNext, ClientStep
  <2> QED
    BY <1>3, <2>1, <2>2, <2>3
<1>4. ASSUME NEW t \in Task, TaskStops(t) \/ TaskScans(t) \/ TaskScanned(t) \/ TaskPanics(t)
      PROVE  [ClientNext]_rpcVars
    BY <1>0, <1>4 DEF TaskStops, TaskScans, TaskScanned, TaskPanics, ClientNext, ClientStep
<1>5. ASSUME NEW r \in Requester, Request(r)
      PROVE  ClientNext
    BY <1>5 DEF Request, ClientNext, ClientStep
<1> QED
    BY <1>0, <1>1, <1>2, <1>3, <1>4, <1>5 DEF Next, CallerStep

(* The client's invariant in every reachable state.                        *)
LEMMA ClientInvariance == Spec => []RpcInv
<1>1. Init => RpcInv
    BY RpcInitially DEF Init
<1>2. RpcInv /\ [Next]_vars => RpcInv'
    BY OnlyClientSteps, RpcStepwise
<1> QED
    BY <1>1, <1>2, PTL DEF Spec

(* Type correctness of the gateway with its client.                        *)
THEOREM TypeCorrect == Spec => []TypeOK
<1>1. RpcInv /\ MutexInv => TypeOK
    BY RpcInvTypes DEF MutexInv, LoopTypeOK, TypeOK
<1> QED
    BY <1>1, ClientInvariance, MutexInvariance, PTL

(* No header is sent twice, for any number of callers and scan tasks that  *)
(* share nonce and counter, are challenged at the same time and come back  *)
(* to a nonce that another request has replaced meanwhile.                 *)
THEOREM NoHeaderTwice == Spec => HeadersFresh
<1>1. RpcInv /\ [Next]_vars => [FreshStep]_rpcVars
    BY OnlyClientSteps, RpcStepwise
<1>2. Spec => [][FreshStep]_rpcVars
    BY <1>1, ClientInvariance, PTL DEF Spec
<1> QED
    BY <1>2, PTL DEF HeadersFresh, FreshStep

(* The client implements the abstract Rpc for any number of hashes, any    *)
(* limit, and whatever is refused, lost or repeated: the daemon is asked   *)
(* for each hash once and in order, and a call that succeeds has asked for *)
(* all of them.                                                            *)
THEOREM ImplementsRpc == Spec => KeepsPromise
<1>1. Init => Abstract!Init
    BY RpcInitially DEF Init
<1>2. RpcInv /\ [Next]_vars => [Abstract!Next]_AbstractCalls
    BY OnlyClientSteps, RpcStepwise
<1> QED
    BY <1>1, <1>2, ClientInvariance, PTL DEF Spec, KeepsPromise, Abstract!Spec
=============================================================================
