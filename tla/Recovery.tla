------------------------------- MODULE Recovery -------------------------------
(***************************************************************************)
(* Recovery of a Cloudera AI Ray cluster whose head is dead: the job       *)
(* "ray-head-recovery" (cai/ray/ray_serve_cai/scripts/recover_head.py,     *)
(* recovery/recover.py, recovery/recovery_state.py), which the operator    *)
(* starts, next to the management API of the head, whose handlers change   *)
(* the same files.  A job may be killed between any two steps.  The CML    *)
(* API, which restarts, deletes and creates applications, is external.     *)
(***************************************************************************)
EXTENDS ServeDeployments

CONSTANTS Jobs,      \* runs of the job that may exist at one time
          Groups,    \* node types of the worker groups
          Count,     \* workers of a group
          MaxRuns,   \* bound on the runs that are started
          MaxApps    \* bound on the worker applications that are created

ASSUME RunsAssumption == MaxRuns \in Nat /\ MaxApps \in Nat /\ Count \in Nat
ASSUME GroupsAssumption == IsFiniteSet(Groups)

PHASES == <<"DETECTED", "RESTARTING_HEAD", "WAITING_HEAD", "UPDATING_INFO",
            "REBUILDING_WORKERS", "REDEPLOYING", "COMPLETE">>
None    == "none"
Phase   == {PHASES[i] : i \in 1..7} \cup {None}
Index(phase) == IF phase = None THEN 0 ELSE CHOOSE i \in 1..7 : PHASES[i] = phase

Epoch   == 0..MaxRestarts
Info    == [groups : SUBSET Groups, head_address : Epoch]
App     == [id : 1..MaxApps, head_address : Epoch, baked : BOOLEAN]
Place   == {"idle", "tested", "locked", "begun", "restarting", "restarted", "waiting",
            "ready", "loaded", "updated", "deleting", "creating", "redeploying",
            "complete", "release", "hung"}
Anomaly == {"overlap", "clobbered", "undeleted", "died", "unread"}

VARIABLES
  phase,       \* recovery_state.json: the phase, or None when there is no file
  lock,        \* .recovery_lock is there
  info,        \* ray_cluster_info.json
  launcher,    \* launcher of each group: the address baked into it, if there is one
  apps,        \* worker applications that exist in CML, with the address each joins
  made,        \* worker applications created so far
  api,         \* the cluster info a handler of the API has read, and what it will write
  runs,        \* runs started so far
  at,          \* where each job is
  local,       \* what each job has read
  issued,      \* history: restarts requested since DETECTED was recorded
  seen,        \* history: what each run has met with
  overlapped   \* history: two runs have been at work at one time

stateVars == <<phase, lock, runs>>
infoVars  == <<info, launcher>>
cmlVars   == <<apps, made>>
history   == <<seen, overlapped>>
vars == <<headVars, serveVars, stateVars, infoVars, cmlVars, api, at, local, issued, history>>

(* A job's local variables: info and new_addr of run, the copy that        *)
(* update_cluster_info rewrites, what is left of the loops.                *)
Nothing == [groups |-> {}, address |-> 0, copy |-> <<>>, stale |-> {},
            missing |-> [g \in Groups |-> 0], requests |-> {}, failed |-> {}]

(* The values the variables range over.                                    *)
TypeOK ==
  /\ DeploymentsTypeOK
  /\ phase \in Phase
  /\ lock \in BOOLEAN
  /\ info \in Info
  /\ launcher \in [Groups -> {<<>>} \cup {<<e>> : e \in Epoch}]
  /\ apps \subseteq App
  /\ made \in 0..MaxApps
  /\ api \in {<<>>} \cup (Info \X Info)
  /\ runs \in 0..MaxRuns
  /\ at \in [Jobs -> Place]
  /\ \A j \in Jobs :
       /\ local[j].groups \subseteq Groups
       /\ local[j].address \in Epoch
       /\ local[j].stale \subseteq App
       /\ local[j].missing \in [Groups -> 0..Count]
       /\ local[j].requests \subseteq Names
       /\ local[j].failed \subseteq Names
  /\ issued \in 0..MaxRestarts
  /\ seen \in [Jobs -> SUBSET Anomaly]
  /\ overlapped \in BOOLEAN

Init ==
  /\ DeploymentsInit
  /\ phase = None
  /\ lock = FALSE
  /\ info = [groups |-> Groups, head_address |-> 0]
  /\ launcher = [g \in Groups |-> <<>>]  \* the launch job renders them without an address
  /\ apps = {}
  /\ made = 0
  /\ api = <<>>
  /\ runs = 0
  /\ at = [j \in Jobs |-> "idle"]
  /\ local = [j \in Jobs |-> Nothing]
  /\ issued = 0
  /\ seen = [j \in Jobs |-> {}]
  /\ overlapped = FALSE

-----------------------------------------------------------------------------
(* recovery_state.py.                                                      *)

(* Whether the recorded phase is at or after one.                          *)
Past(p) == Index(phase) >= Index(p)

SetPhase(p) == phase' = p

(* acquire_lock is a test: a lock that is there counts for half an hour ...*)
LockMayBeTaken == {TRUE} \cup {~lock}

(* ... and a later write, which takes the lock from whoever has it.        *)
TakeLock == lock' = TRUE

(* release_lock removes the lock, whoever has it.                          *)
ReleaseLock == lock' = FALSE

(* A run whose request hangs has the lock, but does nothing any more.      *)
Running(j) == at[j] \notin {"idle", "tested", "hung"}

See(j, kind) == seen' = [seen EXCEPT ![j] = @ \cup {kind}] /\ UNCHANGED overlapped
EachSees(kind) ==
  /\ seen' = [k \in Jobs |-> IF Running(k) THEN seen[k] \cup {kind} ELSE seen[k]]
  /\ UNCHANGED overlapped
Forget(j) == seen' = [seen EXCEPT ![j] = {}] /\ UNCHANGED overlapped

-----------------------------------------------------------------------------
(* The steps of a job: run of RecoveryOrchestrator.                        *)

Goto(j, place) == at' = [at EXCEPT ![j] = place]
Know(j, record) == local' = [local EXCEPT ![j] = record]

(* An exception goes to the finally clause of run.                         *)
Raises(j) == Goto(j, "release")

StartRun(j) ==
  /\ at[j] = "idle"
  /\ runs < MaxRuns
  /\ runs' = runs + 1
  /\ \E taken \in LockMayBeTaken : IF taken THEN Goto(j, "tested") ELSE UNCHANGED at
  /\ UNCHANGED <<headVars, serveVars, phase, lock, infoVars, cmlVars, api, local, issued, history>>

AcquireLock(j) ==
  /\ at[j] = "tested"
  /\ TakeLock
  /\ Goto(j, "locked")
  /\ IF \E k \in Jobs : Running(k)
       THEN /\ seen' = [k \in Jobs |->
                          IF k = j \/ Running(k) THEN seen[k] \cup {"overlap"} ELSE seen[k]]
            /\ overlapped' = TRUE
       ELSE UNCHANGED history
  /\ UNCHANGED <<headVars, serveVars, phase, runs, infoVars, cmlVars, api, local, issued>>

(* A run that was interrupted is resumed from its phase.                   *)
DetectOrResume(j) ==
  /\ at[j] = "locked"
  /\ IF phase \notin {None, "COMPLETE"}
       THEN UNCHANGED <<phase, issued>>
       ELSE SetPhase("DETECTED") /\ issued' = 0
  /\ Know(j, [Nothing EXCEPT !.groups = info.groups])
  /\ Goto(j, "begun")
  /\ UNCHANGED <<headVars, serveVars, lock, runs, infoVars, cmlVars, api, history>>

(* Fault: the phase is recorded when the restart was issued.               *)
RestartBeforeRecord(j) ==
  /\ at[j] = "begun"
  /\ Goto(j, IF Past("RESTARTING_HEAD") THEN "restarted" ELSE "restarting")
  /\ UNCHANGED <<headVars, serveVars, phase, lock, runs, infoVars, cmlVars, api, local, issued, history>>

(* restart_head: nothing when the phase is recorded already.               *)
RecordRestart(j) ==
  /\ at[j] = "begun"
  /\ IF Past("RESTARTING_HEAD")
       THEN Goto(j, "restarted") /\ UNCHANGED phase
       ELSE Goto(j, "restarting") /\ SetPhase("RESTARTING_HEAD")
  /\ UNCHANGED <<headVars, serveVars, lock, runs, infoVars, cmlVars, api, local, issued, history>>

RestartIsRequested ==
  /\ RestartApplication
  /\ issued' = issued + 1
  /\ api' = <<>>

(* The restart is accepted, refused, or accepted and its answer lost.      *)
RestartHead(j) ==
  /\ at[j] = "restarting"
  /\ \/ /\ RestartIsRequested
        /\ Goto(j, "restarted") \/ Raises(j)
     \/ Raises(j) /\ UNCHANGED <<headVars, serveVars, issued, api>>
  /\ UNCHANGED <<phase, lock, runs, infoVars, cmlVars, local, history>>

(* Fault: the wait is not recorded.                                        *)
WaitUnrecorded(j) ==
  /\ at[j] = "restarted"
  /\ Goto(j, "waiting")
  /\ UNCHANGED <<headVars, serveVars, stateVars, infoVars, cmlVars, api, local, issued, history>>

(* The phase is set back when a later one was resumed.                     *)
WaitForHead(j) ==
  /\ at[j] = "restarted"
  /\ SetPhase("WAITING_HEAD")
  /\ Goto(j, "waiting")
  /\ UNCHANGED <<headVars, serveVars, lock, runs, infoVars, cmlVars, api, local, issued, history>>

(* The head answers with its address.                                      *)
PollHead(j) ==
  /\ at[j] = "waiting"
  /\ head = "up"
  /\ Know(j, [local[j] EXCEPT !.address = epoch])
  /\ Goto(j, "ready")
  /\ UNCHANGED <<headVars, serveVars, stateVars, infoVars, cmlVars, api, issued, history>>

(* Fault: the head is waited for without end.                              *)
WaitsForEver(j) == at[j] = "waiting" /\ UNCHANGED vars

(* A request raises, or the head is not ready in ten minutes.              *)
HeadTimesOut(j) ==
  /\ at[j] = "waiting"
  /\ Raises(j)
  /\ UNCHANGED <<headVars, serveVars, stateVars, infoVars, cmlVars, api, local, issued, history>>

(* update_cluster_info: wait_for_head has set the phase back, so that it is*)
(* never skipped.  It reads the file ...                                   *)
LoadInfo(j) ==
  /\ at[j] = "ready"
  /\ IF Past("UPDATING_INFO")
       THEN Goto(j, "updated") /\ UNCHANGED <<phase, local>>
       ELSE /\ SetPhase("UPDATING_INFO")
            /\ Know(j, [local[j] EXCEPT !.copy = <<info>>])
            /\ Goto(j, "loaded")
  /\ UNCHANGED <<headVars, serveVars, lock, runs, infoVars, cmlVars, api, issued, history>>

(* ... and replaces it without the lock the handlers of the API take.      *)
ReplaceInfo(j) ==
  /\ at[j] = "loaded"
  /\ info' = [local[j].copy[1] EXCEPT !.head_address = local[j].address]
  /\ Know(j, [local[j] EXCEPT !.copy = <<>>])
  /\ Goto(j, "updated")
  /\ UNCHANGED <<headVars, serveVars, stateVars, launcher, cmlVars, api, issued, history>>

(* rebuild_workers: the workers there are; none, when listing them raises. *)
ListWorkers(j) ==
  /\ at[j] = "updated"
  /\ SetPhase("REBUILDING_WORKERS")
  /\ \/ Know(j, [local[j] EXCEPT !.stale = apps]) /\ UNCHANGED history
     \/ apps # {} /\ See(j, "undeleted") /\ UNCHANGED local
  /\ Goto(j, "deleting")
  /\ UNCHANGED <<headVars, serveVars, lock, runs, infoVars, cmlVars, api, issued>>

(* A deletion succeeds, is refused, which is counted as done, or raises,   *)
(* which ends the loop.                                                    *)
DeleteWorker(j) ==
  /\ at[j] = "deleting"
  /\ \E app \in local[j].stale :
       \/ /\ apps' = apps \ {app}
          /\ Know(j, [local[j] EXCEPT !.stale = @ \ {app}])
          /\ UNCHANGED history
       \/ /\ \E rest \in {{}, local[j].stale \ {app}} : Know(j, [local[j] EXCEPT !.stale = rest])
          /\ See(j, "undeleted")
          /\ UNCHANGED apps
  /\ UNCHANGED <<headVars, serveVars, stateVars, infoVars, made, api, at, issued>>

WorkersDeleted(j) ==
  /\ at[j] = "deleting"
  /\ local[j].stale = {}
  /\ Know(j, [local[j] EXCEPT !.missing = [g \in Groups |-> IF g \in local[j].groups THEN Count ELSE 0]])
  /\ Goto(j, "creating")
  /\ UNCHANGED <<headVars, serveVars, stateVars, infoVars, cmlVars, api, issued, history>>

(* create_worker_node: the group and the address are those of the file,    *)
(* but the worker runs the launcher of the group, which reads the address  *)
(* it is given only if it has none of its own.                             *)
CreateWorkerNode(g) ==
  /\ g \in info.groups
  /\ made < MaxApps
  /\ made' = made + 1
  /\ apps' = apps \cup {[id           |-> made',
                         head_address |-> IF launcher[g] = <<>> THEN info.head_address ELSE launcher[g][1],
                         baked        |-> launcher[g] # <<>>]}

(* A group that was removed, two workers of a group in the same second, and*)
(* an answer that is lost raise.                                           *)
CreateWorker(j) ==
  /\ at[j] = "creating"
  /\ \E g \in Groups :
       /\ local[j].missing[g] > 0
       /\ \/ /\ CreateWorkerNode(g)
             /\ \/ Know(j, [local[j] EXCEPT !.missing[g] = @ - 1]) /\ UNCHANGED at
                \/ Raises(j) /\ UNCHANGED local
          \/ Raises(j) /\ UNCHANGED <<cmlVars, local>>
  /\ UNCHANGED <<headVars, serveVars, stateVars, infoVars, api, issued, history>>

(* redeploy: the recorded requests, read once; none, when the file cannot  *)
(* be read.                                                                *)
RecordRedeploy(j) ==
  /\ at[j] = "creating"
  /\ \A g \in Groups : local[j].missing[g] = 0
  /\ SetPhase("REDEPLOYING")
  /\ \/ Know(j, [local[j] EXCEPT !.requests = store]) /\ UNCHANGED history
     \/ store # {} /\ See(j, "unread") /\ UNCHANGED local
  /\ Goto(j, "redeploying")
  /\ UNCHANGED <<headVars, serveVars, lock, runs, infoVars, cmlVars, api, issued>>

(* Fault: a request that fails is not counted.                             *)
RedeploySilently(j) ==
  /\ at[j] = "redeploying"
  /\ \E name \in local[j].requests :
       /\ Know(j, [local[j] EXCEPT !.requests = @ \ {name}])
       /\ (api = <<>> /\ PostApplication(name)) \/ UNCHANGED serveVars
  /\ UNCHANGED <<headVars, stateVars, infoVars, cmlVars, api, at, issued, history>>

(* One request is posted to the management API; it is accepted, or raises  *)
(* there, or does not get there, and is counted.                           *)
Redeploy(j) ==
  /\ at[j] = "redeploying"
  /\ \E name \in local[j].requests :
       \/ /\ api = <<>>
          /\ PostApplication(name)
          /\ Know(j, [local[j] EXCEPT !.requests = @ \ {name}])
       \/ /\ Know(j, [local[j] EXCEPT !.requests = @ \ {name}, !.failed = @ \cup {name}])
          /\ UNCHANGED serveVars
  /\ UNCHANGED <<headVars, stateVars, infoVars, cmlVars, api, at, issued, history>>

RecordComplete(j) ==
  /\ at[j] = "redeploying"
  /\ local[j].requests = {}
  /\ SetPhase("COMPLETE")
  /\ Goto(j, "complete")
  /\ UNCHANGED <<headVars, serveVars, lock, runs, infoVars, cmlVars, api, local, issued, history>>

Clear(j) ==
  /\ at[j] = "complete"
  /\ phase' = None
  /\ Goto(j, "release")
  /\ UNCHANGED <<headVars, serveVars, lock, runs, infoVars, cmlVars, api, local, issued, history>>

EndRun(j) ==
  /\ at[j] = "release"
  /\ ReleaseLock
  /\ Goto(j, "idle")
  /\ Know(j, Nothing)
  /\ Forget(j)
  /\ UNCHANGED <<headVars, serveVars, phase, runs, infoVars, cmlVars, api, issued>>

(* The pod of the job is killed: files and lock stay as they are.          *)
Crash(j) ==
  /\ at[j] # "idle"
  /\ Goto(j, "idle")
  /\ Know(j, Nothing)
  /\ Forget(j)
  /\ UNCHANGED <<headVars, serveVars, stateVars, infoVars, cmlVars, api, issued>>

(* The requests of the job to CML, to the head and to its management API   *)
(* have no timeout, and a deployment is answered when serve.run returns.   *)
Requests(j) ==
  \/ at[j] \in {"restarting", "waiting", "deleting"}
  \/ at[j] = "creating" /\ \E g \in Groups : local[j].missing[g] > 0
  \/ at[j] = "redeploying" /\ local[j].requests # {}

(* A request is never answered, whether or not it was carried out: the run *)
(* stays where it is, with the lock, until its pod is killed.              *)
RequestHangs(j) ==
  /\ Requests(j)
  /\ \/ UNCHANGED <<headVars, serveVars, cmlVars, api, issued>>
     \/ at[j] = "restarting" /\ RestartIsRequested /\ UNCHANGED cmlVars
     \/ /\ at[j] = "deleting"
        /\ \E app \in local[j].stale : apps' = apps \ {app}
        /\ UNCHANGED <<headVars, serveVars, made, api, issued>>
     \/ /\ at[j] = "creating"
        /\ \E g \in Groups : local[j].missing[g] > 0 /\ CreateWorkerNode(g)
        /\ UNCHANGED <<headVars, serveVars, api, issued>>
     \/ /\ at[j] = "redeploying"
        /\ api = <<>>
        /\ \E name \in local[j].requests : PostApplication(name)
        /\ UNCHANGED <<headVars, cmlVars, api, issued>>
  /\ Goto(j, "hung")
  /\ Know(j, Nothing)
  /\ Forget(j)
  /\ UNCHANGED <<stateVars, infoVars>>

JobStep(j) ==
  \/ AcquireLock(j) \/ DetectOrResume(j)
  \/ RecordRestart(j) \/ RestartHead(j)
  \/ WaitForHead(j) \/ PollHead(j) \/ HeadTimesOut(j)
  \/ LoadInfo(j) \/ ReplaceInfo(j)
  \/ ListWorkers(j) \/ DeleteWorker(j) \/ WorkersDeleted(j)
  \/ CreateWorker(j)
  \/ RecordRedeploy(j) \/ Redeploy(j)
  \/ RecordComplete(j) \/ Clear(j) \/ EndRun(j)

-----------------------------------------------------------------------------
(* What goes on around the job.                                            *)

HeadFails ==
  /\ HeadDies
  /\ api' = <<>>
  /\ EachSees("died")
  /\ UNCHANGED <<stateVars, infoVars, cmlVars, at, local, issued>>

HeadStarts == HeadComesUp /\ UNCHANGED <<stateVars, infoVars, cmlVars, api, at, local, issued, history>>

(* define_node_type and remove_worker_group read the cluster info under a  *)
(* lock of their own.  The one bakes the address in it into the launcher of*)
(* the new group, the other leaves the launcher on the disk; Count stands  *)
(* for the count in the request, without which a group has no workers ...  *)
DefineGroup(g) ==
  /\ head = "up"
  /\ api = <<>>
  /\ g \notin info.groups
  /\ launcher' = [launcher EXCEPT ![g] = <<info.head_address>>]
  /\ api' = <<info, [info EXCEPT !.groups = @ \cup {g}]>>
  /\ UNCHANGED <<headVars, serveVars, stateVars, info, cmlVars, at, local, issued, history>>

RemoveGroup(g) ==
  /\ head = "up"
  /\ api = <<>>
  /\ g \in info.groups
  /\ api' = <<info, [info EXCEPT !.groups = @ \ {g}]>>
  /\ UNCHANGED <<headVars, serveVars, stateVars, infoVars, cmlVars, at, local, issued, history>>

(* ... and replace it by what they have made of what they read.            *)
SaveInfo ==
  /\ api # <<>>
  /\ info' = api[2]
  /\ IF info # api[1] THEN EachSees("clobbered") ELSE UNCHANGED history
  /\ api' = <<>>
  /\ UNCHANGED <<headVars, serveVars, stateVars, launcher, cmlVars, at, local, issued>>

(* Requests of the admin to the management API.                            *)
Deploy(name) ==
  /\ api = <<>>
  /\ PostApplication(name)
  /\ UNCHANGED <<headVars, stateVars, infoVars, cmlVars, api, at, local, issued, history>>

Undeploy(name) ==
  /\ api = <<>>
  /\ name \in store \cup live
  /\ DeleteApplication(name)
  /\ UNCHANGED <<headVars, stateVars, infoVars, cmlVars, api, at, local, issued, history>>

DeploymentGoesOn(name) ==
  /\ RunGoesOn(name)
  /\ UNCHANGED <<headVars, stateVars, infoVars, cmlVars, api, at, local, issued, history>>

Environment ==
  \/ HeadFails \/ HeadStarts
  \/ (\E g \in Groups : DefineGroup(g) \/ RemoveGroup(g)) \/ SaveInfo
  \/ \E name \in Names : Deploy(name) \/ Undeploy(name) \/ DeploymentGoesOn(name)

Next ==
  \/ Environment
  \/ \E j \in Jobs : StartRun(j) \/ JobStep(j) \/ RequestHangs(j) \/ Crash(j)

(* A job that runs goes on, unless one of its requests hangs; its wait for *)
(* the head has an end.                                                    *)
Spec == Init /\ [][Next]_vars /\ \A j \in Jobs : WF_vars(JobStep(j))

-----------------------------------------------------------------------------
(* From the detection of a failure to the end of its recovery the head is  *)
(* restarted at most once, however often the job is killed and run again   *)
(* (recovery_state.py: "never repeats an irreversible step"), unless two   *)
(* runs were at work at once.                                              *)
HeadRestartedOnce == ~overlapped => issued <= 1

(* When a run reports success the cluster info has the address of the head *)
(* that is up, there are as many workers as the groups ask for, and each of*)
(* them joins that head, unless its launcher has an address of its own:    *)
(* provided that, during this run, no other one was at work, no handler of *)
(* the management API undid the rewrite of the cluster info, and no        *)
(* deletion failed, which the job does not notice.                         *)
SuccessMeansRebuilt ==
  \A j \in Jobs : at[j] = "complete" /\ seen[j] \cap {"overlap", "clobbered", "undeleted"} = {} =>
    /\ info.head_address = epoch
    /\ \A app \in apps : app.head_address = epoch \/ app.baked
    /\ Cardinality(apps) = Count * Cardinality(local[j].groups)

(* When a run reports success each application on record was deployed, or  *)
(* its request is counted as failed, or the head has lost or deleted it    *)
(* since and the record does not know: provided that the run has read the  *)
(* record, that no other run was at work, and that the head did not die.   *)
SuccessMeansRedeployed ==
  \A j \in Jobs : at[j] = "complete" /\ seen[j] \cap {"overlap", "died", "unread"} = {} =>
    store \subseteq live \cup starting \cup local[j].failed \cup unnoticed

(* A run ends, with a success, or with an error and the lock released,     *)
(* unless one of its requests is never answered.                           *)
RunsEnd == \A j \in Jobs : at[j] # "idle" ~> at[j] = "idle" \/ at[j] = "hung"

(* A phase after RESTARTING_HEAD means that the restart of the head was    *)
(* requested.                                                              *)
LaterPhasesFollowTheRestart ==
  phase \in {"WAITING_HEAD", "UPDATING_INFO", "REBUILDING_WORKERS", "REDEPLOYING", "COMPLETE"} =>
    issued > 0
=============================================================================
