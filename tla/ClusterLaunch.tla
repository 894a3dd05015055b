---------------------------- MODULE ClusterLaunch ----------------------------
(***************************************************************************)
(* The job that launches a Ray cluster on Cloudera AI: main of             *)
(* cai/ray/cai_integration/launch_ray_cluster.py, with start_cluster and   *)
(* stop_cluster of CAIClusterManager (cai/ray/ray_serve_cai/cai_cluster.py)*)
(* It makes the head application, waits for the management API the head    *)
(* runs, asks it for workers (module CmlApplications) and writes the       *)
(* cluster info.  The file of a cluster that was there before may still be *)
(* on the disk.                                                            *)
(***************************************************************************)
EXTENDS CmlApplications

CONSTANT Workers  \* workers the configuration asks for

ASSUME WorkersAssumption == Workers \in Nat

Step == {"start", "waitHead", "stop", "waitApi", "address", "workers", "write",
         "register", "done", "failed", "refused", "exited", "hung", "killed"}

VARIABLES
  step,          \* where the launch job is
  cluster_info,  \* its cluster_info: the address of the head
  management,    \* _wait_for_management_api has found the API
  added,         \* requests for a worker made so far
  joined,        \* history: workers the job was given
  recoveryJob,   \* the head-recovery job is registered
  headKnown,     \* head_app_id is set
  addressSaved   \* history: the address was fetched and is in the file

jobVars == <<cluster_info, management, added, joined, recoveryJob, headKnown, addressSaved>>
launchVars == <<step, jobVars>>
vars == <<head, deaths, file, cmlVars, mapVars, pending, launchVars>>

(* The values the variables range over.                                    *)
TypeOK ==
  /\ AppsTypeOK
  /\ step \in Step
  /\ cluster_info \in Info
  /\ management \in BOOLEAN
  /\ added \in 0..Workers
  /\ joined \subseteq Id
  /\ recoveryJob \in BOOLEAN
  /\ headKnown \in BOOLEAN
  /\ addressSaved \in BOOLEAN

Init ==
  /\ head = "none"
  /\ deaths = 0
  /\ file \in {<<>>, <<[head_address |-> "previous"]>>}
  /\ apps = {}
  /\ made = 0
  /\ workers = {}
  /\ applications = {}
  /\ pending = <<>>
  /\ step = "start"
  /\ cluster_info = [head_address |-> "none"]
  /\ management = FALSE
  /\ added = 0
  /\ joined = {}
  /\ recoveryJob = FALSE
  /\ headKnown = FALSE
  /\ addressSaved = FALSE

-----------------------------------------------------------------------------
(* start_cluster.                                                          *)

Go(next) == step' = next
Idle == UNCHANGED <<deaths, mapVars, pending>>

(* create_application: the head exists, or the request is refused, or its  *)
(* answer is lost; stop_cluster knows nothing of the head then.            *)
CreateHead ==
  /\ step = "start"
  /\ \/ head' = "starting" /\ headKnown' = TRUE /\ Go("waitHead")
     \/ head' \in {"none", "starting"} /\ UNCHANGED headKnown /\ Go("stop")
  /\ UNCHANGED <<file, cmlVars, cluster_info, management, added, joined, recoveryJob, addressSaved>> /\ Idle

(* _wait_for_application.                                                  *)
HeadIsRunning ==
  /\ step = "waitHead"
  /\ head = "up"
  /\ Go("waitApi")
  /\ UNCHANGED <<head, file, cmlVars, jobVars>> /\ Idle

(* Fault: the wait for the head has no end.                                *)
HeadIsAwaited == step = "waitHead" /\ UNCHANGED vars

(* The head has failed, did not run in time, or cannot be read.            *)
HeadFailed ==
  /\ step = "waitHead"
  /\ Go("stop")
  /\ UNCHANGED <<head, file, cmlVars, jobVars>> /\ Idle

(* stop_cluster deletes the head; whether CML does it is not looked at.    *)
StopCluster ==
  /\ step = "stop"
  /\ \/ headKnown /\ head' = "none" /\ Go("failed")
     \/ headKnown /\ head # "none" /\ Go("refused") /\ UNCHANGED head
     \/ ~headKnown /\ Go("failed") /\ UNCHANGED head
  /\ Idle
  /\ UNCHANGED <<file, cmlVars, jobVars>>

(* The requests of start_cluster and stop_cluster to CML have no timeout:  *)
(* one may never be answered, whether or not CML has carried it out.       *)
RequestHangs ==
  /\ \/ step = "start" /\ head' \in {"none", "starting"}
     \/ step = "waitHead" /\ UNCHANGED head
     \/ step = "stop" /\ headKnown /\ head' \in {"none", head}
  /\ Go("hung")
  /\ Idle
  /\ UNCHANGED <<file, cmlVars, jobVars>>

-----------------------------------------------------------------------------
(* main, once the head runs.                                               *)

(* _wait_for_management_api gives up after five minutes, and the job goes  *)
(* on without workers; without any URL of the head it raises.              *)
WaitForManagementApi ==
  /\ step = "waitApi"
  /\ \/ head = "up" /\ management' = TRUE /\ Go("address")
     \/ UNCHANGED management /\ step' \in {"write", "exited"}
  /\ UNCHANGED <<head, file, cmlVars, cluster_info, added, joined, recoveryJob, headKnown, addressSaved>> /\ Idle

Current == [head_address |-> "current"]

(* Fault: the address is only written at the end.                          *)
FetchAddressOnly ==
  /\ step = "address"
  /\ \/ head = "up" /\ cluster_info' = Current /\ addressSaved' = TRUE
     \/ UNCHANGED <<cluster_info, addressSaved>>
  /\ Go("workers")
  /\ UNCHANGED <<head, file, cmlVars, management, added, joined, recoveryJob, headKnown>> /\ Idle

(* The address is written to the file before the workers are asked for.  A *)
(* request for it that raises or finds none is not more than a warning,    *)
(* and neither is a file that cannot be opened, or is cut off while it is  *)
(* written: cluster_info has the address then, and the workers are asked   *)
(* for all the same.                                                       *)
FetchAddress ==
  /\ step = "address"
  /\ \/ /\ head = "up"
        /\ cluster_info' = Current
        /\ \/ file' = <<Current>> /\ addressSaved' = TRUE
           \/ file' \in {file, <<>>} /\ UNCHANGED addressSaved
     \/ UNCHANGED <<cluster_info, file, addressSaved>>
  /\ Go("workers")
  /\ UNCHANGED <<head, cmlVars, management, added, joined, recoveryJob, headKnown>> /\ Idle

(* POST /resources/nodes, with a timeout.  The request fails, or is        *)
(* accepted: the answer is not needed for anything.  One that is served    *)
(* only after the job has given it up is a request of the API's users.     *)
AddWorker ==
  /\ step = "workers"
  /\ added < Workers
  /\ added' = added + 1
  /\ \/ CreateWorkerNode /\ joined' = joined \cup {made'}
     \/ UNCHANGED <<cmlVars, mapVars, pending, joined>>
  /\ UNCHANGED <<head, deaths, file, step, cluster_info, management, recoveryJob, headKnown, addressSaved>>

WorkersAdded ==
  /\ step = "workers"
  /\ added = Workers
  /\ Go("write")
  /\ UNCHANGED <<head, file, cmlVars, jobVars>> /\ Idle

(* The file is written once more.  A failure, before or after the file was *)
(* truncated, ends the job with an error, and the head stays.              *)
WriteClusterInfo ==
  /\ step = "write"
  /\ \/ file' = <<cluster_info>> /\ Go("register")
     \/ file' \in {file, <<>>} /\ Go("exited")
  /\ UNCHANGED <<head, cmlVars, jobVars>> /\ Idle

(* The keys of the cluster info that start_cluster returns and main extends*)
ClusterInfoKeys ==
  {"status", "head_app_id", "head_address", "head_url", "worker_app_ids", "num_workers",
   "worker_groups", "configuration", "management_api_url"}

(* The recovery job is registered with the runtime of the head or the      *)
(* workers, if the cluster info names one; errors are only warnings.       *)
RegisterRecoveryJob ==
  /\ step = "register"
  /\ IF ClusterInfoKeys \cap {"head_runtime_identifier", "worker_runtime_identifier"} # {}
       THEN recoveryJob' \in BOOLEAN
       ELSE UNCHANGED recoveryJob
  /\ Go("done")
  /\ UNCHANGED <<head, file, cmlVars, cluster_info, management, added, joined, headKnown, addressSaved>> /\ Idle

-----------------------------------------------------------------------------
LaunchStep ==
  \/ CreateHead \/ HeadIsRunning \/ HeadFailed \/ StopCluster
  \/ WaitForManagementApi \/ FetchAddress \/ AddWorker \/ WorkersAdded
  \/ WriteClusterInfo \/ RegisterRecoveryJob

Over == step \in {"done", "failed", "refused", "exited", "killed"}

(* The pod of the job is killed.                                           *)
LaunchIsKilled ==
  /\ ~Over
  /\ Go("killed")
  /\ UNCHANGED <<head, file, cmlVars, jobVars>>
  /\ Idle

(* The head comes up, or fails, and is restarted by CML or by an operator. *)
HeadChanges ==
  /\ \/ head = "starting" /\ head' = "up" /\ UNCHANGED <<deaths, mapVars, pending, cmlVars>>
     \/ head = "down" /\ head' = "starting" /\ UNCHANGED <<deaths, mapVars, pending, cmlVars>>
     \/ /\ head \in {"starting", "up"}
        /\ deaths < MaxDeaths
        /\ deaths' = deaths + 1
        /\ head' = "down"
        /\ HandlerDies
  /\ UNCHANGED <<file, launchVars>>

(* The recovery job, after a failure of the head.                          *)
Recovers ==
  /\ deaths > 0
  /\ Ready
  /\ file # <<>>
  /\ RecoveryRebuilds
  /\ UNCHANGED <<head, deaths, file, launchVars>>

ApiStep == Handler /\ UNCHANGED <<head, deaths, file, launchVars>>

UserStep == StatusChanges /\ UNCHANGED <<head, deaths, file, launchVars>>

Next ==
  \/ LaunchStep \/ RequestHangs \/ LaunchIsKilled
  \/ HeadChanges \/ Recovers \/ ApiStep \/ UserStep

(* The job goes on unless one of its requests to CML hangs; its waits and  *)
(* its requests to the management API have an end.                         *)
Spec == Init /\ [][Next]_vars /\ WF_vars(LaunchStep)

-----------------------------------------------------------------------------
(* An application that is put on the map never takes its capacity below    *)
(* zero: validate looked at the map before CML created the application,    *)
(* and no handler, death of the head or recovery adds to the map or takes  *)
(* a worker off it meanwhile.  A map that could not be read has no worker, *)
(* and validate refuses every application from then on.                    *)
AllocationsFit ==
  [][applications' \ applications # {} /\ workers' # {}
       => Cardinality(applications') <= Slots * Cardinality(workers')]_vars

(* Once the job has fetched the address of its head and written it to the *)
(* file, its workers join that head and not the one whose cluster info was *)
(* on the disk before.                                                     *)
LaunchedWorkersJoin ==
  addressSaved => \A app \in apps : app.id \in joined => app.head_address = "current"

(* The launch job ends, unless a request of it to CML is never answered.   *)
LaunchEnds == <>(Over \/ step = "hung")

=============================================================================
