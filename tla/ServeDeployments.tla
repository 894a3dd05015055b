--------------------------- MODULE ServeDeployments ---------------------------
(***************************************************************************)
(* Ray Serve applications on a Cloudera AI cluster and the record of their *)
(* deploy requests (cai/ray/ray_serve_cai/management): the handlers of     *)
(* /api/v1/applications, the methods of RayService they call and the       *)
(* DeploymentStore they write.  The management API runs on the head, in    *)
(* one process whose handlers never await: one request is served at a      *)
(* time.  The head application, Ray and the shared disk are external.      *)
(***************************************************************************)
EXTENDS Naturals, FiniteSets

CONSTANTS Names,        \* names of Serve applications
          MaxRestarts,  \* bound on the restarts of the head
          MaxDeaths     \* bound on the failures of the head

ASSUME RestartsAssumption == MaxRestarts \in Nat
ASSUME DeathsAssumption == MaxDeaths \in Nat

VARIABLES
  head,      \* the head application: "up", "starting", "down"
  epoch,     \* restarts of the head: each one has an address of its own
  deaths,    \* failures of the head so far
  live,      \* applications Serve has
  starting,  \* applications whose serve.run went on after its handler answered
  store,     \* DeploymentStore: the applications with a recorded request
  unnoticed  \* history: what the head has lost, or deleted, and the record has not

headVars  == <<head, epoch, deaths>>
serveVars == <<live, starting, store, unnoticed>>

DeploymentsTypeOK ==
  /\ head \in {"up", "starting", "down"}
  /\ epoch \in 0..MaxRestarts
  /\ deaths \in 0..MaxDeaths
  /\ live \subseteq Names
  /\ starting \subseteq Names
  /\ store \subseteq Names
  /\ unnoticed \subseteq Names

DeploymentsInit ==
  /\ head = "up"
  /\ epoch = 0
  /\ deaths = 0
  /\ live = {}
  /\ starting = {}
  /\ store = {}
  /\ unnoticed = {}

-----------------------------------------------------------------------------
(* The head (external).  Its processes, the management API and what Serve  *)
(* had go with it.                                                         *)

HeadLoses == live' = {} /\ starting' = {} /\ unnoticed' = {} /\ UNCHANGED store

HeadDies ==
  /\ head # "down"
  /\ deaths < MaxDeaths
  /\ deaths' = deaths + 1
  /\ head' = "down"
  /\ UNCHANGED epoch
  /\ HeadLoses

HeadComesUp ==
  /\ head = "starting"
  /\ head' = "up"
  /\ UNCHANGED <<epoch, deaths, serveVars>>

(* CAIClusterManager.restart_application: the head is stopped and started, *)
(* with an address of its own.                                             *)
RestartApplication ==
  /\ epoch < MaxRestarts
  /\ epoch' = epoch + 1
  /\ head' = "starting"
  /\ UNCHANGED deaths
  /\ HeadLoses

-----------------------------------------------------------------------------
(* DeploymentStore.                                                        *)

(* _load: the record on the disk, or an empty one if it cannot be read.    *)
Loads == {store, {}}

(* _save: a failure is only logged, and leaves the record as it was.       *)
Save(records) == store' \in {records, store}

Record(name) == \E records \in Loads : Save(records \cup {name})

(* Nothing is saved when the name is not in the record that was read.      *)
Remove(name) == \E records \in Loads : IF name \in records THEN Save(records \ {name}) ELSE UNCHANGED store

(* deploy_model waits thirty seconds for serve.run, which runs in a thread *)
(* and is not stopped after that: the answer is "deploying", and the thread*)
(* has or has not handed the application to Serve.  deploy_application     *)
(* waits for as long as it takes.                                          *)
DeployModel(name) ==
  \/ live' = live \cup {name} /\ UNCHANGED starting
  \/ starting' = starting \cup {name} /\ UNCHANGED live

DeployApplication(name) == live' = live \cup {name} /\ UNCHANGED starting

(* The handler records the request when the deployment did not raise, and  *)
(* answers success whatever becomes of the record.                         *)
PostApplication(name) ==
  /\ head = "up"
  /\ DeployModel(name) \/ DeployApplication(name)
  /\ Record(name)
  /\ unnoticed' = unnoticed \ {name}

(* serve.delete, then the record.  Serve knows nothing of an application   *)
(* whose thread has not handed it over yet.                                *)
DeleteApplication(name) ==
  /\ head = "up"
  /\ live' = live \ {name}
  /\ Remove(name)
  /\ unnoticed' = unnoticed \cup ({name} \cap store')
  /\ UNCHANGED starting

(* The thread of a deployment that was answered with "deploying" hands the *)
(* application over, or fails where nobody sees it.                        *)
RunGoesOn(name) ==
  /\ name \in starting
  /\ starting' = starting \ {name}
  /\ live' \in {live, live \cup {name}}
  /\ unnoticed' = unnoticed \cup ({name} \ live')
  /\ UNCHANGED store
=============================================================================
