--------------------------- MODULE CmlApplications ---------------------------
(***************************************************************************)
(* The capacity bookkeeping of the management API of a Ray cluster on      *)
(* Cloudera AI (cai/ray/ray_serve_cai/management): the handlers of         *)
(* /api/v1/resources and /api/v1/cml-apps, CoordinatorService, CAIService  *)
(* and ResourceMap.  A worker application adds Slots to the capacity of    *)
(* the cluster, any other application takes one.  Handlers run one at a    *)
(* time; one that changes CML and the map does so in two steps, and may    *)
(* die with the head between them.  A map that cannot be read is taken for *)
(* an empty one, and the failure of a write is only logged.  The CML API   *)
(* and its users are external.                                             *)
(***************************************************************************)
EXTENDS Naturals, FiniteSets

CONSTANTS Slots,    \* applications a worker has room for
          MaxApps,  \* bound on the applications that are created
          MaxDeaths \* bound on the failures of the head

ASSUME SlotsAssumption == Slots \in Nat \ {0}
ASSUME AppsAssumption == MaxApps \in Nat
ASSUME DeathsAssumption == MaxDeaths \in Nat

Id      == 1..MaxApps
Address == {"none", "previous", "current"}
Kind    == {"worker", "application"}
Status  == {"running", "other"}  \* running, starting, scheduling; anything else
App     == [id : Id, kind : Kind, status : Status, head_address : Address]
Info    == [head_address : Address]

VARIABLES
  head,          \* the head application: "none", "starting", "up", "down"
  deaths,        \* failures of the head so far
  file,          \* ray_cluster_info.json, if it is there
  apps,          \* applications that exist in CML
  made,          \* applications created so far
  workers,       \* ResourceMap: the workers on it ...
  applications,  \* ... and the applications that take capacity
  pending        \* what the handler at work has done in CML and not recorded

cmlVars == <<apps, made>>
mapVars == <<workers, applications>>

AppsTypeOK ==
  /\ head \in {"none", "starting", "up", "down"}
  /\ deaths \in 0..MaxDeaths
  /\ file \in {<<>>} \cup {<<i>> : i \in Info}
  /\ apps \subseteq App
  /\ made \in 0..MaxApps
  /\ workers \subseteq Id
  /\ applications \subseteq Id
  /\ pending \in {<<>>} \cup ({"register", "allocate", "unregister", "release"} \X Id)

-----------------------------------------------------------------------------
(* ResourceMap.                                                            *)

(* _load: the map on the disk, or an empty one if it cannot be read.       *)
Loads == {[workers |-> workers, applications |-> applications],
          [workers |-> {}, applications |-> {}]}

MapIsTorn == workers' = {} /\ applications' = {}

(* _save: the file is truncated and written.  It is unchanged if it cannot *)
(* be opened, and no longer a map if the write is cut off; its caller      *)
(* learns of neither.                                                      *)
Save(newWorkers, newApplications) ==
  \/ workers' = newWorkers /\ applications' = newApplications
  \/ UNCHANGED mapVars
  \/ MapIsTorn

RegisterWorker(id) == \E map \in Loads : Save(map.workers \cup {id}, map.applications)
Allocate(id)       == \E map \in Loads : Save(map.workers, map.applications \cup {id})

(* Nothing is saved when the entry is not on the map that was read.        *)
UnregisterWorker(id) ==
  IF id \in workers THEN Save(workers \ {id}, applications) ELSE UNCHANGED mapVars
Release(id) ==
  IF id \in applications THEN Save(workers, applications \ {id}) ELSE UNCHANGED mapVars

(* Fault: what is allocated already is not subtracted.                     *)
ValidateTotal == workers # {} /\ Slots * Cardinality(workers) >= 1

(* validate: there are workers, and what they add is not used up.          *)
Validate == workers # {} /\ Cardinality(applications) < Slots * Cardinality(workers)

-----------------------------------------------------------------------------
(* The CML API: an application is created, deleted, or the request raises. *)

Created(kind, address) ==
  /\ made < MaxApps
  /\ made' = made + 1
  /\ \E status \in Status :
       apps' = apps \cup {[id |-> made', kind |-> kind, status |-> status, head_address |-> address]}

(* What is created goes on the map next, unless the answer of CML is lost  *)
(* and the handler answers 500.                                            *)
ToRecord(operation) ==
  pending' \in {<<operation, made'>>, <<>>}

Deleted(id) == apps' = {a \in apps : a.id # id}

Ready == head = "up" /\ pending = <<>>

-----------------------------------------------------------------------------
(* POST /resources/nodes: create_worker_node reads the cluster info twice, *)
(* for the group and for the address the worker is to join, and the        *)
(* coordinator registers the worker.  The groups of the launch job have no *)
(* address in their launchers, so that the worker joins the one it is      *)
(* given; groups that were redefined since are part of Recovery.           *)
CreateWorkerNode ==
  /\ Ready
  /\ file # <<>>
  /\ Created("worker", file[1].head_address)
  /\ ToRecord("register")
  /\ UNCHANGED mapVars

(* POST /cml-apps.                                                         *)
LaunchCaiApplication ==
  /\ Ready
  /\ Validate
  /\ Created("application", "none")
  /\ ToRecord("allocate")
  /\ UNCHANGED mapVars

(* DELETE /resources/nodes/{app_id}: a deletion that is refused is only a  *)
(* warning, and the worker is taken off the map all the same.              *)
RemoveWorkerNode(id) ==
  /\ Ready
  /\ Deleted(id) \/ UNCHANGED apps
  /\ pending' = <<"unregister", id>>
  /\ UNCHANGED <<made, mapVars>>

(* DELETE /cml-apps/{app_id}: a deletion that is refused is a 500, and the *)
(* capacity stays allocated.                                               *)
RemoveCaiApplication(id) ==
  /\ Ready
  /\ Deleted(id)
  /\ pending' = <<"release", id>>
  /\ UNCHANGED <<made, mapVars>>

(* The second step of these handlers.                                      *)
RecordInMap ==
  /\ pending # <<>>
  /\ \/ pending[1] = "register" /\ RegisterWorker(pending[2])
     \/ pending[1] = "unregister" /\ UnregisterWorker(pending[2])
     \/ pending[1] = "allocate" /\ Allocate(pending[2])
     \/ pending[1] = "release" /\ Release(pending[2])
  /\ pending' = <<>>
  /\ UNCHANGED cmlVars

(* GET /resources/allocation: sync takes off the map what CML does not list*)
(* as running, starting or scheduling.                                     *)
GetResourceMap ==
  /\ Ready
  /\ LET runs  == {a.id : a \in {b \in apps : b.status = "running"}}
         stale == (workers \cup applications) \ runs
     IN  IF stale = {} THEN UNCHANGED mapVars ELSE Save(workers \cap runs, applications \cap runs)
  /\ UNCHANGED <<cmlVars, pending>>

Handler ==
  \/ CreateWorkerNode
  \/ LaunchCaiApplication
  \/ \E id \in {a.id : a \in apps} : RemoveWorkerNode(id) \/ RemoveCaiApplication(id)
  \/ RecordInMap
  \/ GetResourceMap

-----------------------------------------------------------------------------
(* The rest of the world.                                                  *)

(* An application changes its status, or a user deletes it.                *)
StatusChanges ==
  /\ \E a \in apps :
       \/ \E status \in Status \ {a.status} :
            apps' = (apps \ {a}) \cup {[a EXCEPT !.status = status]}
       \/ Deleted(a.id)
  /\ UNCHANGED <<made, mapVars, pending>>

(* The head dies, and with it the handler at work: its second step is not  *)
(* made, or is interrupted.                                                *)
HandlerDies ==
  /\ pending' = <<>>
  /\ UNCHANGED mapVars \/ (pending # <<>> /\ MapIsTorn)
  /\ UNCHANGED cmlVars

(* The recovery job (module Recovery) deletes the workers and creates      *)
(* others, and does not touch the map.                                     *)
RecoveryRebuilds ==
  /\ apps' = {a \in apps : a.kind # "worker"} \cup
       (IF made < MaxApps
          THEN {[id |-> made + 1, kind |-> "worker", status |-> "running", head_address |-> "current"]}
          ELSE {})
  /\ made' = IF made < MaxApps THEN made + 1 ELSE made
  /\ UNCHANGED <<mapVars, pending>>
=============================================================================
