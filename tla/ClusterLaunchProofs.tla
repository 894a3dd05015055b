------------------------- MODULE ClusterLaunchProofs -------------------------
(***************************************************************************)
(* ClusterLaunch, for any number of workers, slots, applications and       *)
(* failures of the head, although the file of the resource map may be      *)
(* unreadable or fail to be written at any time: the types, that an        *)
(* application is put on the map only while there is capacity for it, and  *)
(* that the workers of the launch join its cluster.                        *)
(***************************************************************************)
EXTENDS ClusterLaunch, FiniteSetTheorems, TLAPS

-----------------------------------------------------------------------------
(* The inductive invariant.                                                *)

(* Ids are given in order, and never again.                                *)
IdInv ==
  /\ \A a \in apps : a.id <= made
  /\ joined \subseteq 1 .. made
  /\ pending # <<>> => pending[2] <= made

(* What is about to be allocated has been validated on this very map.      *)
ValidInv == pending # <<>> /\ pending[1] = "allocate" => Validate

(* The job asks for workers after it has the address, if it gets it; from  *)
(* then on it does not write another one.                                  *)
Early == {"start", "waitHead", "stop", "waitApi", "address"}

LaunchInv ==
  /\ step \in Early => joined = {} /\ ~addressSaved
  /\ addressSaved => cluster_info = Current /\ file \in {<<>>, <<Current>>}
  /\ LaunchedWorkersJoin

Inv == TypeOK /\ IdInv /\ ValidInv /\ LaunchInv

(* The job starts with no application, and perhaps with an old file.       *)
LEMMA InitInv == Init => Inv
PROOF
  <1> SUFFICES ASSUME Init PROVE Inv
    OBVIOUS
  <1> USE DEF Init
  <1>1. AppsTypeOK
    <2>1. file \in {<<>>} \cup {<<i>> : i \in Info}
      BY DEF Info, Address
    <2> QED BY <2>1, AppsAssumption, DeathsAssumption DEF AppsTypeOK
  <1>2. TypeOK
    <2>1. added \in 0 .. Workers /\ cluster_info \in Info /\ step \in Step
      BY WorkersAssumption DEF Step, Info, Address
    <2> QED BY <1>1, <2>1 DEF TypeOK
  <1>3. IdInv /\ ValidInv /\ LaunchInv
    BY DEF IdInv, ValidInv, LaunchInv, LaunchedWorkersJoin
  <1> QED BY <1>2, <1>3 DEF Inv

-----------------------------------------------------------------------------
(* The operations on CML and the map.                                      *)

(* What goes to the file of the map is made of the map and the id at hand. *)
LEMMA MapOps ==
  ASSUME AppsTypeOK, NEW id \in Id,
         RegisterWorker(id) \/ Allocate(id) \/ UnregisterWorker(id) \/ Release(id)
  PROVE  workers' \subseteq Id /\ applications' \subseteq Id
PROOF
  BY DEF AppsTypeOK, RegisterWorker, Allocate, UnregisterWorker, Release, Loads, Save, MapIsTorn,
         mapVars

(* The id of an application that is made is new.                           *)
LEMMA CreatedIsNew ==
  ASSUME AppsTypeOK, IdInv, NEW kind \in Kind, NEW address \in Address, Created(kind, address)
  PROVE  /\ made' = made + 1 /\ made' \in 0 .. MaxApps /\ made' \in Id /\ made \in Nat
         /\ apps' \subseteq App
         /\ \E a \in App : /\ apps' = apps \cup {a} /\ a.id = made' /\ a.kind = kind
                           /\ a.head_address = address
PROOF
  <1>1. made' = made + 1 /\ made' \in 0 .. MaxApps /\ made' \in Id /\ made \in Nat
    BY AppsAssumption DEF AppsTypeOK, Created, Id
  <1>2. PICK status \in Status :
          apps' = apps \cup {[id |-> made', kind |-> kind, status |-> status, head_address |-> address]}
    BY DEF Created
  <1> DEFINE a == [id |-> made', kind |-> kind, status |-> status, head_address |-> address]
  <1>3. a \in App /\ a.id = made' /\ a.kind = kind /\ a.head_address = address
    BY <1>1 DEF App
  <1> HIDE DEF a
  <1>4. apps' \subseteq App /\ apps' = apps \cup {a}
    BY <1>2, <1>3 DEF AppsTypeOK, a
  <1> QED BY <1>1, <1>3, <1>4

(* What every operation keeps: the types, the ids in order; and an         *)
(* application that exists after it existed before, or is the next one.    *)
Keeps ==
  /\ AppsTypeOK'
  /\ made' \in {made, made + 1}
  /\ \A a \in apps' : a.id <= made'
  /\ pending' # <<>> => pending'[2] <= made'
  /\ \A a \in apps' : \/ \E b \in apps : a.id = b.id /\ a.head_address = b.head_address
                      \/ a.id = made + 1

(* A worker is created, and is to be registered.                           *)
LEMMA CreateWorkerKeeps ==
  ASSUME AppsTypeOK, IdInv, CreateWorkerNode, UNCHANGED <<head, deaths, file>>
  PROVE  /\ Keeps
         /\ made' = made + 1
         /\ \A a \in apps' : a \in apps \/ (a.id = made + 1 /\ a.head_address = file[1].head_address)
PROOF
  <1>1. pending = <<>> /\ file # <<>> /\ Created("worker", file[1].head_address)
        /\ ToRecord("register") /\ UNCHANGED mapVars
    BY DEF CreateWorkerNode, Ready
  <1>2. file[1].head_address \in Address
    BY <1>1 DEF AppsTypeOK, Info
  <1>3. /\ made' = made + 1 /\ made' \in 0 .. MaxApps /\ made' \in Id /\ made \in Nat
        /\ apps' \subseteq App
        /\ \E a \in App : /\ apps' = apps \cup {a} /\ a.id = made' /\ a.kind = "worker"
                          /\ a.head_address = file[1].head_address
    BY <1>1, <1>2, CreatedIsNew DEF Kind
  <1>4. pending' \in {<<"register", made'>>, <<>>}
    BY <1>1 DEF ToRecord
  <1>5. AppsTypeOK'
    <2>1. pending' \in {<<>>} \cup ({"register", "allocate", "unregister", "release"} \X Id)
      BY <1>3, <1>4
    <2> QED BY <1>1, <1>3, <2>1 DEF AppsTypeOK, mapVars
  <1>6. (\A a \in apps' : a.id <= made') /\ (pending' # <<>> => pending'[2] <= made')
    <2>1. \A a \in apps' : a.id <= made'
      <3> SUFFICES ASSUME NEW a \in apps' PROVE a.id <= made'
        OBVIOUS
      <3>1. a \in apps \/ a.id = made'
        BY <1>3
      <3>2. a.id \in Nat
        BY <1>3 DEF App, Id
      <3> QED BY <1>3, <3>1, <3>2 DEF IdInv
    <2>2. pending' # <<>> => pending'[2] = made'
      BY <1>4
    <2> QED BY <2>1, <2>2, <1>3
  <1> QED BY <1>3, <1>5, <1>6 DEF Keeps

(* An application that takes capacity is created, and is to be allocated.  *)
LEMMA LaunchApplicationKeeps ==
  ASSUME AppsTypeOK, IdInv, LaunchCaiApplication, UNCHANGED <<head, deaths, file>>
  PROVE  Keeps
PROOF
  <1>1. pending = <<>> /\ Created("application", "none") /\ ToRecord("allocate") /\ UNCHANGED mapVars
    BY DEF LaunchCaiApplication, Ready
  <1>2. /\ made' = made + 1 /\ made' \in 0 .. MaxApps /\ made' \in Id /\ made \in Nat
        /\ apps' \subseteq App
        /\ \E a \in App : apps' = apps \cup {a} /\ a.id = made' /\ a.kind = "application"
    BY <1>1, CreatedIsNew DEF Kind, Address
  <1>3. pending' \in {<<"allocate", made'>>, <<>>}
    BY <1>1 DEF ToRecord
  <1>4. AppsTypeOK'
    <2>1. pending' \in {<<>>} \cup ({"register", "allocate", "unregister", "release"} \X Id)
      BY <1>2, <1>3
    <2> QED BY <1>1, <1>2, <2>1 DEF AppsTypeOK, mapVars
  <1>5. (\A a \in apps' : a.id <= made') /\ (pending' # <<>> => pending'[2] <= made')
    <2>1. \A a \in apps' : a.id <= made'
      <3> SUFFICES ASSUME NEW a \in apps' PROVE a.id <= made'
        OBVIOUS
      <3>1. a \in apps \/ a.id = made'
        BY <1>2
      <3>2. a.id \in Nat
        BY <1>2 DEF App, Id
      <3> QED BY <1>2, <3>1, <3>2 DEF IdInv
    <2>2. pending' # <<>> => pending'[2] = made'
      BY <1>3
    <2> QED BY <2>1, <2>2, <1>2
  <1> QED BY <1>2, <1>4, <1>5 DEF Keeps

(* An application is deleted, or not, and is to be taken off the map.      *)
LEMMA RemoveKeeps ==
  ASSUME AppsTypeOK, IdInv, UNCHANGED <<head, deaths, file>>,
         NEW id \in {a.id : a \in apps}, RemoveWorkerNode(id) \/ RemoveCaiApplication(id)
  PROVE  Keeps
PROOF
  <1>1. /\ pending = <<>> /\ UNCHANGED <<made, workers, applications>>
        /\ apps' \in {apps, {a \in apps : a.id # id}}
        /\ pending' \in {<<"unregister", id>>, <<"release", id>>}
    BY DEF RemoveWorkerNode, RemoveCaiApplication, Ready, Deleted, mapVars
  <1>2. id \in Id /\ id <= made
    BY DEF AppsTypeOK, App, IdInv
  <1>4. AppsTypeOK'
    <2>1. pending' \in {<<>>} \cup ({"register", "allocate", "unregister", "release"} \X Id)
      BY <1>1, <1>2
    <2>2. apps' \subseteq App
      BY <1>1 DEF AppsTypeOK
    <2> QED BY <1>1, <2>1, <2>2 DEF AppsTypeOK
  <1>6. (\A a \in apps' : a.id <= made') /\ (pending' # <<>> => pending'[2] <= made')
    BY <1>1, <1>2 DEF IdInv
  <1> QED BY <1>1, <1>4, <1>6 DEF Keeps

(* The second step of an operation goes to the map.                        *)
LEMMA RecordKeeps ==
  ASSUME AppsTypeOK, IdInv, UNCHANGED <<head, deaths, file>>, RecordInMap
  PROVE  Keeps
PROOF
  <1>1. pending # <<>> /\ pending' = <<>> /\ UNCHANGED <<apps, made>>
    BY DEF RecordInMap, cmlVars
  <1>2. pending[2] \in Id
    BY <1>1 DEF AppsTypeOK
  <1>3. workers' \subseteq Id /\ applications' \subseteq Id
    BY <1>2, MapOps DEF RecordInMap
  <1>4. AppsTypeOK'
    BY <1>1, <1>3 DEF AppsTypeOK
  <1> QED BY <1>1, <1>4 DEF Keeps, IdInv

(* The map is compared with what CML lists: nothing is added to it.        *)
LEMMA SyncPrunes ==
  ASSUME GetResourceMap
  PROVE  /\ workers' \subseteq workers /\ applications' \subseteq applications
         /\ pending = <<>> /\ UNCHANGED <<apps, made, pending>>
PROOF
  <1> DEFINE runs == {a.id : a \in {b \in apps : b.status = "running"}}
  <1>1. UNCHANGED mapVars \/ Save(workers \cap runs, applications \cap runs)
    BY DEF GetResourceMap
  <1>2. workers' \subseteq workers /\ applications' \subseteq applications
    BY <1>1 DEF Save, MapIsTorn, mapVars
  <1> QED BY <1>2 DEF GetResourceMap, Ready, cmlVars

(* The comparison keeps the rest.                                          *)
LEMMA SyncKeeps ==
  ASSUME AppsTypeOK, IdInv, UNCHANGED <<head, deaths, file>>, GetResourceMap
  PROVE  Keeps
PROOF
  <1>1. AppsTypeOK'
    BY SyncPrunes DEF AppsTypeOK
  <1> QED BY <1>1, SyncPrunes DEF Keeps, IdInv

(* An application changes its status, or is deleted by a user.             *)
LEMMA StatusKeeps ==
  ASSUME AppsTypeOK, IdInv, UNCHANGED <<head, deaths, file>>, StatusChanges
  PROVE  Keeps
PROOF
  <1>1. PICK a \in apps :
          \/ \E status \in Status \ {a.status} :
               apps' = (apps \ {a}) \cup {[a EXCEPT !.status = status]}
          \/ apps' = {b \in apps : b.id # a.id}
    BY DEF StatusChanges, Deleted
  <1>2. UNCHANGED <<made, workers, applications, pending>>
    BY DEF StatusChanges, mapVars
  <1>3. CASE \E status \in Status \ {a.status} :
               apps' = (apps \ {a}) \cup {[a EXCEPT !.status = status]}
    <2>1. PICK status \in Status : apps' = (apps \ {a}) \cup {[a EXCEPT !.status = status]}
      BY <1>3
    <2> DEFINE b == [a EXCEPT !.status = status]
    <2>2. b \in App /\ b.id = a.id /\ b.head_address = a.head_address
      BY DEF AppsTypeOK, App
    <2> HIDE DEF b
    <2>3. apps' = (apps \ {a}) \cup {b}
      BY <2>1 DEF b
    <2>4. AppsTypeOK'
      BY <1>2, <2>2, <2>3 DEF AppsTypeOK
    <2> QED BY <1>2, <2>2, <2>3, <2>4 DEF Keeps, IdInv
  <1>4. CASE apps' = {b \in apps : b.id # a.id}
    <2>1. AppsTypeOK'
      BY <1>2, <1>4 DEF AppsTypeOK
    <2> QED BY <1>2, <1>4, <2>1 DEF Keeps, IdInv
  <1> QED BY <1>1, <1>3, <1>4

(* The handler at work dies with the head.                                 *)
LEMMA DeathKeeps ==
  ASSUME AppsTypeOK, IdInv, HandlerDies, UNCHANGED file,
         head' \in {"none", "starting", "up", "down"}, deaths' \in 0 .. MaxDeaths
  PROVE  Keeps
PROOF
  <1>1. /\ pending' = <<>> /\ UNCHANGED <<apps, made>>
        /\ workers' \subseteq workers /\ applications' \subseteq applications
    BY DEF HandlerDies, MapIsTorn, cmlVars, mapVars
  <1>2. AppsTypeOK'
    BY <1>1 DEF AppsTypeOK
  <1> QED BY <1>1, <1>2 DEF Keeps, IdInv

(* The recovery job has replaced the workers.                              *)
LEMMA RecoveryKeeps ==
  ASSUME AppsTypeOK, IdInv, UNCHANGED <<head, deaths, file>>, RecoveryRebuilds
  PROVE  /\ Keeps
         /\ \A a \in apps' : a \in apps \/ (a.id = made + 1 /\ a.head_address = "current")
PROOF
  <1>1. UNCHANGED <<workers, applications, pending>>
    BY DEF RecoveryRebuilds, mapVars
  <1>3. made \in Nat /\ made \in 0 .. MaxApps /\ MaxApps \in Nat
    BY AppsAssumption DEF AppsTypeOK
  <1>4. CASE made < MaxApps
    <2> DEFINE b == [id |-> made + 1, kind |-> "worker", status |-> "running", head_address |-> "current"]
    <2>1. made + 1 \in Id /\ made + 1 \in 0 .. MaxApps
      BY <1>3, <1>4 DEF Id
    <2>2. b \in App /\ b.id = made + 1 /\ b.head_address = "current"
      BY <2>1 DEF App, Kind, Status, Address
    <2>3. apps' = {a \in apps : a.kind # "worker"} \cup {b} /\ made' = made + 1
      BY <1>4 DEF RecoveryRebuilds
    <2> HIDE DEF b
    <2>4. AppsTypeOK'
      BY <1>1, <2>1, <2>2, <2>3 DEF AppsTypeOK
    <2>5. \A a \in apps' : a.id <= made'
      <3> SUFFICES ASSUME NEW a \in apps' PROVE a.id <= made'
        OBVIOUS
      <3>1. (a \in apps /\ a.id \in Nat) \/ a = b
        BY <2>3 DEF AppsTypeOK, App, Id
      <3> QED BY <1>3, <2>2, <2>3, <3>1 DEF IdInv
    <2>6. pending' # <<>> => pending'[2] <= made'
      <3>1. pending # <<>> => pending[2] \in Nat
        BY DEF AppsTypeOK, Id
      <3> QED BY <1>1, <1>3, <2>3, <3>1 DEF IdInv
    <2> QED BY <1>3, <2>2, <2>3, <2>4, <2>5, <2>6 DEF Keeps
  <1>5. CASE ~(made < MaxApps)
    <2>1. apps' = {a \in apps : a.kind # "worker"} /\ made' = made
      BY <1>5 DEF RecoveryRebuilds
    <2>2. AppsTypeOK'
      BY <1>1, <2>1 DEF AppsTypeOK
    <2> QED BY <1>1, <2>1, <2>2 DEF Keeps, IdInv
  <1> QED BY <1>4, <1>5

-----------------------------------------------------------------------------
(* The steps of the specification.                                         *)

(* A step that leaves the applications and the map alone.                  *)
LEMMA AloneKeeps ==
  ASSUME AppsTypeOK, IdInv, UNCHANGED <<cmlVars, deaths, mapVars, pending>>,
         head' \in {"none", "starting", "up", "down"}, file' \in {<<>>} \cup {<<i>> : i \in Info}
  PROVE  Keeps
PROOF
  <1> USE DEF cmlVars, mapVars
  <1>1. AppsTypeOK'
    BY DEF AppsTypeOK
  <1> QED BY <1>1 DEF Keeps, IdInv

(* The steps of the head, the API and the users leave what the job knows.  *)
LEMMA OthersKeepInv ==
  ASSUME Inv, HeadChanges \/ Recovers \/ ApiStep \/ UserStep
  PROVE  TypeOK' /\ IdInv' /\ LaunchInv'
PROOF
  <1>0. TypeOK /\ AppsTypeOK /\ IdInv /\ LaunchInv
    BY DEF Inv, TypeOK
  <1>1. /\ UNCHANGED <<file, step, cluster_info, management, added, joined, recoveryJob, headKnown>>
        /\ UNCHANGED addressSaved
    BY DEF HeadChanges, Recovers, ApiStep, UserStep, launchVars, jobVars
  <1>2. Keeps
    <2>1. CASE HeadChanges
      <3>1. CASE HandlerDies
        <4>1. head' \in {"none", "starting", "up", "down"} /\ deaths' \in 0 .. MaxDeaths
          BY <1>0, <2>1, DeathsAssumption DEF HeadChanges, AppsTypeOK
        <4> QED BY <1>0, <1>1, <3>1, <4>1, DeathKeeps
      <3>2. CASE ~HandlerDies
        <4>1. /\ UNCHANGED <<cmlVars, deaths, mapVars, pending>>
              /\ head' \in {"none", "starting", "up", "down"}
          BY <2>1, <3>2 DEF HeadChanges
        <4>2. file' \in {<<>>} \cup {<<i>> : i \in Info}
          BY <1>0, <1>1 DEF AppsTypeOK
        <4> QED BY <1>0, <4>1, <4>2, AloneKeeps
      <3> QED BY <3>1, <3>2
    <2>2. CASE Recovers
      BY <1>0, <2>2, RecoveryKeeps DEF Recovers
    <2>3. CASE ApiStep
      <3>1. UNCHANGED <<head, deaths, file>> /\ Handler
        BY <2>3 DEF ApiStep
      <3> QED BY <1>0, <3>1, CreateWorkerKeeps, LaunchApplicationKeeps, RemoveKeeps, RecordKeeps,
                 SyncKeeps DEF Handler
    <2>4. CASE UserStep
      BY <1>0, <2>4, StatusKeeps DEF UserStep
    <2> QED BY <2>1, <2>2, <2>3, <2>4
  <1>3. TypeOK'
    BY <1>0, <1>1, <1>2 DEF TypeOK, Keeps
  <1>4. made \in Nat /\ joined \subseteq 1 .. made /\ joined \subseteq 1 .. made'
    BY <1>0, <1>2, AppsAssumption DEF AppsTypeOK, IdInv, Keeps
  <1>5. IdInv'
    BY <1>1, <1>2, <1>4 DEF IdInv, Keeps
  <1>6. LaunchInv'
    <2>1. \A a \in apps' : a.id \in joined =>
            \E b \in apps : a.id = b.id /\ a.head_address = b.head_address
      BY <1>2, <1>4 DEF Keeps
    <2>2. LaunchedWorkersJoin'
      BY <1>0, <1>1, <2>1 DEF LaunchInv, LaunchedWorkersJoin
    <2> QED BY <1>0, <1>1, <2>2 DEF LaunchInv, Current
  <1> QED BY <1>3, <1>5, <1>6

(* The request for a worker: the file has the address, once it was saved.  *)
LEMMA AddWorkerKeepsInv ==
  ASSUME Inv, AddWorker
  PROVE  TypeOK' /\ IdInv' /\ LaunchInv'
PROOF
  <1>0. TypeOK /\ AppsTypeOK /\ IdInv /\ LaunchInv
    BY DEF Inv, TypeOK
  <1>1. /\ UNCHANGED <<head, deaths, file, step, cluster_info, management, recoveryJob, headKnown>>
        /\ UNCHANGED addressSaved
        /\ step = "workers" /\ added' \in 0 .. Workers
    BY <1>0, WorkersAssumption DEF AddWorker, TypeOK
  <1>2. made \in Nat /\ step \notin Early
    BY <1>0, <1>1, AppsAssumption DEF AppsTypeOK, Early
  <1>3. CASE CreateWorkerNode /\ joined' = joined \cup {made'}
    <2>1. /\ Keeps /\ made' = made + 1
          /\ \A a \in apps' : a \in apps \/ (a.id = made + 1 /\ a.head_address = file[1].head_address)
      BY <1>0, <1>1, <1>3, CreateWorkerKeeps
    <2>2. made' \in Id /\ joined' \subseteq 1 .. made' /\ joined' \subseteq Id
      BY <1>0, <1>2, <1>3, <2>1, AppsAssumption DEF Keeps, AppsTypeOK, TypeOK, IdInv, Id
    <2>3. TypeOK'
      BY <1>0, <1>1, <2>1, <2>2 DEF TypeOK, Keeps
    <2>4. IdInv'
      BY <2>1, <2>2 DEF IdInv, Keeps
    <2>5. \A a \in apps : a.id # made'
      BY <1>0, <1>2, <2>1 DEF IdInv
    <2>6. addressSaved => file[1].head_address = "current"
      BY <1>0, <1>3 DEF LaunchInv, CreateWorkerNode, Current
    <2>7. LaunchedWorkersJoin'
      BY <1>0, <1>1, <1>3, <2>1, <2>5, <2>6 DEF LaunchInv, LaunchedWorkersJoin
    <2>8. LaunchInv'
      BY <1>0, <1>1, <1>2, <2>7 DEF LaunchInv, Current
    <2> QED BY <2>3, <2>4, <2>8
  <1>4. CASE UNCHANGED <<cmlVars, mapVars, pending, joined>>
    <2> USE DEF cmlVars, mapVars
    <2>1. TypeOK'
      BY <1>0, <1>1, <1>4 DEF TypeOK, AppsTypeOK
    <2>2. IdInv' /\ LaunchInv'
      BY <1>0, <1>1, <1>4 DEF IdInv, LaunchInv, LaunchedWorkersJoin, Current
    <2> QED BY <2>1, <2>2
  <1> QED BY <1>3, <1>4 DEF AddWorker

(* The other steps of the launch job leave the applications alone, and     *)
(* what they write after the address was saved is that address.            *)
LEMMA LaunchKeepsInv ==
  ASSUME Inv, \/ CreateHead \/ HeadIsRunning \/ HeadFailed \/ StopCluster
              \/ WaitForManagementApi \/ FetchAddress \/ WorkersAdded
              \/ WriteClusterInfo \/ RegisterRecoveryJob \/ LaunchIsKilled \/ RequestHangs
  PROVE  TypeOK' /\ IdInv' /\ LaunchInv'
PROOF
  <1>0. TypeOK /\ AppsTypeOK /\ IdInv /\ LaunchInv
    BY DEF Inv, TypeOK
  <1> USE DEF Idle, Go, cmlVars, mapVars, jobVars, Current
  <1>1. UNCHANGED <<cmlVars, deaths, mapVars, pending, joined, added>>
    BY DEF CreateHead, HeadIsRunning, HeadFailed, StopCluster, WaitForManagementApi, FetchAddress,
           WorkersAdded, WriteClusterInfo, RegisterRecoveryJob, LaunchIsKilled, RequestHangs
  <1>2. /\ head' \in {"none", "starting", "up", "down"}
        /\ step' \in Step /\ management' \in BOOLEAN /\ recoveryJob' \in BOOLEAN /\ headKnown' \in BOOLEAN
        /\ addressSaved' \in BOOLEAN
    BY <1>0 DEF CreateHead, HeadIsRunning, HeadFailed, StopCluster, WaitForManagementApi, FetchAddress,
           WorkersAdded, WriteClusterInfo, RegisterRecoveryJob, LaunchIsKilled, RequestHangs, TypeOK,
           AppsTypeOK, Step
  <1>3. \/ UNCHANGED <<cluster_info, file, addressSaved>>
        \/ /\ UNCHANGED <<cluster_info, addressSaved>> /\ step = "write"
           /\ file' \in {file, <<>>, <<cluster_info>>}
        \/ /\ step = "address" /\ step' = "workers" /\ cluster_info' = Current
           /\ \/ file' = <<Current>> /\ addressSaved'
              \/ file' \in {file, <<>>} /\ addressSaved' = addressSaved
    BY DEF CreateHead, HeadIsRunning, HeadFailed, StopCluster, WaitForManagementApi, FetchAddress,
           WorkersAdded, WriteClusterInfo, RegisterRecoveryJob, LaunchIsKilled, RequestHangs
  <1>4. cluster_info' \in Info /\ file' \in {<<>>} \cup {<<i>> : i \in Info}
    <2>1. Current \in Info
      BY DEF Info, Address
    <2> QED BY <1>0, <1>3, <2>1 DEF AppsTypeOK, TypeOK
  <1>5. Keeps
    BY <1>0, <1>1, <1>2, <1>4, AloneKeeps
  <1>6. TypeOK' /\ IdInv'
    BY <1>0, <1>1, <1>2, <1>4, <1>5 DEF TypeOK, IdInv, Keeps
  <1>7. LaunchInv'
    <2>1. step' \in Early => step \in Early /\ UNCHANGED addressSaved
      BY DEF CreateHead, HeadIsRunning, HeadFailed, StopCluster, WaitForManagementApi, FetchAddress,
             WorkersAdded, WriteClusterInfo, RegisterRecoveryJob, LaunchIsKilled, RequestHangs, Early
    <2>2. step = "address" => joined = {} /\ ~addressSaved
      BY <1>0 DEF LaunchInv, Early
    <2>3. step' \in Early => joined' = {} /\ ~addressSaved'
      BY <1>0, <1>1, <2>1 DEF LaunchInv
    <2>4. addressSaved' => cluster_info' = Current /\ file' \in {<<>>, <<Current>>}
      BY <1>0, <1>3, <2>2 DEF LaunchInv
    <2>5. LaunchedWorkersJoin'
      BY <1>0, <1>1, <1>3, <2>2 DEF LaunchInv, LaunchedWorkersJoin
    <2> QED BY <2>3, <2>4, <2>5 DEF LaunchInv
  <1> QED BY <1>6, <1>7

(* Nothing is done to the map while an allocation is pending, and one is   *)
(* pending only after validate.                                            *)
LEMMA ValidStep ==
  ASSUME ValidInv, [Next]_vars
  PROVE  ValidInv'
PROOF
  <1>1. \/ UNCHANGED <<mapVars, pending>>
        \/ pending' = <<>>
        \/ pending'[1] # "allocate"
        \/ LaunchCaiApplication
    <2>1. CASE UNCHANGED vars
      BY <2>1 DEF vars
    <2>2. CASE LaunchStep \/ LaunchIsKilled \/ RequestHangs
      <3>1. CASE AddWorker
        BY <3>1 DEF AddWorker, CreateWorkerNode, ToRecord
      <3> QED BY <2>2, <3>1
           DEF LaunchStep, Idle, CreateHead, HeadIsRunning, HeadFailed, StopCluster,
               WaitForManagementApi, FetchAddress, WorkersAdded, WriteClusterInfo,
               RegisterRecoveryJob, LaunchIsKilled, RequestHangs
    <2>3. CASE HeadChanges
      BY <2>3 DEF HeadChanges, HandlerDies
    <2>4. CASE Recovers \/ UserStep
      BY <2>4 DEF Recovers, RecoveryRebuilds, UserStep, StatusChanges
    <2>5. CASE ApiStep
      BY <2>5 DEF ApiStep, Handler, CreateWorkerNode, ToRecord, RemoveWorkerNode,
                  RemoveCaiApplication, RecordInMap, GetResourceMap, Ready
    <2> QED BY <2>1, <2>2, <2>3, <2>4, <2>5 DEF Next
  <1>2. CASE LaunchCaiApplication
    BY <1>2 DEF LaunchCaiApplication, ValidInv, Validate, mapVars
  <1> QED BY <1>1, <1>2 DEF ValidInv, Validate, mapVars

-----------------------------------------------------------------------------
(* The invariant holds in every state.                                     *)

Safety == Init /\ [][Next]_vars

(* Every step keeps the invariant.                                         *)
LEMMA InvStep == Inv /\ [Next]_vars => Inv'
PROOF
  <1> SUFFICES ASSUME Inv, [Next]_vars PROVE Inv'
    OBVIOUS
  <1>1. ValidInv'
    BY ValidStep DEF Inv
  <1>2. CASE UNCHANGED vars
    BY <1>1, <1>2 DEF vars, cmlVars, mapVars, launchVars, jobVars, Inv, TypeOK, AppsTypeOK, IdInv,
                      LaunchInv, LaunchedWorkersJoin, Current
  <1>3. CASE Next
    BY <1>1, <1>3, OthersKeepInv, AddWorkerKeepsInv, LaunchKeepsInv DEF Next, LaunchStep, Inv
  <1> QED BY <1>2, <1>3

(* The invariant holds in every state a launch can be in.                  *)
THEOREM Invariance == Safety => []Inv
PROOF
  BY InitInv, InvStep, PTL DEF Safety

(* The variables of a launch keep their types.                             *)
THEOREM TypeCorrect == Spec => []TypeOK
PROOF
  <1>1. Inv => TypeOK
    BY DEF Inv
  <1> QED BY Invariance, <1>1, PTL DEF Spec, Safety

(* Once the address of the head is in the file, the workers the job is     *)
(* given join the head of the job, whatever the file held before.          *)
THEOREM WorkersJoinTheirHead == Spec => []LaunchedWorkersJoin
PROOF
  <1>1. Inv => LaunchedWorkersJoin
    BY DEF Inv, LaunchInv
  <1> QED BY Invariance, <1>1, PTL DEF Spec, Safety

-----------------------------------------------------------------------------
(* The capacity.                                                           *)

(* A set of ids that is on the map is finite.                              *)
LEMMA MapIsFinite ==
  ASSUME NEW S \in SUBSET Id
  PROVE  IsFiniteSet(S) /\ Cardinality(S) \in Nat
PROOF
  <1>1. IsFiniteSet(Id)
    BY FS_Interval, AppsAssumption DEF Id
  <1> QED BY <1>1, FS_Subset, FS_CardinalityType

(* An allocation that reaches a map that could be read takes a slot that   *)
(* is free.                                                                *)
LEMMA AllocateFits ==
  ASSUME AppsTypeOK, Validate, NEW id \in Id, Allocate(id), workers' # {}
  PROVE  Cardinality(applications') <= Slots * Cardinality(workers')
PROOF
  <1>1. workers' = workers /\ applications' \in {applications, applications \cup {id}}
    BY DEF Allocate, Loads, Save, MapIsTorn, mapVars
  <1>2. /\ IsFiniteSet(applications) /\ Cardinality(applications) \in Nat
        /\ Cardinality(workers) \in Nat
    BY MapIsFinite DEF AppsTypeOK
  <1>3. Cardinality(applications') \in {Cardinality(applications), Cardinality(applications) + 1}
    BY <1>1, <1>2, FS_AddElement
  <1>4. Cardinality(applications) < Slots * Cardinality(workers)
    BY DEF Validate
  <1>5. Slots * Cardinality(workers) \in Nat
    BY <1>2, SlotsAssumption
  <1> QED BY <1>1, <1>2, <1>3, <1>4, <1>5

(* No step puts an application on the map without a slot for it.           *)
LEMMA FitStep ==
  ASSUME Inv, [Next]_vars, applications' \ applications # {}, workers' # {}
  PROVE  Cardinality(applications') <= Slots * Cardinality(workers')
PROOF
  <1>1. RecordInMap
    <2>1. CASE UNCHANGED vars
      BY <2>1 DEF vars, mapVars
    <2>2. CASE LaunchStep \/ LaunchIsKilled \/ RequestHangs
      <3>1. UNCHANGED mapVars
        BY <2>2 DEF LaunchStep, Idle, CreateHead, HeadIsRunning, HeadFailed, StopCluster,
                    WaitForManagementApi, FetchAddress, AddWorker, CreateWorkerNode, WorkersAdded,
                    WriteClusterInfo, RegisterRecoveryJob, LaunchIsKilled, RequestHangs
      <3> QED BY <3>1 DEF mapVars
    <2>3. CASE HeadChanges
      BY <2>3 DEF HeadChanges, HandlerDies, MapIsTorn, mapVars
    <2>4. CASE Recovers \/ UserStep
      BY <2>4 DEF Recovers, RecoveryRebuilds, UserStep, StatusChanges, mapVars
    <2>5. CASE ApiStep
      BY <2>5, SyncPrunes DEF ApiStep, Handler, CreateWorkerNode, LaunchCaiApplication,
                              RemoveWorkerNode, RemoveCaiApplication, mapVars
    <2> QED BY <2>1, <2>2, <2>3, <2>4, <2>5 DEF Next
  <1>2. pending # <<>> /\ pending[2] \in Id
    BY <1>1 DEF RecordInMap, Inv, TypeOK, AppsTypeOK
  <1>3. pending[1] = "allocate" /\ Allocate(pending[2])
    <2>1. ASSUME RegisterWorker(pending[2]) \/ UnregisterWorker(pending[2]) \/ Release(pending[2])
          PROVE  applications' \subseteq applications
      BY <2>1 DEF RegisterWorker, UnregisterWorker, Release, Loads, Save, MapIsTorn, mapVars
    <2> QED BY <1>1, <2>1 DEF RecordInMap
  <1> QED BY <1>2, <1>3, AllocateFits DEF Inv, TypeOK, ValidInv

(* An application is put on the map only when the map that is written has  *)
(* room for it, although the map was looked at before CML was asked for the*)
(* application and is written after it.                                    *)
THEOREM AllocationsAreValid == Spec => AllocationsFit
PROOF
  <1>1. Inv /\ [Next]_vars
          => [applications' \ applications # {} /\ workers' # {}
                => Cardinality(applications') <= Slots * Cardinality(workers')]_vars
    BY FitStep
  <1> QED BY Invariance, <1>1, PTL DEF Spec, Safety, AllocationsFit

=============================================================================
