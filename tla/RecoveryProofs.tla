---------------------------- MODULE RecoveryProofs ----------------------------
(***************************************************************************)
(* Recovery, for any number of jobs, groups, applications and failures:    *)
(* the types, that a recovery restarts the head at most once however often *)
(* its job is killed, and what a run that reports success has done of the  *)
(* rebuilding of the workers and of the deployments on record, whatever the*)
(* runs before it have met with.                                           *)
(***************************************************************************)
EXTENDS Recovery, FiniteSetTheorems, TLAPS

-----------------------------------------------------------------------------
(* The inductive invariant.                                                *)

(* What a job knows.                                                       *)
Local == [groups : SUBSET Groups, address : Epoch, copy : {<<>>} \cup {<<i>> : i \in Info},
          stale : SUBSET App, missing : [Groups -> 0 .. Count],
          requests : SUBSET Names, failed : SUBSET Names]

TypeInv ==
  /\ TypeOK
  /\ local \in [Jobs -> Local]
  /\ issued <= epoch

(* A job that has read the cluster info still has it; the API has its copy.*)
CopyInv == \A j \in Jobs : at[j] = "loaded" => local[j].copy # <<>>

(* What a handler of the API writes has the address that it has read.      *)
ApiInv == api # <<>> => api[2].head_address = api[1].head_address

(* Two runs that are at work at one time have both seen it.                *)
ApartInv == \A j, k \in Jobs : Running(j) /\ Running(k) /\ j # k => "overlap" \in seen[j]

(* As long as no two runs were at work: the restart is only requested when *)
(* the phase that keeps it from being repeated was just recorded.          *)
OnceInv ==
  ~overlapped =>
    /\ \A j, k \in Jobs : Running(j) /\ Running(k) => j = k
    /\ phase = "DETECTED" => issued = 0
    /\ \A j \in Jobs : at[j] = "restarting" => issued = 0 /\ phase = "RESTARTING_HEAD"
    /\ \A j \in Jobs : at[j] = "begun" => phase \notin {None, "COMPLETE"}
    /\ issued <= 1

(* The requests that a run has posted are deployed or counted as failed.   *)
RunPosts(j) ==
  /\ at[j] \in {"redeploying", "complete"} =>
       store \subseteq live \cup starting \cup local[j].failed \cup local[j].requests \cup unnoticed
  /\ at[j] = "complete" => local[j].requests = {}

Losses == {"overlap", "died", "unread"}
PostedInv == \A j \in Jobs : seen[j] \cap Losses = {} => RunPosts(j)

Inv == TypeInv /\ CopyInv /\ ApiInv /\ ApartInv /\ OnceInv /\ PostedInv

(* The phases in their order.                                              *)
LEMMA IndexOfPhase ==
  /\ Index(None) = 0 /\ Index("DETECTED") = 1 /\ Index("RESTARTING_HEAD") = 2
  /\ Index("WAITING_HEAD") = 3 /\ Index("UPDATING_INFO") = 4 /\ Index("REBUILDING_WORKERS") = 5
  /\ Index("REDEPLOYING") = 6 /\ Index("COMPLETE") = 7
PROOF
  <1>1. /\ PHASES[1] = "DETECTED" /\ PHASES[2] = "RESTARTING_HEAD" /\ PHASES[3] = "WAITING_HEAD"
        /\ PHASES[4] = "UPDATING_INFO" /\ PHASES[5] = "REBUILDING_WORKERS"
        /\ PHASES[6] = "REDEPLOYING" /\ PHASES[7] = "COMPLETE"
    BY DEF PHASES
  <1>2. ASSUME NEW n \in 1 .. 7
        PROVE  (CHOOSE i \in 1 .. 7 : PHASES[i] = PHASES[n]) = n
    <2>1. \A i \in 1 .. 7 : PHASES[i] = PHASES[n] => i = n
      BY <1>1
    <2> QED BY <2>1
  <1>3. \A n \in 1 .. 7 : PHASES[n] # None => Index(PHASES[n]) = n
    BY <1>2 DEF Index
  <1> QED BY <1>1, <1>3 DEF Index, None

(* TypeOK says less of the jobs' knowledge than TypeInv.                   *)
LEMMA LocalType ==
  ASSUME NEW L \in [Jobs -> Local]
  PROVE  \A j \in Jobs :
           /\ L[j].groups \subseteq Groups
           /\ L[j].address \in Epoch
           /\ L[j].stale \subseteq App
           /\ L[j].missing \in [Groups -> 0..Count]
           /\ L[j].requests \subseteq Names
           /\ L[j].failed \subseteq Names
PROOF
  BY DEF Local

(* A recovery starts from nothing.                                         *)
LEMMA InitInv == Init => Inv
PROOF
  <1> SUFFICES ASSUME Init PROVE Inv
    OBVIOUS
  <1> USE DEF Init, DeploymentsInit
  <1>1. Nothing \in Local
    BY RunsAssumption, RestartsAssumption DEF Nothing, Local, Epoch
  <1>2. local \in [Jobs -> Local]
    BY <1>1
  <1>3. /\ epoch \in 0 .. MaxRestarts /\ issued \in 0 .. MaxRestarts /\ deaths \in 0 .. MaxDeaths
        /\ runs \in 0 .. MaxRuns /\ made \in 0 .. MaxApps
    BY RunsAssumption, RestartsAssumption, DeathsAssumption
  <1>4. info \in Info
    BY RestartsAssumption DEF Info, Epoch
  <1>5. at \in [Jobs -> Place]
    BY DEF Place
  <1>6. DeploymentsTypeOK
    BY <1>3 DEF DeploymentsTypeOK
  <1>7. phase \in Phase /\ lock \in BOOLEAN /\ apps \subseteq App
        /\ overlapped \in BOOLEAN /\ api \in {<<>>} \cup (Info \X Info) /\ issued <= epoch
    <2>1. None \in Phase
      BY DEF Phase
    <2>2. /\ phase = None /\ lock = FALSE /\ apps = {} /\ overlapped = FALSE /\ api = <<>>
          /\ issued = 0 /\ epoch = 0
      OBVIOUS
    <2> HIDE DEF Init, DeploymentsInit
    <2>3. lock \in BOOLEAN /\ overlapped \in BOOLEAN
      BY <2>2, Zenon
    <2>4. issued <= epoch
      BY <2>2
    <2> QED BY <2>1, <2>2, <2>3, <2>4
  <1>8. seen \in [Jobs -> SUBSET Anomaly] /\ launcher \in [Groups -> {<<>>} \cup {<<e>> : e \in Epoch}]
    OBVIOUS
  <1>9. TypeInv
    <2> HIDE DEF Init, DeploymentsInit
    <2> QED BY <1>2, <1>3, <1>4, <1>5, <1>6, <1>7, <1>8, LocalType DEF TypeInv, TypeOK
  <1>10. CopyInv /\ ApiInv /\ ApartInv /\ OnceInv /\ PostedInv
    BY DEF CopyInv, ApiInv, ApartInv, OnceInv, PostedInv, RunPosts, Running, Nothing, None
  <1> QED BY <1>9, <1>10 DEF Inv

-----------------------------------------------------------------------------
(* The types.                                                              *)

(* A job's knowledge is of the right type when it is changed so.           *)
LEMMA KnowType ==
  ASSUME NEW j \in Jobs, local \in [Jobs -> Local], NEW record \in Local, Know(j, record)
  PROVE  local' \in [Jobs -> Local]
PROOF
  BY DEF Know

(* A record that is written holds nothing that it did not, but the name.   *)
LEMMA RecordType ==
  ASSUME NEW name \in Names, Record(name) \/ Remove(name), store \subseteq Names
  PROVE  store' \subseteq Names /\ store' \subseteq store \cup {name}
PROOF
  BY DEF Record, Remove, Loads, Save

(* What goes on around the job keeps the types.                            *)
LEMMA EnvironmentKeepsType ==
  ASSUME TypeInv, Environment
  PROVE  TypeInv'
PROOF
  <1> USE RunsAssumption, RestartsAssumption, DeathsAssumption
  <1>0. TypeOK /\ DeploymentsTypeOK /\ local \in [Jobs -> Local] /\ issued <= epoch
    BY DEF TypeInv, TypeOK
  <1>1. UNCHANGED <<phase, lock, runs, apps, made, at, local, issued, epoch>>
    BY DEF Environment, HeadFails, HeadDies, HeadStarts, HeadComesUp, DefineGroup, RemoveGroup,
           SaveInfo, Deploy, Undeploy, DeploymentGoesOn, stateVars, infoVars, cmlVars, headVars
  <1>2. seen' \in [Jobs -> SUBSET Anomaly] /\ overlapped' \in BOOLEAN
    <2>1. UNCHANGED history \/ EachSees("died") \/ EachSees("clobbered")
      BY DEF Environment, HeadFails, HeadStarts, DefineGroup, RemoveGroup, SaveInfo, Deploy, Undeploy,
             DeploymentGoesOn
    <2> QED BY <1>0, <2>1 DEF EachSees, Anomaly, history, TypeOK
  <1>3. /\ api' \in {<<>>} \cup (Info \X Info) /\ info' \in Info
        /\ launcher' \in [Groups -> {<<>>} \cup {<<e>> : e \in Epoch}]
    <2> USE DEF infoVars
    <2>1. CASE HeadFails \/ HeadStarts \/ \E name \in Names : Deploy(name) \/ Undeploy(name) \/ DeploymentGoesOn(name)
      BY <1>0, <2>1 DEF HeadFails, HeadStarts, Deploy, Undeploy, DeploymentGoesOn, TypeOK
    <2>2. CASE \E g \in Groups : DefineGroup(g) \/ RemoveGroup(g)
      <3>1. PICK g \in Groups : DefineGroup(g) \/ RemoveGroup(g)
        BY <2>2
      <3>2. /\ [info EXCEPT !.groups = @ \cup {g}] \in Info /\ [info EXCEPT !.groups = @ \ {g}] \in Info
            /\ info \in Info /\ info.head_address \in Epoch
        BY <1>0 DEF TypeOK, Info
      <3>3. api' \in Info \X Info /\ UNCHANGED info
        <4>1. CASE DefineGroup(g)
          BY <3>2, <4>1 DEF DefineGroup
        <4>2. CASE RemoveGroup(g)
          BY <3>2, <4>2 DEF RemoveGroup
        <4> QED BY <3>1, <4>1, <4>2
      <3>4. launcher' \in [Groups -> {<<>>} \cup {<<e>> : e \in Epoch}]
        BY <1>0, <3>1, <3>2 DEF DefineGroup, RemoveGroup, TypeOK
      <3> QED BY <1>0, <3>3, <3>4 DEF TypeOK
    <2>3. CASE SaveInfo
      BY <1>0, <2>3 DEF SaveInfo, TypeOK
    <2> QED BY <2>1, <2>2, <2>3 DEF Environment
  <1>4. DeploymentsTypeOK'
    <2> USE <1>0 DEF DeploymentsTypeOK, headVars, serveVars
    <2>1. CASE HeadFails
      BY <2>1 DEF HeadFails, HeadDies, HeadLoses
    <2>2. CASE HeadStarts \/ SaveInfo \/ \E g \in Groups : DefineGroup(g) \/ RemoveGroup(g)
      BY <2>2 DEF HeadStarts, HeadComesUp, DefineGroup, RemoveGroup, SaveInfo
    <2>3. CASE \E name \in Names : Deploy(name) \/ Undeploy(name) \/ DeploymentGoesOn(name)
      BY <2>3, RecordType DEF Deploy, PostApplication, DeployModel, DeployApplication, Undeploy,
                  DeleteApplication, DeploymentGoesOn, RunGoesOn
    <2> QED BY <2>1, <2>2, <2>3 DEF Environment
  <1> QED BY <1>0, <1>1, <1>2, <1>3, <1>4 DEF TypeInv, TypeOK

(* A worker is a new application; it joins the address in the cluster info *)
(* or has that of its launcher.                                            *)
LEMMA WorkerType ==
  ASSUME TypeOK, NEW g \in Groups, CreateWorkerNode(g)
  PROVE  /\ made' \in 0 .. MaxApps
         /\ \E app \in App : /\ apps' = apps \cup {app} /\ app.id = made + 1
                             /\ app.head_address = info.head_address \/ app.baked
         /\ apps' \subseteq App
PROOF
  <1>1. /\ made \in 0 .. MaxApps /\ made' = made + 1 /\ made < MaxApps /\ apps \subseteq App
        /\ info.head_address \in Epoch /\ launcher[g] \in {<<>>} \cup {<<e>> : e \in Epoch}
    BY DEF TypeOK, Info, CreateWorkerNode
  <1>2. made' \in 0 .. MaxApps /\ made' \in 1 .. MaxApps
    BY <1>1, RunsAssumption
  <1> DEFINE address == IF launcher[g] = <<>> THEN info.head_address ELSE launcher[g][1]
             app == [id |-> made', head_address |-> address, baked |-> launcher[g] # <<>>]
  <1>3. address \in Epoch /\ (address = info.head_address \/ launcher[g] # <<>>)
    BY <1>1
  <1>4. apps' = apps \cup {app}
    BY DEF CreateWorkerNode
  <1> HIDE DEF address
  <1>5. app \in App /\ app.id = made + 1 /\ (app.head_address = info.head_address \/ app.baked)
    BY <1>1, <1>2, <1>3 DEF App
  <1> HIDE DEF app
  <1> QED BY <1>1, <1>2, <1>4, <1>5

(* So does a job.                                                          *)
LEMMA JobKeepsType ==
  ASSUME TypeInv, CopyInv, NEW j \in Jobs, StartRun(j) \/ JobStep(j) \/ RequestHangs(j) \/ Crash(j)
  PROVE  TypeInv'
PROOF
  <1> USE RunsAssumption, RestartsAssumption, DeathsAssumption
  <1>0. TypeOK /\ DeploymentsTypeOK /\ local \in [Jobs -> Local] /\ issued <= epoch
    BY DEF TypeInv, TypeOK
  <1> USE DEF Goto, Raises, SetPhase, TakeLock, ReleaseLock, headVars, serveVars, stateVars, infoVars,
              cmlVars
  <1>1. at' \in [Jobs -> Place]
    <2>1. at \in [Jobs -> Place]
      BY <1>0 DEF TypeOK
    <2>2. \/ at' = at
          \/ \E place \in Place : at' = [at EXCEPT ![j] = place]
      BY DEF Place, StartRun, JobStep, Crash, AcquireLock, DetectOrResume, RecordRestart,
           RestartHead, WaitForHead, PollHead, HeadTimesOut, LoadInfo, ReplaceInfo, ListWorkers,
           DeleteWorker, WorkersDeleted, CreateWorker, RecordRedeploy, Redeploy, RecordComplete,
           Clear, EndRun, RequestHangs
    <2> QED BY <2>1, <2>2
  <1>2. phase' \in Phase /\ lock' \in BOOLEAN /\ runs' \in 0 .. MaxRuns
    <2>1. Phase = {"DETECTED", "RESTARTING_HEAD", "WAITING_HEAD", "UPDATING_INFO",
                   "REBUILDING_WORKERS", "REDEPLOYING", "COMPLETE", None}
      BY DEF Phase, PHASES
    <2>2. phase' \in Phase
      BY <1>0, <2>1 DEF TypeOK, StartRun, JobStep, Crash, AcquireLock, DetectOrResume, RecordRestart,
           RestartHead, WaitForHead, PollHead, HeadTimesOut, LoadInfo, ReplaceInfo, ListWorkers,
           DeleteWorker, WorkersDeleted, CreateWorker, RecordRedeploy, Redeploy, RecordComplete,
           Clear, EndRun, RequestHangs
    <2>3. lock' \in BOOLEAN
      BY <1>0 DEF TypeOK, StartRun, JobStep, Crash, AcquireLock, DetectOrResume, RecordRestart,
           RestartHead, WaitForHead, PollHead, HeadTimesOut, LoadInfo, ReplaceInfo, ListWorkers,
           DeleteWorker, WorkersDeleted, CreateWorker, RecordRedeploy, Redeploy, RecordComplete,
           Clear, EndRun, RequestHangs
    <2>4. CASE StartRun(j)
      <3>1. runs \in 0 .. MaxRuns
        BY <1>0 DEF TypeOK
      <3> QED BY <2>2, <2>3, <2>4, <3>1 DEF StartRun
    <2>5. CASE ~StartRun(j)
      <3>1. runs \in 0 .. MaxRuns /\ UNCHANGED runs
        BY <1>0, <2>5 DEF TypeOK, JobStep, Crash, AcquireLock, DetectOrResume, RecordRestart,
             RestartHead, WaitForHead, PollHead, HeadTimesOut, LoadInfo, ReplaceInfo, ListWorkers,
             DeleteWorker, WorkersDeleted, CreateWorker, RecordRedeploy, Redeploy, RecordComplete,
             Clear, EndRun, RequestHangs
      <3> QED BY <2>2, <2>3, <3>1
    <2> QED BY <2>4, <2>5
  <1>3. seen' \in [Jobs -> SUBSET Anomaly] /\ overlapped' \in BOOLEAN
    <2>1. \/ UNCHANGED history
          \/ Forget(j)
          \/ \E kind \in Anomaly : See(j, kind)
          \/ /\ seen' = [k \in Jobs |-> IF k = j \/ Running(k) THEN seen[k] \cup {"overlap"} ELSE seen[k]]
             /\ overlapped' = TRUE
      BY DEF Anomaly, StartRun, JobStep, Crash, AcquireLock, DetectOrResume, RecordRestart,
         RestartHead, WaitForHead, PollHead, HeadTimesOut, LoadInfo, ReplaceInfo,
         ListWorkers, DeleteWorker, WorkersDeleted, CreateWorker, RecordRedeploy, Redeploy,
         RecordComplete, Clear, EndRun, RequestHangs
    <2>2. seen \in [Jobs -> SUBSET Anomaly] /\ overlapped \in BOOLEAN /\ "overlap" \in Anomaly
      BY <1>0 DEF TypeOK, Anomaly
    <2> QED BY <2>1, <2>2 DEF See, Forget, history
  <1>4. /\ api' \in {<<>>} \cup (Info \X Info)
        /\ launcher' \in [Groups -> {<<>>} \cup {<<e>> : e \in Epoch}]
    BY <1>0 DEF TypeOK, StartRun, JobStep, Crash, AcquireLock, DetectOrResume, RecordRestart,
         RestartHead, RestartIsRequested, WaitForHead, PollHead, HeadTimesOut, LoadInfo, ReplaceInfo,
         ListWorkers, DeleteWorker, WorkersDeleted, CreateWorker, RecordRedeploy, Redeploy,
         RecordComplete, Clear, EndRun, RequestHangs
  <1>5. DeploymentsTypeOK' /\ issued' \in 0 .. MaxRestarts /\ issued' <= epoch'
    <2> USE DEF DeploymentsTypeOK
    <2>1. CASE RestartHead(j) \/ (RequestHangs(j) /\ at[j] = "restarting")
      BY <1>0, <2>1 DEF RestartHead, RequestHangs, RestartIsRequested, RestartApplication, HeadLoses, TypeOK
    <2>2. CASE Redeploy(j) \/ (RequestHangs(j) /\ at[j] # "restarting")
      <3>1. \/ UNCHANGED serveVars
            \/ \E name \in Names : PostApplication(name)
        BY <1>0, <2>2 DEF Redeploy, RequestHangs, Local
      <3>2. DeploymentsTypeOK' /\ UNCHANGED <<epoch, issued>>
        BY <1>0, <2>2, <3>1, RecordType DEF Redeploy, RequestHangs, PostApplication, DeployModel, DeployApplication
      <3> QED BY <1>0, <3>2 DEF TypeOK
    <2>3. CASE DetectOrResume(j)
      BY <1>0, <2>3 DEF DetectOrResume, TypeOK
    <2>4. CASE ~(RestartHead(j) \/ Redeploy(j) \/ DetectOrResume(j) \/ RequestHangs(j))
      BY <1>0, <2>4 DEF TypeOK, StartRun, JobStep, Crash, AcquireLock, RecordRestart, WaitForHead,
           PollHead, HeadTimesOut, LoadInfo, ReplaceInfo, ListWorkers, DeleteWorker, WorkersDeleted,
           CreateWorker, RecordRedeploy, RecordComplete, Clear, EndRun
    <2> QED BY <2>1, <2>2, <2>3, <2>4
  <1>6. info' \in Info
    <2>1. CASE ReplaceInfo(j)
      <3>1. local[j].copy[1] \in Info /\ local[j].address \in Epoch
        BY <1>0, <2>1 DEF ReplaceInfo, CopyInv, Local
      <3> QED BY <2>1, <3>1 DEF ReplaceInfo, Info
    <2>2. CASE ~ReplaceInfo(j)
      BY <1>0, <2>2 DEF TypeOK, StartRun, JobStep, Crash, AcquireLock, DetectOrResume, RecordRestart,
           RestartHead, WaitForHead, PollHead, HeadTimesOut, LoadInfo, ListWorkers,
           DeleteWorker, WorkersDeleted, CreateWorker, RecordRedeploy, Redeploy, RecordComplete,
           Clear, EndRun, RequestHangs
    <2> QED BY <2>1, <2>2
  <1>7. apps' \subseteq App /\ made' \in 0 .. MaxApps
    <2>1. CASE CreateWorker(j) \/ RequestHangs(j)
      <3>1. \/ apps' \subseteq apps /\ UNCHANGED made
            \/ \E g \in Groups : CreateWorkerNode(g)
        BY <2>1 DEF CreateWorker, RequestHangs
      <3>2. made \in 0 .. MaxApps /\ apps \subseteq App
        BY <1>0 DEF TypeOK
      <3>3. \A g \in Groups : CreateWorkerNode(g) => apps' \subseteq App /\ made' \in 0 .. MaxApps
        BY <1>0, WorkerType DEF TypeOK
      <3> QED BY <3>1, <3>2, <3>3
    <2>2. CASE ~(CreateWorker(j) \/ RequestHangs(j))
      BY <1>0, <2>2 DEF TypeOK, StartRun, JobStep, Crash, AcquireLock, DetectOrResume, RecordRestart,
           RestartHead, WaitForHead, PollHead, HeadTimesOut, LoadInfo, ReplaceInfo, ListWorkers,
           DeleteWorker, WorkersDeleted, RecordRedeploy, Redeploy, RecordComplete, Clear, EndRun
    <2> QED BY <2>1, <2>2
  <1>8. local' \in [Jobs -> Local]
    <2>0. local[j] \in Local /\ Nothing \in Local
      BY <1>0 DEF Nothing, Local, Epoch
    <2>1. CASE DetectOrResume(j)
      <3>1. [Nothing EXCEPT !.groups = info.groups] \in Local
        BY <1>0, <2>0 DEF Local, TypeOK, Info
      <3> QED BY <1>0, <2>1, <3>1, KnowType DEF DetectOrResume
    <2>2. CASE PollHead(j)
      <3>1. [local[j] EXCEPT !.address = epoch] \in Local
        BY <1>0, <2>0 DEF Local, DeploymentsTypeOK, Epoch
      <3> QED BY <1>0, <2>2, <3>1, KnowType DEF PollHead
    <2>3. CASE LoadInfo(j)
      <3>1. [local[j] EXCEPT !.copy = <<info>>] \in Local
        BY <1>0, <2>0 DEF Local, TypeOK
      <3> QED BY <1>0, <2>3, <3>1, KnowType DEF LoadInfo
    <2>4. CASE ReplaceInfo(j)
      <3>1. [local[j] EXCEPT !.copy = <<>>] \in Local
        BY <2>0 DEF Local
      <3> QED BY <1>0, <2>4, <3>1, KnowType DEF ReplaceInfo
    <2>5. CASE ListWorkers(j)
      <3>1. [local[j] EXCEPT !.stale = apps] \in Local
        BY <1>0, <2>0 DEF Local, TypeOK
      <3> QED BY <1>0, <2>5, <3>1, KnowType DEF ListWorkers
    <2>6. CASE DeleteWorker(j)
      <3>1. \A rest \in SUBSET local[j].stale : [local[j] EXCEPT !.stale = rest] \in Local
        BY <2>0 DEF Local
      <3>2. \E rest \in SUBSET local[j].stale : Know(j, [local[j] EXCEPT !.stale = rest])
        BY <2>6 DEF DeleteWorker
      <3> QED BY <1>0, <3>1, <3>2, KnowType
    <2>7. CASE WorkersDeleted(j)
      <3>1. [local[j] EXCEPT !.missing = [g \in Groups |-> IF g \in local[j].groups THEN Count ELSE 0]] \in Local
        <4>1. [g \in Groups |-> IF g \in local[j].groups THEN Count ELSE 0] \in [Groups -> 0 .. Count]
          BY RunsAssumption
        <4> QED BY <2>0, <4>1 DEF Local
      <3> QED BY <1>0, <2>7, <3>1, KnowType DEF WorkersDeleted
    <2>8. CASE CreateWorker(j)
      <3>1. PICK g \in Groups :
              \/ local[j].missing[g] > 0 /\ Know(j, [local[j] EXCEPT !.missing[g] = @ - 1])
              \/ UNCHANGED local
        BY <2>8 DEF CreateWorker
      <3>2. local[j].missing[g] > 0 => [local[j] EXCEPT !.missing[g] = @ - 1] \in Local
        <4>1. local[j].missing \in [Groups -> 0 .. Count]
          BY <2>0 DEF Local
        <4>2. local[j].missing[g] > 0 => local[j].missing[g] - 1 \in 0 .. Count
          BY <4>1
        <4>3. local[j].missing[g] > 0 =>
                [local[j].missing EXCEPT ![g] = @ - 1] \in [Groups -> 0 .. Count]
          BY <4>1, <4>2
        <4> QED BY <2>0, <4>3 DEF Local
      <3> QED BY <1>0, <3>1, <3>2, KnowType
    <2>9. CASE RecordRedeploy(j)
      <3>1. [local[j] EXCEPT !.requests = store] \in Local
        BY <1>0, <2>0 DEF Local, DeploymentsTypeOK
      <3> QED BY <1>0, <2>9, <3>1, KnowType DEF RecordRedeploy
    <2>10. CASE Redeploy(j)
      <3>1. \A name \in local[j].requests :
              /\ [local[j] EXCEPT !.requests = @ \ {name}] \in Local
              /\ [local[j] EXCEPT !.requests = @ \ {name}, !.failed = @ \cup {name}] \in Local
        BY <2>0 DEF Local
      <3> QED BY <1>0, <2>10, <3>1, KnowType DEF Redeploy
    <2>11. CASE EndRun(j) \/ Crash(j) \/ RequestHangs(j)
      BY <1>0, <2>0, <2>11, KnowType DEF EndRun, Crash, RequestHangs
    <2>12. CASE UNCHANGED local
      BY <1>0, <2>12
    <2> QED
      BY <2>1, <2>2, <2>3, <2>4, <2>5, <2>6, <2>7, <2>8, <2>9, <2>10, <2>11, <2>12
         DEF StartRun, JobStep, AcquireLock, RecordRestart, RestartHead, WaitForHead, HeadTimesOut,
             RecordComplete, Clear
  <1>9. \A k \in Jobs :
          /\ local'[k].groups \subseteq Groups
          /\ local'[k].address \in Epoch
          /\ local'[k].stale \subseteq App
          /\ local'[k].missing \in [Groups -> 0..Count]
          /\ local'[k].requests \subseteq Names
          /\ local'[k].failed \subseteq Names
    BY <1>8, LocalType
  <1>10. TypeOK'
    BY <1>1, <1>2, <1>3, <1>4, <1>5, <1>6, <1>7, <1>9 DEF TypeOK
  <1> QED BY <1>5, <1>8, <1>10 DEF TypeInv

-----------------------------------------------------------------------------
(* The invariants.                                                         *)

(* A step of a job leaves what the others know and where they are.         *)
LEMMA OthersStay ==
  ASSUME TypeInv, NEW j \in Jobs, StartRun(j) \/ JobStep(j) \/ RequestHangs(j) \/ Crash(j), NEW k \in Jobs, k # j
  PROVE  at'[k] = at[k] /\ local'[k] = local[k]
PROOF
  <1>0. at \in [Jobs -> Place] /\ local \in [Jobs -> Local]
    BY DEF TypeInv, TypeOK
  <1> USE DEF Goto, Raises
  <1>1. at'[k] = at[k]
    BY <1>0 DEF StartRun, JobStep, Crash, AcquireLock, DetectOrResume, RecordRestart,
         RestartHead, WaitForHead, PollHead, HeadTimesOut, LoadInfo, ReplaceInfo, ListWorkers,
         DeleteWorker, WorkersDeleted, CreateWorker, RecordRedeploy, Redeploy, RecordComplete,
         Clear, EndRun, RequestHangs
  <1>2. UNCHANGED local \/ \E record : Know(j, record)
    BY DEF StartRun, JobStep, Crash, AcquireLock, DetectOrResume, RecordRestart,
         RestartHead, WaitForHead, PollHead, HeadTimesOut, LoadInfo, ReplaceInfo, ListWorkers,
         DeleteWorker, WorkersDeleted, CreateWorker, RecordRedeploy, Redeploy, RecordComplete,
         Clear, EndRun, RequestHangs
  <1>3. local'[k] = local[k]
    BY <1>0, <1>2 DEF Know
  <1> QED BY <1>1, <1>3

(* The copy of the cluster info is there when it is rewritten.             *)
LEMMA JobKeepsCopy ==
  ASSUME TypeInv, CopyInv, NEW j \in Jobs, StartRun(j) \/ JobStep(j) \/ RequestHangs(j) \/ Crash(j)
  PROVE  CopyInv'
PROOF
  <1>0. at \in [Jobs -> Place] /\ local \in [Jobs -> Local]
    BY DEF TypeInv, TypeOK
  <1>1. at'[j] = "loaded" => local'[j].copy # <<>>
    <2> USE DEF Goto, Raises
    <2>1. CASE LoadInfo(j)
      <3>1. CASE Past("UPDATING_INFO")
        BY <1>0, <2>1, <3>1 DEF LoadInfo
      <3>2. CASE ~Past("UPDATING_INFO")
        <4>1. local[j] \in Local /\ local' = [local EXCEPT ![j] = [local[j] EXCEPT !.copy = <<info>>]]
          BY <1>0, <2>1, <3>2 DEF LoadInfo, Know
        <4>2. local'[j].copy = <<info>>
          BY <1>0, <4>1 DEF Local
        <4> QED BY <4>2
      <3> QED BY <3>1, <3>2
    <2>2. CASE ~LoadInfo(j)
      BY <1>0, <2>2 DEF StartRun, JobStep, Crash, AcquireLock, DetectOrResume, RecordRestart,
         RestartHead, WaitForHead, PollHead, HeadTimesOut, ReplaceInfo, ListWorkers,
         DeleteWorker, WorkersDeleted, CreateWorker, RecordRedeploy, Redeploy, RecordComplete,
         Clear, EndRun, RequestHangs
    <2> QED BY <2>1, <2>2
  <1> QED BY <1>1, OthersStay DEF CopyInv

(* A job leaves the API alone, or takes the head away from it.             *)
LEMMA JobKeepsApi ==
  ASSUME ApiInv, NEW j \in Jobs, StartRun(j) \/ JobStep(j) \/ RequestHangs(j) \/ Crash(j)
  PROVE  ApiInv'
PROOF
  <1>1. UNCHANGED api \/ api' = <<>>
    BY DEF RestartIsRequested, StartRun, JobStep, Crash, AcquireLock, DetectOrResume, RecordRestart,
         RestartHead, WaitForHead, PollHead, HeadTimesOut, LoadInfo, ReplaceInfo, ListWorkers,
         DeleteWorker, WorkersDeleted, CreateWorker, RecordRedeploy, Redeploy, RecordComplete,
         Clear, EndRun, RequestHangs
  <1> QED BY <1>1 DEF ApiInv

(* What a run has seen is not forgotten before the run is over.            *)
LEMMA JobSeesMore ==
  ASSUME TypeInv, NEW j \in Jobs, StartRun(j) \/ JobStep(j) \/ RequestHangs(j) \/ Crash(j)
  PROVE  /\ \A k \in Jobs : seen[k] \subseteq seen'[k] \/ at'[k] \in {"idle", "hung"}
         /\ overlapped => overlapped'
PROOF
  <1>0. at \in [Jobs -> Place] /\ seen \in [Jobs -> SUBSET Anomaly]
    BY DEF TypeInv, TypeOK
  <1>1. CASE UNCHANGED history
    BY <1>1 DEF history
  <1>2. CASE AcquireLock(j)
    BY <1>0, <1>2 DEF AcquireLock, history
  <1>3. CASE \E kind : See(j, kind)
    BY <1>0, <1>3 DEF See
  <1>4. CASE EndRun(j) \/ RequestHangs(j) \/ Crash(j)
    BY <1>0, <1>4 DEF EndRun, RequestHangs, Crash, Forget, Goto
  <1> QED
    BY <1>1, <1>2, <1>3, <1>4
       DEF StartRun, JobStep, DetectOrResume, RecordRestart, RestartHead, WaitForHead, PollHead,
           HeadTimesOut, LoadInfo, ReplaceInfo, ListWorkers, DeleteWorker, WorkersDeleted,
           CreateWorker, RecordRedeploy, Redeploy, RecordComplete, Clear

(* Only the lock brings a run among those at work.                         *)
LEMMA JobStartsToWork ==
  ASSUME TypeInv, NEW j \in Jobs, StartRun(j) \/ JobStep(j) \/ RequestHangs(j) \/ Crash(j)
  PROVE  Running(j)' => Running(j) \/ AcquireLock(j)
PROOF
  <1>0. at \in [Jobs -> Place]
    BY DEF TypeInv, TypeOK
  <1>1. CASE StartRun(j) \/ RequestHangs(j) \/ Crash(j)
    BY <1>0, <1>1 DEF StartRun, RequestHangs, Crash, Goto, Running
  <1>2. CASE JobStep(j) /\ ~AcquireLock(j)
    <2>1. Running(j)
      BY <1>2 DEF Running, JobStep, DetectOrResume, RecordRestart, RestartHead, WaitForHead, PollHead,
           HeadTimesOut, LoadInfo, ReplaceInfo, ListWorkers, DeleteWorker, WorkersDeleted,
           CreateWorker, RecordRedeploy, Redeploy, RecordComplete, Clear, EndRun
    <2> QED BY <2>1
  <1> QED BY <1>1, <1>2

(* A run that takes the lock and those that are at work see each other.    *)
LEMMA JobKeepsApart ==
  ASSUME TypeInv, ApartInv, NEW j \in Jobs, StartRun(j) \/ JobStep(j) \/ RequestHangs(j) \/ Crash(j)
  PROVE  ApartInv'
PROOF
  <1> SUFFICES ASSUME NEW i \in Jobs, NEW k \in Jobs, Running(i)', Running(k)', i # k
               PROVE  "overlap" \in seen'[i]
    BY DEF ApartInv
  <1>0. seen \in [Jobs -> SUBSET Anomaly]
    BY DEF TypeInv, TypeOK
  <1>1. \A l \in Jobs : l # j => at'[l] = at[l]
    BY OthersStay
  <1>2. \A l \in Jobs : Running(l)' => Running(l) \/ (l = j /\ AcquireLock(j))
    BY <1>1, JobStartsToWork DEF Running
  <1>3. CASE Running(i) /\ Running(k)
    <2>1. "overlap" \in seen[i]
      BY <1>3 DEF ApartInv
    <2>2. seen[i] \subseteq seen'[i]
      BY JobSeesMore DEF Running
    <2> QED BY <2>1, <2>2
  <1>4. CASE AcquireLock(j) /\ ((i = j /\ Running(k)) \/ (k = j /\ Running(i)))
    BY <1>0, <1>4 DEF AcquireLock
  <1> QED BY <1>2, <1>3, <1>4

(* What a job does to the phase and to the count of the restarts.          *)
LEMMA JobKeepsOnce ==
  ASSUME TypeInv, OnceInv, NEW j \in Jobs, StartRun(j) \/ JobStep(j) \/ RequestHangs(j) \/ Crash(j)
  PROVE  OnceInv'
PROOF
  <1> SUFFICES ASSUME ~overlapped'
               PROVE  /\ \A i, k \in Jobs : Running(i)' /\ Running(k)' => i = k
                      /\ phase' = "DETECTED" => issued' = 0
                      /\ \A k \in Jobs : at'[k] = "restarting" => issued' = 0 /\ phase' = "RESTARTING_HEAD"
                      /\ \A k \in Jobs : at'[k] = "begun" => phase' \notin {None, "COMPLETE"}
                      /\ issued' <= 1
    BY DEF OnceInv, Running
  <1>0. at \in [Jobs -> Place] /\ phase \in Phase /\ issued \in Nat
    BY RestartsAssumption DEF TypeInv, TypeOK
  <1> USE DEF Goto, Raises, SetPhase, stateVars
  <1>1. ~overlapped
    BY JobSeesMore
  <1>2. /\ \A i, k \in Jobs : Running(i) /\ Running(k) => i = k
        /\ phase = "DETECTED" => issued = 0
        /\ \A k \in Jobs : at[k] = "restarting" => issued = 0 /\ phase = "RESTARTING_HEAD"
        /\ \A k \in Jobs : at[k] = "begun" => phase \notin {None, "COMPLETE"}
        /\ issued <= 1
    BY <1>1 DEF OnceInv
  <1>3. \A k \in Jobs : k # j => at'[k] = at[k]
    BY OthersStay
  <1>4. CASE StartRun(j) \/ Crash(j) \/ AcquireLock(j)
    <2>1. UNCHANGED <<phase, issued>>
      BY <1>4 DEF StartRun, Crash, AcquireLock
    <2>2. at'[j] \in {"idle", "tested", "locked"}
      BY <1>0, <1>4 DEF StartRun, Crash, AcquireLock
    <2>3. at'[j] = "locked" => \A k \in Jobs : ~Running(k)
      BY <1>0, <1>4 DEF StartRun, Crash, AcquireLock
    <2> QED BY <1>2, <1>3, <2>1, <2>2, <2>3 DEF Running
  <1>5. CASE RequestHangs(j)
    <2>1. UNCHANGED phase /\ at'[j] = "hung" /\ Running(j)
      BY <1>0, <1>5 DEF RequestHangs, Requests, Running
    <2>2. UNCHANGED issued \/ (at[j] = "restarting" /\ issued' = issued + 1)
      BY <1>5 DEF RequestHangs, RestartIsRequested
    <2>3. \A k \in Jobs : ~Running(k)'
      BY <1>2, <1>3, <2>1 DEF Running
    <2> QED BY <1>0, <1>2, <2>1, <2>2, <2>3 DEF Running
  <1>6. CASE JobStep(j) /\ ~AcquireLock(j)
    <2>1. Running(j)
      BY <1>6 DEF Running, JobStep, DetectOrResume, RecordRestart,
         RestartHead, WaitForHead, PollHead, HeadTimesOut, LoadInfo, ReplaceInfo, ListWorkers,
         DeleteWorker, WorkersDeleted, CreateWorker, RecordRedeploy, Redeploy, RecordComplete,
         Clear, EndRun
    <2>2. \A k \in Jobs : k # j => at'[k] \in {"idle", "tested", "hung"}
      BY <1>2, <1>3, <2>1 DEF Running
    <2>3. \A i, k \in Jobs : Running(i)' /\ Running(k)' => i = k
      BY <2>2 DEF Running
    <2>4. SUFFICES /\ phase' = "DETECTED" => issued' = 0
                   /\ at'[j] = "restarting" => issued' = 0 /\ phase' = "RESTARTING_HEAD"
                   /\ at'[j] = "begun" => phase' \notin {None, "COMPLETE"}
                   /\ issued' <= 1
      BY <2>2, <2>3
    <2>5. CASE DetectOrResume(j)
      BY <1>0, <1>2, <2>5 DEF DetectOrResume, None
    <2>6. CASE RecordRestart(j)
      <3>1. CASE Past("RESTARTING_HEAD")
        BY <1>0, <1>2, <2>6, <3>1 DEF RecordRestart
      <3>2. CASE ~Past("RESTARTING_HEAD")
        <4>1. phase \in {None, "DETECTED", "RESTARTING_HEAD", "WAITING_HEAD", "UPDATING_INFO",
                         "REBUILDING_WORKERS", "REDEPLOYING", "COMPLETE"}
          BY <1>0 DEF Phase, PHASES
        <4>2. phase = "DETECTED"
          BY <1>2, <2>6, <3>2, <4>1, IndexOfPhase DEF RecordRestart, Past
        <4> QED BY <1>0, <1>2, <2>6, <3>2, <4>2 DEF RecordRestart
      <3> QED BY <3>1, <3>2
    <2>7. CASE RestartHead(j)
      <3>1. at[j] = "restarting" /\ UNCHANGED phase /\ issued' \in {issued, issued + 1}
        BY <2>7 DEF RestartHead, RestartIsRequested
      <3>2. at'[j] \in {"restarted", "release"}
        BY <1>0, <2>7 DEF RestartHead
      <3> QED BY <1>2, <3>1, <3>2
    <2>8. CASE ~(DetectOrResume(j) \/ RecordRestart(j) \/ RestartHead(j))
      <3>1. UNCHANGED issued /\ (phase' # "DETECTED" \/ UNCHANGED phase)
        BY <1>6, <2>8 DEF JobStep, WaitForHead, PollHead, HeadTimesOut, LoadInfo, ReplaceInfo,
           ListWorkers, DeleteWorker, WorkersDeleted, CreateWorker, RecordRedeploy, Redeploy,
           RecordComplete, Clear, EndRun, None
      <3>2. at'[j] \notin {"restarting", "begun"}
        BY <1>0, <1>6, <2>8 DEF JobStep, WaitForHead, PollHead, HeadTimesOut, LoadInfo, ReplaceInfo,
           ListWorkers, DeleteWorker, WorkersDeleted, CreateWorker, RecordRedeploy, Redeploy,
           RecordComplete, Clear, EndRun
      <3> QED BY <1>2, <3>1, <3>2
    <2> QED BY <2>5, <2>6, <2>7, <2>8
  <1> QED BY <1>4, <1>5, <1>6

(* What becomes of the applications when one of them is posted.            *)
LEMMA PostedIsThere ==
  ASSUME NEW name \in Names, PostApplication(name)
  PROVE  /\ store' \subseteq store \cup {name}
         /\ live \subseteq live' /\ starting \subseteq starting' /\ name \in live' \cup starting'
         /\ unnoticed' = unnoticed \ {name}
PROOF
  BY DEF PostApplication, DeployModel, DeployApplication, Record, Loads, Save

(* A run goes through the requests on record one by one.                   *)
LEMMA JobKeepsPosted ==
  ASSUME TypeInv, ApartInv, ApartInv', PostedInv, NEW j \in Jobs, StartRun(j) \/ JobStep(j) \/ RequestHangs(j) \/ Crash(j)
  PROVE  PostedInv'
PROOF
  <1> SUFFICES ASSUME NEW k \in Jobs, seen'[k] \cap Losses = {}, at'[k] \in {"redeploying", "complete"}
               PROVE  RunPosts(k)'
    BY DEF PostedInv, RunPosts
  <1>0. at \in [Jobs -> Place] /\ local \in [Jobs -> Local] /\ local[j] \in Local
        /\ seen \in [Jobs -> SUBSET Anomaly]
    BY DEF TypeInv, TypeOK
  <1> USE DEF Goto, Raises, serveVars, stateVars
  <1>1. seen[k] \subseteq seen'[k]
    BY JobSeesMore
  <1>2. RunPosts(k)
    BY <1>1 DEF PostedInv
  <1>3. CASE k # j
    <2>1. at'[k] = at[k] /\ local'[k] = local[k] /\ Running(k)
      BY <1>3, OthersStay DEF Running
    <2>2. ~Running(j)
      BY <1>1, <1>3, <2>1 DEF ApartInv, Losses
    <2>3. UNCHANGED <<store, live, starting, unnoticed>>
      BY <2>2 DEF Running, Requests, StartRun, JobStep, Crash, AcquireLock, DetectOrResume, RecordRestart,
         RestartHead, WaitForHead, PollHead, HeadTimesOut, LoadInfo, ReplaceInfo, ListWorkers,
         DeleteWorker, WorkersDeleted, CreateWorker, RecordRedeploy, Redeploy, RecordComplete,
         Clear, EndRun, RequestHangs
    <2> QED BY <1>2, <2>1, <2>3 DEF RunPosts
  <1>4. CASE k = j
    <2>1. CASE RecordRedeploy(j)
      <3>0. ~See(j, "unread")
        BY <1>0, <1>4 DEF See, Losses
      <3>1. local'[j] = [local[j] EXCEPT !.requests = store] /\ at'[j] = "redeploying" /\ UNCHANGED store
        BY <1>0, <2>1, <3>0 DEF RecordRedeploy, Know
      <3>2. local'[j].requests = store
        BY <1>0, <3>1 DEF Local
      <3> QED BY <1>4, <3>1, <3>2 DEF RunPosts
    <2>2. CASE Redeploy(j)
      <3>1. PICK name \in local[j].requests :
              \/ /\ PostApplication(name)
                 /\ local'[j] = [local[j] EXCEPT !.requests = @ \ {name}]
              \/ /\ local'[j] = [local[j] EXCEPT !.requests = @ \ {name}, !.failed = @ \cup {name}]
                 /\ UNCHANGED <<live, starting, store, unnoticed>>
        BY <1>0, <2>2 DEF Redeploy, Know
      <3>2. at[j] = "redeploying" /\ at'[j] = "redeploying" /\ name \in Names
        BY <1>0, <2>2, <3>1 DEF Redeploy, Local
      <3>3. CASE PostApplication(name) /\ local'[j] = [local[j] EXCEPT !.requests = @ \ {name}]
        <4>1. local'[j].requests = local[j].requests \ {name} /\ local'[j].failed = local[j].failed
          BY <1>0, <3>3 DEF Local
        <4> QED BY <1>2, <1>4, <3>2, <3>3, <4>1, PostedIsThere DEF RunPosts
      <3>4. CASE /\ local'[j] = [local[j] EXCEPT !.requests = @ \ {name}, !.failed = @ \cup {name}]
                 /\ UNCHANGED <<live, starting, store, unnoticed>>
        <4>1. /\ local'[j].requests = local[j].requests \ {name}
              /\ local'[j].failed = local[j].failed \cup {name}
          BY <1>0, <3>4 DEF Local
        <4> QED BY <1>2, <1>4, <3>2, <3>4, <4>1 DEF RunPosts
      <3> QED BY <3>1, <3>3, <3>4
    <2>3. CASE RecordComplete(j)
      BY <1>0, <1>2, <1>4, <2>3 DEF RecordComplete, RunPosts
    <2>4. CASE ~(RecordRedeploy(j) \/ Redeploy(j) \/ RecordComplete(j))
      <3>1. at'[j] \notin {"redeploying", "complete"}
        BY <1>0, <2>4 DEF StartRun, JobStep, Crash, AcquireLock, DetectOrResume, RecordRestart,
         RestartHead, WaitForHead, PollHead, HeadTimesOut, LoadInfo, ReplaceInfo, ListWorkers,
         DeleteWorker, WorkersDeleted, CreateWorker, Clear, EndRun, RequestHangs
      <3> QED BY <1>4, <3>1
    <2> QED BY <2>1, <2>2, <2>3, <2>4
  <1> QED BY <1>3, <1>4

(* What a run sees of what goes on around it.                              *)
LEMMA EnvironmentIsSeen ==
  ASSUME TypeInv, Environment
  PROVE  /\ UNCHANGED <<at, local, phase, issued, epoch, apps, overlapped>>
         /\ \A k \in Jobs : seen[k] \subseteq seen'[k]
         /\ \A k \in Jobs : HeadFails /\ Running(k) => "died" \in seen'[k]
         /\ \A k \in Jobs : SaveInfo /\ info # api[1] /\ Running(k) => "clobbered" \in seen'[k]
PROOF
  <1> USE DEF headVars, serveVars, stateVars, cmlVars, history
  <1>0. seen \in [Jobs -> SUBSET Anomaly]
    BY DEF TypeInv, TypeOK
  <1>1. UNCHANGED <<at, local, phase, issued, epoch, apps, overlapped>>
    BY DEF EachSees, Environment, HeadFails, HeadDies, HeadStarts, HeadComesUp, DefineGroup,
           RemoveGroup, SaveInfo, Deploy, Undeploy, DeploymentGoesOn
  <1>2. UNCHANGED seen \/ EachSees("died") \/ EachSees("clobbered")
    BY DEF Environment, HeadFails, HeadStarts, DefineGroup, RemoveGroup, SaveInfo, Deploy, Undeploy,
           DeploymentGoesOn
  <1>3. \A k \in Jobs : seen[k] \subseteq seen'[k]
    BY <1>0, <1>2 DEF EachSees
  <1>4. \A k \in Jobs : HeadFails /\ Running(k) => "died" \in seen'[k]
    BY DEF HeadFails, EachSees
  <1>5. \A k \in Jobs : SaveInfo /\ info # api[1] /\ Running(k) => "clobbered" \in seen'[k]
    BY DEF SaveInfo, EachSees
  <1> QED BY <1>1, <1>3, <1>4, <1>5

(* What happens to the applications behind a run's back is seen, or is not *)
(* noticed.                                                                *)
LEMMA EnvironmentKeepsPosted ==
  ASSUME TypeInv, PostedInv, Environment
  PROVE  PostedInv'
PROOF
  <1> SUFFICES ASSUME NEW k \in Jobs, seen'[k] \cap Losses = {}, at'[k] \in {"redeploying", "complete"}
               PROVE  RunPosts(k)'
    BY DEF PostedInv, RunPosts
  <1> USE DEF headVars, serveVars, stateVars, cmlVars, RunPosts
  <1>1. UNCHANGED <<at, local>> /\ Running(k)
    BY EnvironmentIsSeen DEF Running
  <1>2. RunPosts(k)
    BY EnvironmentIsSeen DEF PostedInv
  <1>3. ~HeadFails
    BY <1>1, EnvironmentIsSeen DEF Losses
  <1>4. CASE HeadStarts \/ SaveInfo \/ \E g \in Groups : DefineGroup(g) \/ RemoveGroup(g)
    BY <1>4, <1>1, <1>2 DEF HeadStarts, HeadComesUp, DefineGroup, RemoveGroup, SaveInfo
  <1>5. CASE \E name \in Names : Deploy(name)
    BY <1>5, <1>1, <1>2, PostedIsThere DEF Deploy
  <1>6. CASE \E name \in Names : Undeploy(name)
    <2>1. PICK name \in Names : Undeploy(name)
      BY <1>6
    <2>2. /\ live' = live \ {name} /\ UNCHANGED starting /\ store' \subseteq store
          /\ unnoticed' = unnoticed \cup ({name} \cap store')
      BY <2>1 DEF Undeploy, DeleteApplication, Remove, Loads, Save
    <2> QED BY <1>1, <1>2, <2>2
  <1>7. CASE \E name \in Names : DeploymentGoesOn(name)
    <2>1. PICK name \in Names : DeploymentGoesOn(name)
      BY <1>7
    <2>2. /\ starting' = starting \ {name} /\ live \subseteq live' /\ UNCHANGED store
          /\ unnoticed' = unnoticed \cup ({name} \ live')
      BY <2>1 DEF DeploymentGoesOn, RunGoesOn
    <2> QED BY <1>1, <1>2, <2>2
  <1> QED BY <1>3, <1>4, <1>5, <1>6, <1>7 DEF Environment

(* What goes on around the jobs does not move them.                        *)
LEMMA EnvironmentKeepsInv ==
  ASSUME Inv, Environment
  PROVE  CopyInv' /\ ApiInv' /\ ApartInv' /\ OnceInv'
PROOF
  <1>1. CopyInv' /\ OnceInv'
    BY EnvironmentIsSeen DEF Inv, CopyInv, OnceInv, Running
  <1>2. ApartInv'
    BY EnvironmentIsSeen DEF Inv, ApartInv, Running
  <1>3. ApiInv'
    <2>1. info \in Info
      BY DEF Inv, TypeInv, TypeOK
    <2>2. CASE \E g \in Groups : DefineGroup(g) \/ RemoveGroup(g)
      <3>1. PICK g \in Groups : DefineGroup(g) \/ RemoveGroup(g)
        BY <2>2
      <3>2. PICK groups : api' = <<info, [info EXCEPT !.groups = groups]>>
        BY <3>1 DEF DefineGroup, RemoveGroup
      <3>3. api'[1] = info /\ api'[2] = [info EXCEPT !.groups = groups]
        BY <3>2
      <3>4. api'[2].head_address = info.head_address
        BY <2>1, <3>3 DEF Info
      <3> QED BY <3>3, <3>4 DEF ApiInv
    <2>3. CASE ~\E g \in Groups : DefineGroup(g) \/ RemoveGroup(g)
      <3>1. UNCHANGED api \/ api' = <<>>
        BY <2>3 DEF Environment, HeadFails, HeadStarts, SaveInfo, Deploy, Undeploy, DeploymentGoesOn
      <3> QED BY <3>1 DEF Inv, ApiInv
    <2> QED BY <2>2, <2>3
  <1> QED BY <1>1, <1>2, <1>3

-----------------------------------------------------------------------------
(* What a run that reports success has rebuilt.                            *)

(* The applications are numbered in the order they are created in.         *)
NumberInv == \A app \in apps : app.id <= made

(* The workers that a run has created, by group and number.                *)
Slotted(j) == {slot \in local[j].groups \X (1 .. Count) : slot[2] > local[j].missing[slot[1]]}

(* How far a run has come: the phase is set back before the cluster info is*)
(* rewritten, so that this is never skipped; the address it writes is that *)
(* of the head, and is given to every worker; the older workers are those on*)
(* its list; and each worker it has created stands for one of a group.     *)
RunRebuilds(j) ==
  /\ at[j] \in {"waiting", "ready"} => phase = "WAITING_HEAD"
  /\ at[j] \in {"ready", "loaded"} => local[j].address = epoch
  /\ at[j] \in {"updated", "deleting", "creating", "redeploying", "complete"} =>
       info.head_address = epoch
  /\ at[j] = "deleting" => apps = local[j].stale
  /\ at[j] \in {"creating", "redeploying", "complete"} =>
       /\ \A app \in apps : app.head_address = epoch \/ app.baked
       /\ IsFiniteSet(apps)
       /\ Cardinality(apps) = Cardinality(Slotted(j))
       /\ \A g \in Groups : local[j].missing[g] > 0 => g \in local[j].groups
  /\ at[j] \in {"redeploying", "complete"} => \A g \in Groups : local[j].missing[g] = 0

Interference == {"overlap", "clobbered", "undeleted"}
RebuiltInv == \A j \in Jobs : seen[j] \cap Interference = {} => RunRebuilds(j)

(* The workers a run has created are finitely many.                        *)
LEMMA SlottedIsFinite ==
  ASSUME TypeInv, NEW j \in Jobs
  PROVE  IsFiniteSet(Slotted(j))
PROOF
  <1>1. local[j].groups \in SUBSET Groups
    BY DEF TypeInv, Local
  <1>2. IsFiniteSet(local[j].groups)
    BY <1>1, GroupsAssumption, FS_Subset
  <1>3. IsFiniteSet(1 .. Count)
    BY RunsAssumption, FS_Interval
  <1>4. IsFiniteSet(local[j].groups \X (1 .. Count))
    BY <1>2, <1>3, FS_Product
  <1>5. Slotted(j) \in SUBSET (local[j].groups \X (1 .. Count))
    BY DEF Slotted
  <1> QED BY <1>4, <1>5, FS_Subset

(* When nothing is missing there are Count for each group.                 *)
LEMMA AllSlotted ==
  ASSUME TypeInv, NEW j \in Jobs, \A g \in Groups : local[j].missing[g] = 0
  PROVE  Cardinality(Slotted(j)) = Count * Cardinality(local[j].groups)
PROOF
  <1>1. local[j].groups \in SUBSET Groups
    BY DEF TypeInv, Local
  <1>2. IsFiniteSet(local[j].groups)
    BY <1>1, GroupsAssumption, FS_Subset
  <1>3. IsFiniteSet(1 .. Count) /\ Cardinality(1 .. Count) = Count
    BY RunsAssumption, FS_Interval
  <1>4. Slotted(j) = local[j].groups \X (1 .. Count)
    BY <1>1, RunsAssumption DEF Slotted
  <1>5. Cardinality(Slotted(j)) = Cardinality(local[j].groups) * Count
    BY <1>2, <1>3, <1>4, FS_Product
  <1>6. Cardinality(local[j].groups) \in Nat /\ Count \in Nat
    BY <1>2, RunsAssumption, FS_CardinalityType
  <1> QED BY <1>5, <1>6

(* A job's rebuilding does not depend on more than this.                   *)
LEMMA SameRebuilding ==
  ASSUME NEW j \in Jobs, RunRebuilds(j),
         UNCHANGED <<phase, epoch, apps, info.head_address, at[j], local[j]>>
  PROVE  RunRebuilds(j)'
PROOF
  BY DEF RunRebuilds, Slotted

(* What goes on around the job does not change the head's address, nor the *)
(* workers; a rewrite of the cluster info keeps the address in it, if it   *)
(* loses no other.                                                         *)
LEMMA EnvironmentKeepsRebuilt ==
  ASSUME Inv, RebuiltInv, Environment
  PROVE  RebuiltInv'
PROOF
  <1> SUFFICES ASSUME NEW k \in Jobs, seen'[k] \cap Interference = {}
               PROVE  RunRebuilds(k)'
    BY DEF RebuiltInv
  <1> USE DEF headVars, serveVars, stateVars, cmlVars
  <1>0. TypeInv /\ info \in Info /\ api \in {<<>>} \cup (Info \X Info)
    BY DEF Inv, TypeInv, TypeOK
  <1>1. UNCHANGED <<phase, at, local, epoch, apps>> /\ RunRebuilds(k)
    BY <1>0, EnvironmentIsSeen DEF RebuiltInv
  <1>2. CASE ~Running(k)
    BY <1>1, <1>2 DEF Running, RunRebuilds
  <1>3. CASE Running(k) /\ SaveInfo
    <2>1. api[1] = info /\ info' = api[2]
      BY <1>0, <1>3, EnvironmentIsSeen DEF Interference, SaveInfo
    <2>2. api[2].head_address = api[1].head_address
      BY <1>3 DEF SaveInfo, Inv, ApiInv
    <2> QED BY <1>1, <2>1, <2>2, SameRebuilding
  <1>4. CASE ~SaveInfo
    <2>1. UNCHANGED info
      BY <1>4 DEF Environment, HeadFails, HeadStarts, DefineGroup, RemoveGroup, Deploy, Undeploy,
             DeploymentGoesOn, infoVars
    <2> QED BY <1>1, <2>1, SameRebuilding
  <1> QED BY <1>2, <1>3, <1>4

(* No other job is at work while a run is, or the run has seen it.         *)
LEMMA OthersKeepRebuilding ==
  ASSUME Inv, NEW j \in Jobs, StartRun(j) \/ JobStep(j) \/ RequestHangs(j) \/ Crash(j),
         NEW k \in Jobs, k # j, RunRebuilds(k), "overlap" \notin seen'[k]
  PROVE  RunRebuilds(k)'
PROOF
  <1> USE DEF headVars, serveVars, stateVars, infoVars, cmlVars, SetPhase
  <1>0. TypeInv /\ seen \in [Jobs -> SUBSET Anomaly]
    BY DEF Inv, TypeInv, TypeOK
  <1>1. at'[k] = at[k] /\ local'[k] = local[k]
    BY <1>0, OthersStay
  <1>2. CASE Running(k)
    <2>1. "overlap" \notin seen[k]
      BY <1>0, <1>1, <1>2, JobSeesMore DEF Running
    <2>2. ~Running(j)
      BY <1>2, <2>1 DEF Inv, ApartInv
    <2>3. ~AcquireLock(j)
      BY <1>0, <1>2 DEF AcquireLock
    <2>4. UNCHANGED <<phase, epoch, apps, info>>
      BY <2>2, <2>3 DEF Running, Requests, StartRun, JobStep, Crash, DetectOrResume, RecordRestart,
         RestartHead, WaitForHead, PollHead, HeadTimesOut, LoadInfo, ReplaceInfo, ListWorkers,
         DeleteWorker, WorkersDeleted, CreateWorker, RecordRedeploy, Redeploy, RecordComplete,
         Clear, EndRun, RequestHangs
    <2> QED BY <1>1, <2>4, SameRebuilding
  <1>3. CASE ~Running(k)
    BY <1>1, <1>3 DEF Running, RunRebuilds
  <1> QED BY <1>2, <1>3

(* The deletion of the older workers leaves none, and the first worker that*)
(* is created is the first of all.                                         *)
LEMMA NothingIsSlotted ==
  ASSUME Inv, NEW j \in Jobs, RunRebuilds(j), WorkersDeleted(j)
  PROVE  RunRebuilds(j)'
PROOF
  <1>0. at \in [Jobs -> Place] /\ local \in [Jobs -> Local] /\ local[j] \in Local
    BY DEF Inv, TypeInv, TypeOK
  <1> DEFINE missing == [g \in Groups |-> IF g \in local[j].groups THEN Count ELSE 0]
  <1>1. local'[j] = [local[j] EXCEPT !.missing = missing] /\ at'[j] = "creating"
    BY <1>0 DEF WorkersDeleted, Know, Goto
  <1>2. local'[j].missing = missing /\ local'[j].groups = local[j].groups
    BY <1>0, <1>1 DEF Local
  <1>3. /\ apps = {} /\ info.head_address = epoch
        /\ UNCHANGED <<apps, info, epoch, phase>>
    BY DEF WorkersDeleted, RunRebuilds, headVars, stateVars, infoVars, cmlVars
  <1>4. local[j].groups \subseteq Groups
    BY <1>0 DEF Local
  <1>5. Slotted(j)' = {}
    <2>1. \A slot \in local[j].groups \X (1 .. Count) : ~(slot[2] > missing[slot[1]])
      <3> SUFFICES ASSUME NEW g \in local[j].groups, NEW i \in 1 .. Count
                   PROVE  ~(i > missing[g])
        OBVIOUS
      <3>1. missing[g] = Count
        BY <1>4
      <3> QED BY <3>1, RunsAssumption
    <2> QED BY <1>2, <2>1 DEF Slotted
  <1>6. IsFiniteSet(apps)' /\ Cardinality(apps)' = Cardinality(Slotted(j)')
    <2>1. apps' = {}
      BY <1>3
    <2>2. IsFiniteSet({}) /\ Cardinality({}) = 0
      BY FS_EmptySet
    <2> QED BY <1>5, <2>1, <2>2
  <1>7. \A g \in Groups : local'[j].missing[g] > 0 => g \in local'[j].groups
    BY <1>2, <1>4
  <1> QED BY <1>1, <1>3, <1>6, <1>7 DEF RunRebuilds

(* A worker that is created is a new one, and takes a place of its group.  *)
LEMMA OneMoreIsSlotted ==
  ASSUME Inv, NumberInv, NEW j \in Jobs, RunRebuilds(j), CreateWorker(j)
  PROVE  RunRebuilds(j)'
PROOF
  <1>0. at \in [Jobs -> Place] /\ local \in [Jobs -> Local] /\ local[j] \in Local /\ made \in Nat
    BY RunsAssumption DEF Inv, TypeInv, TypeOK
  <1> USE DEF Raises, Goto
  <1>1. CASE at'[j] = "release"
    BY <1>1 DEF RunRebuilds
  <1>2. CASE at'[j] # "release"
    <2>1. PICK g \in Groups :
            /\ local[j].missing[g] > 0
            /\ CreateWorkerNode(g)
            /\ Know(j, [local[j] EXCEPT !.missing[g] = @ - 1])
            /\ UNCHANGED at
      BY <1>0, <1>2 DEF CreateWorker
    <2>2. /\ at[j] = "creating" /\ UNCHANGED <<info, epoch, phase, at>>
          /\ local'[j] = [local[j] EXCEPT !.missing[g] = @ - 1]
      BY <1>0, <2>1 DEF CreateWorker, Know, headVars, stateVars, infoVars
    <2>3. /\ local[j].missing \in [Groups -> 0 .. Count]
          /\ local'[j].missing = [local[j].missing EXCEPT ![g] = @ - 1]
          /\ local'[j].groups = local[j].groups
      BY <1>0, <2>2 DEF Local
    <2>4. /\ info.head_address = epoch /\ \A app \in apps : app.head_address = epoch \/ app.baked
          /\ IsFiniteSet(apps) /\ Cardinality(apps) = Cardinality(Slotted(j))
          /\ \A h \in Groups : local[j].missing[h] > 0 => h \in local[j].groups
      BY <2>2 DEF RunRebuilds
    <2> DEFINE slot == <<g, local[j].missing[g]>>
    <2>5. PICK new \in App : /\ apps' = apps \cup {new} /\ new \notin apps
                             /\ new.head_address = epoch \/ new.baked
      <3>1. PICK new \in App : /\ apps' = apps \cup {new} /\ new.id = made + 1
                               /\ new.head_address = info.head_address \/ new.baked
        BY <2>1, WorkerType DEF Inv, TypeInv
      <3>2. new \notin apps
        BY <1>0, <3>1 DEF NumberInv
      <3> QED BY <2>4, <3>1, <3>2
    <2>6. IsFiniteSet(apps') /\ Cardinality(apps') = Cardinality(apps) + 1
      BY <2>4, <2>5, FS_AddElement
    <2>7. Slotted(j)' = Slotted(j) \cup {slot} /\ slot \notin Slotted(j)
      <3>1. slot \in local[j].groups \X (1 .. Count)
        BY <2>1, <2>3, <2>4, RunsAssumption
      <3>2. ASSUME NEW h \in local[j].groups, NEW i \in 1 .. Count
            PROVE  i > local'[j].missing[h] <=> i > local[j].missing[h] \/ <<h, i>> = slot
        <4>1. h \in Groups /\ local[j].missing[h] \in Nat /\ local[j].missing[g] \in Nat
          BY <1>0, <2>3, RunsAssumption DEF Local
        <4>2. CASE h = g
          <5>1. local'[j].missing[h] = local[j].missing[g] - 1
            BY <2>3, <4>2
          <5>2. <<h, i>> = slot <=> i = local[j].missing[g]
            BY <4>2
          <5> QED BY <4>1, <4>2, <5>1, <5>2, RunsAssumption
        <4>3. CASE h # g
          <5>1. local'[j].missing[h] = local[j].missing[h]
            BY <2>3, <4>1, <4>3
          <5> QED BY <4>3, <5>1
        <4> QED BY <4>2, <4>3
      <3>3. \A s \in local[j].groups \X (1 .. Count) :
              s[2] > local'[j].missing[s[1]] <=> s[2] > local[j].missing[s[1]] \/ s = slot
        BY <3>2
      <3>4. slot[2] = local[j].missing[slot[1]] /\ local[j].missing[g] \in Nat
        BY <2>3, RunsAssumption
      <3>5. slot \notin Slotted(j)
        BY <3>4 DEF Slotted
      <3> QED BY <2>3, <3>1, <3>3, <3>5 DEF Slotted
    <2>8. Cardinality(Slotted(j)') = Cardinality(Slotted(j)) + 1
      <3>1. IsFiniteSet(Slotted(j))
        BY SlottedIsFinite DEF Inv
      <3> QED BY <2>7, <3>1, FS_AddElement
    <2>9. \A app \in apps' : app.head_address = epoch' \/ app.baked
      BY <2>2, <2>4, <2>5
    <2>10. \A h \in Groups : local'[j].missing[h] > 0 => h \in local'[j].groups
      BY <2>1, <2>3, <2>4
    <2> QED BY <2>2, <2>4, <2>6, <2>8, <2>9, <2>10 DEF RunRebuilds
  <1> QED BY <1>1, <1>2

(* The other steps of a run.                                               *)
LEMMA RunGoesOnRebuilding ==
  ASSUME Inv, NEW j \in Jobs, StartRun(j) \/ JobStep(j) \/ RequestHangs(j) \/ Crash(j),
         RunRebuilds(j), seen'[j] \cap Interference = {},
         ~WorkersDeleted(j), ~CreateWorker(j)
  PROVE  RunRebuilds(j)'
PROOF
  <1>0. at \in [Jobs -> Place] /\ local \in [Jobs -> Local] /\ local[j] \in Local
        /\ seen \in [Jobs -> SUBSET Anomaly] /\ ~See(j, "undeleted")
    <2>1. seen \in [Jobs -> SUBSET Anomaly]
      BY DEF Inv, TypeInv, TypeOK
    <2>2. ~See(j, "undeleted")
      BY <2>1 DEF See, Interference
    <2> QED BY <2>1, <2>2 DEF Inv, TypeInv, TypeOK
  <1> USE DEF Raises, Goto, SetPhase, headVars, stateVars, infoVars, cmlVars
  <1>1. CASE at'[j] \in {"idle", "tested", "locked", "begun", "restarting", "restarted", "release", "hung"}
    BY <1>1 DEF RunRebuilds
  <1>2. CASE WaitForHead(j)
    BY <1>0, <1>2 DEF WaitForHead, RunRebuilds
  <1>3. CASE PollHead(j)
    <2>1. local'[j] = [local[j] EXCEPT !.address = epoch]
      BY <1>0, <1>3 DEF PollHead, Know
    <2>2. local'[j].address = epoch
      BY <1>0, <2>1 DEF Local
    <2> QED BY <1>0, <1>3, <2>2 DEF PollHead, RunRebuilds
  <1>4. CASE LoadInfo(j)
    <2>1. ~Past("UPDATING_INFO")
      BY <1>4, IndexOfPhase DEF LoadInfo, RunRebuilds, Past
    <2>2. local'[j] = [local[j] EXCEPT !.copy = <<info>>] /\ at'[j] = "loaded"
      BY <1>0, <1>4, <2>1 DEF LoadInfo, Know
    <2>3. local'[j].address = local[j].address
      BY <1>0, <2>2 DEF Local
    <2> QED BY <1>4, <2>2, <2>3 DEF LoadInfo, RunRebuilds
  <1>5. CASE ReplaceInfo(j)
    <2>1. local[j].copy[1] \in Info
      BY <1>0, <1>5 DEF ReplaceInfo, Inv, CopyInv, Local
    <2>2. info'.head_address = epoch
      BY <1>5, <2>1 DEF ReplaceInfo, Info, RunRebuilds
    <2>3. at'[j] = "updated" /\ UNCHANGED epoch
      BY <1>0, <1>5 DEF ReplaceInfo
    <2> QED BY <2>2, <2>3 DEF RunRebuilds
  <1>6. CASE ListWorkers(j)
    <2>1. local'[j] = [local[j] EXCEPT !.stale = apps]
      BY <1>0, <1>6 DEF ListWorkers, Know
    <2>2. local'[j].stale = apps
      BY <1>0, <2>1 DEF Local
    <2> QED BY <1>0, <1>6, <2>2 DEF ListWorkers, RunRebuilds
  <1>7. CASE DeleteWorker(j)
    <2>1. PICK app \in local[j].stale :
            /\ apps' = apps \ {app}
            /\ Know(j, [local[j] EXCEPT !.stale = @ \ {app}])
      BY <1>0, <1>7 DEF DeleteWorker
    <2>2. local'[j].stale = local[j].stale \ {app}
      BY <1>0, <2>1 DEF Know, Local
    <2> QED BY <1>7, <2>1, <2>2 DEF DeleteWorker, RunRebuilds
  <1>8. CASE RecordRedeploy(j)
    <2>1. local'[j] = [local[j] EXCEPT !.requests = store] \/ local'[j] = local[j]
      BY <1>0, <1>8 DEF RecordRedeploy, Know
    <2>2. local'[j].groups = local[j].groups /\ local'[j].missing = local[j].missing
      BY <1>0, <2>1 DEF Local
    <2>3. /\ at[j] = "creating" /\ at'[j] = "redeploying" /\ \A g \in Groups : local[j].missing[g] = 0
          /\ UNCHANGED <<apps, info, epoch>>
      BY <1>0, <1>8 DEF RecordRedeploy
    <2>4. Slotted(j)' = Slotted(j)
      BY <2>2 DEF Slotted
    <2> QED BY <2>2, <2>3, <2>4 DEF RunRebuilds
  <1>9. CASE Redeploy(j)
    <2>1. PICK name \in local[j].requests :
            \/ local'[j] = [local[j] EXCEPT !.requests = @ \ {name}]
            \/ local'[j] = [local[j] EXCEPT !.requests = @ \ {name}, !.failed = @ \cup {name}]
      BY <1>0, <1>9 DEF Redeploy, Know
    <2>2. local'[j].groups = local[j].groups /\ local'[j].missing = local[j].missing
      BY <1>0, <2>1 DEF Local
    <2>3. at[j] = "redeploying" /\ UNCHANGED <<at, apps, info, epoch>>
      BY <1>9 DEF Redeploy
    <2>4. Slotted(j)' = Slotted(j)
      BY <2>2 DEF Slotted
    <2> QED BY <2>2, <2>3, <2>4 DEF RunRebuilds
  <1>10. CASE RecordComplete(j)
    <2>1. /\ at[j] = "redeploying" /\ at'[j] = "complete"
          /\ UNCHANGED <<apps, info, epoch, local>>
      BY <1>0, <1>10 DEF RecordComplete
    <2>2. Slotted(j)' = Slotted(j)
      BY <2>1 DEF Slotted
    <2> QED BY <2>1, <2>2 DEF RunRebuilds
  <1>11. CASE \/ StartRun(j) \/ Crash(j) \/ AcquireLock(j) \/ DetectOrResume(j) \/ RecordRestart(j)
              \/ RestartHead(j) \/ HeadTimesOut(j) \/ Clear(j) \/ EndRun(j)
              \/ RequestHangs(j)
    <2>1. \/ UNCHANGED <<at, phase, epoch, apps, info, local>>
          \/ at'[j] \in {"idle", "tested", "locked", "begun", "restarting", "restarted", "release", "hung"}
      BY <1>0, <1>11 DEF StartRun, Crash, AcquireLock, DetectOrResume, RecordRestart, RestartHead,
           HeadTimesOut, Clear, EndRun, RequestHangs
    <2> QED BY <1>1, <2>1, SameRebuilding
  <1> QED
    BY <1>2, <1>3, <1>4, <1>5, <1>6, <1>7, <1>8, <1>9, <1>10, <1>11 DEF JobStep

(* Only the creation of a worker adds one, and it takes the next number.   *)
LEMMA NumbersAreNew ==
  ASSUME Inv, NumberInv, [Next]_vars
  PROVE  NumberInv'
PROOF
  <1>0. made \in Nat /\ \A app \in apps : app.id \in Nat
    BY RunsAssumption DEF Inv, TypeInv, TypeOK, App
  <1> USE DEF headVars, serveVars, stateVars, cmlVars
  <1>1. CASE \E j \in Jobs : CreateWorker(j) \/ RequestHangs(j)
    <2>1. \/ apps' \subseteq apps /\ UNCHANGED made
          \/ \E g \in Groups : CreateWorkerNode(g)
      BY <1>1 DEF CreateWorker, RequestHangs
    <2>2. ASSUME NEW g \in Groups, CreateWorkerNode(g)
          PROVE  /\ made' = made + 1
                 /\ \E app \in App : apps' = apps \cup {app} /\ app.id = made + 1
      BY <2>2, WorkerType DEF Inv, TypeInv, CreateWorkerNode
    <2> QED BY <1>0, <2>1, <2>2 DEF NumberInv
  <1>2. CASE ~\E j \in Jobs : CreateWorker(j) \/ RequestHangs(j)
    <2>1. CASE Environment \/ UNCHANGED vars
      <3>1. UNCHANGED cmlVars
        BY <2>1 DEF vars, Environment, HeadFails, HeadStarts, DefineGroup, RemoveGroup, SaveInfo,
           Deploy, Undeploy, DeploymentGoesOn
      <3> QED BY <3>1 DEF NumberInv
    <2>2. CASE \E j \in Jobs : StartRun(j) \/ JobStep(j) \/ Crash(j)
      <3>1. PICK j \in Jobs : StartRun(j) \/ JobStep(j) \/ Crash(j)
        BY <2>2
      <3>2. CASE DeleteWorker(j)
        BY <3>2 DEF DeleteWorker, NumberInv
      <3>3. CASE ~DeleteWorker(j)
        <4>1. UNCHANGED cmlVars
          BY <1>2, <3>1, <3>3 DEF StartRun, JobStep, Crash, AcquireLock, DetectOrResume,
             RecordRestart, RestartHead, WaitForHead, PollHead, HeadTimesOut, LoadInfo, ReplaceInfo,
             ListWorkers, WorkersDeleted, RecordRedeploy, Redeploy, RecordComplete, Clear, EndRun
        <4> QED BY <4>1 DEF NumberInv
      <3> QED BY <3>2, <3>3
    <2> QED BY <1>2, <2>1, <2>2 DEF Next
  <1> QED BY <1>1, <1>2

(* What a run rebuilds stands as long as nobody interferes.                *)
LEMMA RebuiltStep ==
  ASSUME Inv, NumberInv, RebuiltInv, [Next]_vars
  PROVE  RebuiltInv'
PROOF
  <1>1. CASE Environment
    BY <1>1, EnvironmentKeepsRebuilt
  <1>2. CASE \E j \in Jobs : StartRun(j) \/ JobStep(j) \/ RequestHangs(j) \/ Crash(j)
    <2>1. PICK j \in Jobs : StartRun(j) \/ JobStep(j) \/ RequestHangs(j) \/ Crash(j)
      BY <1>2
    <2> SUFFICES ASSUME NEW k \in Jobs, seen'[k] \cap Interference = {}, at'[k] \notin {"idle", "hung"}
                 PROVE  RunRebuilds(k)'
      BY DEF RebuiltInv, RunRebuilds
    <2>2. seen[k] \subseteq seen'[k]
      BY <2>1, JobSeesMore DEF Inv
    <2>3. RunRebuilds(k) /\ "overlap" \notin seen'[k]
      BY <2>2 DEF RebuiltInv, Interference
    <2> QED
      BY <2>1, <2>3, OthersKeepRebuilding, NothingIsSlotted, OneMoreIsSlotted, RunGoesOnRebuilding
  <1>3. CASE UNCHANGED vars
    <2>1. UNCHANGED <<phase, epoch, apps, info, at, local, seen>>
      BY <1>3 DEF vars, headVars, stateVars, infoVars, cmlVars, history
    <2>2. \A j \in Jobs : RunRebuilds(j) => RunRebuilds(j)'
      BY <2>1, SameRebuilding
    <2> QED BY <2>1, <2>2 DEF RebuiltInv
  <1> QED BY <1>1, <1>2, <1>3 DEF Next

-----------------------------------------------------------------------------
(* The theorems.                                                           *)

(* The invariant holds in every state a recovery can be in.                *)
THEOREM Invariance == Spec => []Inv
PROOF
  <1>1. Inv /\ [Next]_vars => Inv'
    <2> SUFFICES ASSUME Inv, [Next]_vars PROVE Inv'
      OBVIOUS
    <2>1. CASE Environment
      BY <2>1, EnvironmentKeepsType, EnvironmentKeepsInv, EnvironmentKeepsPosted DEF Inv
    <2>2. CASE \E j \in Jobs : StartRun(j) \/ JobStep(j) \/ RequestHangs(j) \/ Crash(j)
      <3>1. PICK j \in Jobs : StartRun(j) \/ JobStep(j) \/ RequestHangs(j) \/ Crash(j)
        BY <2>2
      <3> QED BY <3>1, JobKeepsType, JobKeepsCopy, JobKeepsApi, JobKeepsApart, JobKeepsOnce,
                 JobKeepsPosted DEF Inv
    <2>3. CASE UNCHANGED vars
      <3>1. UNCHANGED <<head, epoch, deaths, live, starting, store, unnoticed, phase, lock, runs, info,
                        launcher, apps, made, api, at, local, issued, seen, overlapped>>
        BY <2>3 DEF vars, headVars, serveVars, stateVars, infoVars, cmlVars, history
      <3> QED
        BY <3>1 DEF Inv, TypeInv, TypeOK, DeploymentsTypeOK, CopyInv, ApiInv, ApartInv,
                    OnceInv, PostedInv, RunPosts, Running
    <2> QED BY <2>1, <2>2, <2>3 DEF Next
  <1> QED BY InitInv, <1>1, PTL DEF Spec

(* Every variable keeps its type, with any number of jobs.                 *)
THEOREM TypeCorrect == Spec => []TypeOK
PROOF
  <1>1. Inv => TypeOK
    BY DEF Inv, TypeInv
  <1> QED BY <1>1, Invariance, PTL

(* One run at a time restarts the head at most once from the detection of a*)
(* failure to the end of its recovery, whatever step a run is killed at    *)
(* and however often it is started again.                                  *)
THEOREM RestartedAtMostOnce == Spec => []HeadRestartedOnce
PROOF
  <1>1. Inv => HeadRestartedOnce
    BY DEF Inv, OnceInv, HeadRestartedOnce
  <1> QED BY <1>1, Invariance, PTL

(* A run that reports success has deployed what is on record, or counts it *)
(* as failed, if it could read the record: no request is passed over,      *)
(* whatever the admin deploys and deletes while the run goes through them, *)
(* and whichever reads and writes of the record the head's handlers lose.  *)
THEOREM NoRequestIsPassedOver == Spec => []SuccessMeansRedeployed
PROOF
  <1>1. Inv => SuccessMeansRedeployed
    BY DEF Inv, PostedInv, RunPosts, Losses, SuccessMeansRedeployed
  <1> QED BY <1>1, Invariance, PTL

(* A run that reports success has replaced every worker, by as many as the *)
(* groups ask for, and those whose launcher has no address of its own join *)
(* the head that is up: whatever the run resumed from, whatever step the   *)
(* earlier ones were killed at, and whichever requests hung.               *)
THEOREM SuccessIsARebuild == Spec => []SuccessMeansRebuilt
PROOF
  <1>1. Init => NumberInv /\ RebuiltInv
    BY DEF Init, NumberInv, RebuiltInv, RunRebuilds
  <1>2. Inv /\ NumberInv /\ RebuiltInv /\ [Next]_vars => NumberInv' /\ RebuiltInv'
    BY NumbersAreNew, RebuiltStep
  <1>3. Inv /\ RebuiltInv => SuccessMeansRebuilt
    BY AllSlotted DEF Inv, RebuiltInv, RunRebuilds, Interference, SuccessMeansRebuilt
  <1> QED BY <1>1, <1>2, <1>3, Invariance, PTL DEF Spec
=============================================================================
