---------------------------- MODULE PipelineBuild ----------------------------
(***************************************************************************)
(* Building the pipeline from the Launchpad: the detached processes that   *)
(* run build_pipeline (cai/lib/deployment_control.py, started by           *)
(* client/demos/app/api/deployment/route.ts through                        *)
(* cai/amp/7_deploy/control_plane_cli.py), the status requests that the    *)
(* page sends all the time, and the progress file they all read, change    *)
(* and write back (cai/lib/build_progress.py).                             *)
(*                                                                         *)
(* A set_step(done) and the set_step(running) that follows it are one with *)
(* the end of the step; so are the listing of the applications and what is *)
(* decided on it.                                                          *)
(***************************************************************************)
EXTENDS PipelineApps, Functions

CONSTANTS FirstMode,    \* the configuration that is saved before the first build
          MaxBuilds,    \* bound on the build processes that are ever started
          MaxUpsets     \* bound on the configurations saved by the user, the builds
                        \* killed, the requests refused and the applications
                        \* that fail, taken together

ASSUME PipelineBounds == FirstMode \in Mode /\ MaxBuilds \in Nat /\ MaxUpsets \in Nat

(* In the order in which they look whether a build is in progress.         *)
Build == 1 .. MaxBuilds

VARIABLES
  saved,      \* nim_deploy_mode in deployment_config.json
  progress,   \* build_progress.json
  at,         \* the step of each build
  stage,      \* where it is in the step
  mode,       \* the configuration it was started with
  orphan,     \* the application its cleanup is looking at
  fresh,      \* history: the applications created since it started
  poll,       \* the record a status request has read and is about to correct, or <<>>
  upsets

buildVars == <<at, stage, mode, orphan, fresh>>
pipelineVars == <<appVars, saved, progress, buildVars, poll, upsets>>

(* The plan, without the steps that only touch this process.               *)
Plan ==
  [m \in Mode |->
     <<"validate", "cleanup">>
     \o (IF m = "SERVERLESS" THEN <<"serverless_nims">>
         ELSE IF "asd" \in Nims THEN <<"lipsync", "asd">> ELSE <<"lipsync">>)
     \o <<"s2s", "wait_s2s", "wire", "controller", "ready">>]

Step == UNION {Range(Plan[m]) : m \in Mode}

After ==
  [m \in Mode |-> [step \in Range(Plan[m]) |->
     LET i == CHOOSE i \in DOMAIN Plan[m] : Plan[m][i] = step
     IN IF i = Len(Plan[m]) THEN "finish" ELSE Plan[m][i + 1]]]

Over == {"refused", "succeeded", "failed", "crashed"}

(* Ages of the last update: fresh, over two minutes, over five minutes,    *)
(* over half an hour.                                                      *)
Age == 0 .. 3

Live(b) == at[b] \in Step \cup {"finish", "fail"}

NoProgress == [running |-> FALSE, success |-> "none", begun |-> FALSE, age |-> 0]

PipelineInit ==
  /\ AppsInit
  /\ saved = FirstMode
  /\ progress = NoProgress
  /\ at = [b \in Build |-> "idle"]
  /\ stage = [b \in Build |-> "act"]
  /\ mode = [b \in Build |-> "SERVERLESS"]
  /\ orphan = [b \in Build |-> "lipsync"]
  /\ fresh = [b \in Build |-> {}]
  /\ poll = <<>>
  /\ upsets = 0

-----------------------------------------------------------------------------
(* The progress file.                                                      *)

(* reconcile_stale_build: whether the recorded build is declared over.     *)
Stale(p, deployed, failed) ==
  /\ p.running
  /\ \/ ~deployed /\ (p.age >= 1 \/ ~p.begun)
     \/ p.age >= (IF failed THEN 2 ELSE 3)

GivenUp(p) == [p EXCEPT !.running = FALSE, !.success = "no", !.age = 0]

-----------------------------------------------------------------------------
(* A build.                                                                *)

Goto(b, step, s) ==
  /\ at' = [at EXCEPT ![b] = step]
  /\ stage' = [stage EXCEPT ![b] = s]

(* The process is gone; its variables go back to their first values.       *)
Exit(b, outcome) ==
  /\ Goto(b, outcome, "act")
  /\ mode' = [mode EXCEPT ![b] = "SERVERLESS"]
  /\ orphan' = [orphan EXCEPT ![b] = "lipsync"]
  /\ fresh' = [fresh EXCEPT ![b] = IF outcome = "succeeded" THEN @ ELSE {}]

Within(b, s) == stage' = [stage EXCEPT ![b] = s] /\ UNCHANGED at

Doing(b, step) == at[b] = step /\ stage[b] = "act"

Upset == upsets < MaxUpsets /\ upsets' = upsets + 1

Unchanged == UNCHANGED <<saved, mode, orphan, fresh, poll, upsets>>

(* The step is done and the next one is running: set_step keeps what it    *)
(* finds in the file.                                                      *)
Touched(p) == [p EXCEPT !.begun = TRUE, !.age = 0]

Advance(b) ==
  LET next == After[mode[b]][at[b]]
  IN Goto(b, next, "act") /\ progress' = IF next = "finish" THEN progress ELSE Touched(progress)

(* is_build_in_progress, which gives up a stale build before it looks.     *)
Check(b) ==
  LET p == IF Stale(progress, FALSE, FALSE) THEN GivenUp(progress) ELSE progress
  IN /\ at[b] = "idle"
     /\ \A c \in 1 .. b - 1 : at[c] # "idle"
     /\ progress' = p
     /\ IF p.running THEN Exit(b, "refused")
        ELSE /\ Goto(b, "start", "act")
             /\ mode' = [mode EXCEPT ![b] = saved]
             /\ UNCHANGED <<orphan, fresh>>
     /\ UNCHANGED <<appVars, saved, poll, upsets>>

Start(b) ==
  /\ at[b] = "start"
  /\ progress' = [running |-> TRUE, success |-> "unknown", begun |-> FALSE, age |-> 0]
  /\ Goto(b, "validate", "set")
  /\ UNCHANGED <<appVars, saved, mode, orphan, fresh, poll, upsets>>

SetFirstStep(b) ==
  /\ stage[b] = "set"
  /\ progress' = Touched(progress)
  /\ Within(b, "act")
  /\ UNCHANGED appVars
  /\ Unchanged

Finish(b) ==
  /\ at[b] \in {"finish", "fail"}
  /\ progress' = [progress EXCEPT !.running = FALSE, !.age = 0,
                                  !.success = IF at[b] = "finish" THEN "yes" ELSE "no"]
  /\ Exit(b, IF at[b] = "finish" THEN "succeeded" ELSE "failed")
  /\ UNCHANGED <<appVars, saved, poll, upsets>>

(* save_app_config puts the configuration of this build back on disk.      *)
SaveAndClear(b) ==
  /\ Doing(b, "validate")
  /\ saved' = mode[b]
  /\ ClearEndpoints
  /\ Advance(b)
  /\ UNCHANGED <<mode, orphan, fresh, poll, upsets>>

(* _remove_orphaned_pipeline_apps: each application that the mode does not *)
(* need is looked up, deleted and waited for.                              *)
NextOrphan(k) == IF k = "lipsync" /\ "asd" \in Nims THEN "asd" ELSE "none"

(* Fault: what the other mode needed is left running.                      *)
KeepOrphans(b) == Doing(b, "cleanup") /\ Advance(b) /\ UNCHANGED appVars /\ Unchanged

Cleanup(b) ==
  /\ Doing(b, "cleanup")
  /\ UNCHANGED <<saved, mode, fresh, poll, upsets>>
  /\ IF orphan[b] = "none" \/ orphan[b] \in Required(mode[b])
     THEN Advance(b) /\ UNCHANGED <<appVars, orphan>>
     ELSE IF app[orphan[b]] = "none"
     THEN /\ orphan' = [orphan EXCEPT ![b] = NextOrphan(orphan[b])]
          /\ UNCHANGED <<appVars, progress, at, stage>>
     ELSE DeleteApp(orphan[b]) /\ Within(b, "removal") /\ UNCHANGED <<progress, orphan>>

PointAtServerless(b) ==
  /\ Doing(b, "serverless_nims")
  /\ nimFile' = Nims
  /\ Advance(b)
  /\ UNCHANGED <<app, launched, merging, s2sFile, env>>
  /\ Unchanged

(* _ensure_application, which a build always calls with recreate.          *)
Target(b) == IF at[b] = "cleanup" THEN orphan[b] ELSE at[b]

ReplaceApp(b) ==
  /\ at[b] \in Service
  /\ stage[b] = "act"
  /\ IF app[at[b]] = "none"
     THEN Within(b, "create") /\ UNCHANGED appVars
     ELSE DeleteApp(at[b]) /\ Within(b, "removal")
  /\ UNCHANGED progress
  /\ Unchanged

AppIsGone(b) ==
  /\ stage[b] = "removal"
  /\ app[Target(b)] = "none"
  /\ Within(b, IF at[b] = "cleanup" THEN "act" ELSE "create")
  /\ UNCHANGED <<appVars, progress>>
  /\ Unchanged

Create(b) ==
  /\ stage[b] = "create"
  /\ CreateApp(at[b])
  /\ fresh' = [c \in Build |-> IF Live(c) \/ at[c] = "succeeded" THEN fresh[c] \cup {at[b]}
                              ELSE fresh[c]]
  /\ Advance(b)
  /\ UNCHANGED <<saved, mode, orphan, poll, upsets>>

SeesS2sRunning(b) ==
  /\ Doing(b, "wait_s2s")
  /\ Running("s2s")
  /\ Within(b, "file")
  /\ UNCHANGED <<appVars, progress>>
  /\ Unchanged

S2sFileExists(b) ==
  /\ stage[b] = "file"
  /\ s2sFile # "none"
  /\ Advance(b)
  /\ UNCHANGED appVars
  /\ Unchanged

Wire(b) ==
  /\ Doing(b, "wire")
  /\ s2sFile # "none"
  /\ IF mode[b] = "SERVERLESS" THEN WireServerless ELSE NimsArePublished /\ WireBundled
  /\ Advance(b)
  /\ Unchanged

(* list_deployment_status asks for what the configuration on disk needs.   *)
SeesReady(b) ==
  /\ Doing(b, "ready")
  /\ PipelineReady(saved)
  /\ Advance(b)
  /\ UNCHANGED appVars
  /\ Unchanged

(* What a waiting build waits for is not there yet.                        *)
Waiting(b) ==
  \/ stage[b] = "removal" /\ app[Target(b)] # "none"
  \/ stage[b] = "file" /\ s2sFile = "none"
  \/ Doing(b, "wait_s2s") /\ ~Running("s2s")
  \/ Doing(b, "wire") /\ mode[b] = "BUNDLED" /\ ~NimsArePublished
  \/ Doing(b, "ready") /\ ~PipelineReady(saved)

(* on_tick: the progress is written again.                                 *)
Tick(b) ==
  /\ Waiting(b)
  /\ at[b] \in {"wait_s2s", "wire", "ready"}
  /\ progress' = Touched(progress)
  /\ UNCHANGED <<appVars, at, stage>>
  /\ Unchanged

FailsWith(b) == Goto(b, "fail", "act") /\ UNCHANGED <<appVars, progress>> /\ Unchanged

(* The exceptions of a build: an application that failed, the endpoint     *)
(* file that is missing, a name that another build has taken, a deadline,  *)
(* and an error of the platform or of the configuration.                   *)
SeesFailure(b) ==
  /\ \/ Doing(b, "wait_s2s") /\ Failed("s2s")
     \/ Doing(b, "wire") /\ s2sFile = "none"
     \/ Doing(b, "ready") /\ \E k \in Required(saved) : Failed(k)
     \/ stage[b] = "create" /\ app[at[b]] # "none"
  /\ FailsWith(b)

(* Fault: a wait without a deadline.                                       *)
WaitsForEver(b) == FALSE

WaitTimesOut(b) == Waiting(b) /\ FailsWith(b)

HttpError(b) ==
  /\ at[b] \in Step \ {"serverless_nims", "wire"}
  /\ stage[b] \in {"act", "removal", "create"}
  /\ Upset
  /\ Goto(b, "fail", "act")
  /\ UNCHANGED <<appVars, saved, progress, mode, orphan, fresh, poll>>

IsKilled(b) ==
  /\ Live(b)
  /\ Upset
  /\ Exit(b, "crashed")
  /\ UNCHANGED <<appVars, saved, progress, poll>>

BuildStep(b) ==
  \/ Start(b) \/ SetFirstStep(b) \/ Finish(b)
  \/ SaveAndClear(b) \/ Cleanup(b) \/ PointAtServerless(b)
  \/ ReplaceApp(b) \/ AppIsGone(b) \/ Create(b)
  \/ SeesS2sRunning(b) \/ S2sFileExists(b) \/ Wire(b) \/ SeesReady(b)
  \/ SeesFailure(b)

-----------------------------------------------------------------------------
(* A status request: list_deployment_status.  What it decides about the    *)
(* record and the write this leads to are one, except where the record of  *)
(* another build may be written in between and then be overwritten.        *)

PollUnchanged == UNCHANGED <<appVars, saved, buildVars, upsets>>

(* The call of is_build_in_progress at the end knows of no application: it *)
(* gives up whatever the reconciliation at the start does, and more.       *)
LooksAgain(p) == IF Stale(p, FALSE, FALSE) THEN GivenUp(p) ELSE p

(* _reconcile_build_progress corrects a success when applications failed.  *)
IsCorrected(p) == ~p.running /\ p.success \in {"yes", "unknown"}

PollLists ==
  LET deployed == \E k \in Required(saved) : Running(k) \/ Pending(k)
      failed   == \E k \in Required(saved) : Failed(k)
      p        == IF Stale(progress, deployed, failed) THEN GivenUp(progress) ELSE progress
  IN /\ poll = <<>>
     /\ IF failed /\ IsCorrected(p) THEN poll' = <<p>> /\ progress' = p
        ELSE progress' = LooksAgain(p) /\ UNCHANGED poll
     /\ PollUnchanged

PollCorrects ==
  /\ poll # <<>>
  /\ progress' = LooksAgain([poll[1] EXCEPT !.success = "no"])
  /\ poll' = <<>>
  /\ PollUnchanged

PollStep ==
  \/ PollLists \/ PollCorrects

-----------------------------------------------------------------------------
(* The user, time and the platform.                                        *)

SaveConfig ==
  /\ Upset
  /\ \E m \in Mode \ {saved} : saved' = m
  /\ UNCHANGED <<appVars, progress, buildVars, poll>>

(* A removal takes up to 180 s and a request to the platform up to 120 s   *)
(* without any progress being written; everything else writes within ten   *)
(* seconds, and half an hour passes only for a build that is gone.         *)
Slow(b) == at[b] \in Service \cup {"cleanup"} /\ stage[b] \in {"act", "removal", "create"}

TimePasses ==
  /\ progress.running
  /\ progress.age < 3
  /\ \A b \in Build : Live(b) => Slow(b) /\ progress.age < 2
  /\ progress' = [progress EXCEPT !.age = @ + 1]
  /\ UNCHANGED <<appVars, saved, buildVars, poll, upsets>>

ProjectStep ==
  /\ \/ (Platform \/ LaunchScript(saved)) /\ UNCHANGED upsets
     \/ (\E k \in Service : Fails(k)) /\ Upset
  /\ UNCHANGED <<saved, progress, buildVars, poll>>

PipelineNext ==
  \/ \E b \in Build : Check(b) \/ BuildStep(b) \/ Tick(b) \/ WaitTimesOut(b) \/ HttpError(b) \/ IsKilled(b)
  \/ PollStep
  \/ SaveConfig
  \/ TimePasses
  \/ ProjectStep

(* The build processes are scheduled, every wait has a deadline and time   *)
(* passes; the page asks for the status again and again.  Nothing is       *)
(* promised of the platform.                                               *)
Fairness ==
  /\ WF_pipelineVars(TimePasses \/ \E b \in Build : BuildStep(b) \/ WaitTimesOut(b))
  /\ WF_pipelineVars(PollStep)

PipelineSpec == PipelineInit /\ [][PipelineNext]_pipelineVars /\ Fairness

-----------------------------------------------------------------------------
(* The values of the variables stay in their types.                        *)
TypeOK ==
  /\ AppsTypeOK
  /\ saved \in Mode
  /\ progress \in [running : BOOLEAN, success : {"none", "unknown", "yes", "no"},
                   begun : BOOLEAN, age : Age]
  /\ at \in [Build -> Step \cup Over \cup {"idle", "start", "finish", "fail"}]
  /\ stage \in [Build -> {"set", "act", "removal", "create", "file"}]
  /\ mode \in [Build -> Mode]
  /\ orphan \in [Build -> Nims \cup {"none"}]
  /\ fresh \in [Build -> SUBSET Service]

(* A build that succeeds leaves no application behind that is older than   *)
(* it is: each one it needs has been replaced, and those of the other mode *)
(* have been removed - however many builds and crashes came before it and  *)
(* even when another build works on the same project.                      *)
NothingOlderRemains ==
  \A b \in Build : at[b] = "succeeded" => \A k \in Service : app[k] = "none" \/ k \in fresh[b]

(* A build that was started ends, whatever the platform does, and the      *)
(* record of a build that died is given up, so that the next one is not    *)
(* refused for ever.                                                       *)
BuildsSettle ==
  (progress.running \/ \E b \in Build : Live(b)) ~> (~progress.running /\ \A b \in Build : ~Live(b))

(* build_progress.py: a build that is cleared has crashed or has been      *)
(* interrupted.                                                            *)
OnlyDeadBuildsAreGivenUp ==
  [][PollStep /\ progress.running /\ ~progress'.running => \A b \in Build : ~Live(b)]_pipelineVars

=============================================================================
