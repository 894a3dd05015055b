---------------------------- MODULE PipelineApps ----------------------------
(***************************************************************************)
(* The applications of the content-localization pipeline in a Cloudera AI  *)
(* project and the endpoint files through which they find each other: the  *)
(* part of the state that cai/lib/deployment_control.py, the launch        *)
(* scripts of cai/amp/4_services and cai/lib/endpoint_resolver.py share.   *)
(* The platform that starts, stops and removes applications is external.   *)
(*                                                                         *)
(* The address of the Speech-to-Speech service is told apart by what it    *)
(* leads to, the application that exists now or one that has been removed; *)
(* of the NIMs the files only say which are known.                         *)
(***************************************************************************)
EXTENDS Naturals, Sequences, FiniteSets

CONSTANT Nims       \* the GPU applications of the bundled mode

ASSUME NimsAssumption == "lipsync" \in Nims /\ Nims \subseteq {"lipsync", "asd"}

Service == Nims \cup {"s2s", "controller"}
Mode    == {"BUNDLED", "SERVERLESS"}
Address == {"none", "current", "stale"}

Required(mode) == IF mode = "BUNDLED" THEN Service ELSE {"s2s", "controller"}

VARIABLES
  app,        \* the platform's status of each application
  launched,   \* whether the launch script of the application has done its writes, or died
  merging,    \* nim_endpoints.json as the NIM's publisher has read it, or <<>>
  s2sFile,    \* s2s_endpoint.json
  nimFile,    \* nim_endpoints.json
  env         \* runtime_endpoints.env

appVars == <<app, launched, merging, s2sFile, nimFile, env>>

NoEndpoints == [s2s |-> "none", nim |-> FALSE]

AppsTypeOK ==
  /\ app \in [Service -> {"none", "starting", "running", "failed", "deleting"}]
  /\ launched \in [Service -> BOOLEAN]
  /\ merging \in [Nims -> {<<>>} \cup {<<f>> : f \in SUBSET Nims}]
  /\ s2sFile \in Address
  /\ nimFile \subseteq Nims
  /\ env \in [s2s : Address, nim : BOOLEAN]

AppsInit ==
  /\ app = [k \in Service |-> "none"]
  /\ launched = [k \in Service |-> TRUE]
  /\ merging = [k \in Nims |-> <<>>]
  /\ s2sFile = "none"
  /\ nimFile = {}
  /\ env = NoEndpoints

Running(k) == app[k] = "running"
Failed(k)  == app[k] = "failed"
Pending(k) == app[k] \in {"starting", "deleting"}
Alive(k)   == app[k] \in {"starting", "running", "deleting"}

-----------------------------------------------------------------------------
(* The platform.                                                           *)

StartsUp(k) ==
  /\ app[k] = "starting"
  /\ app' = [app EXCEPT ![k] = "running"]
  /\ UNCHANGED <<launched, merging, s2sFile, nimFile, env>>

Fails(k) ==
  /\ app[k] \in {"starting", "running"}
  /\ app' = [app EXCEPT ![k] = "failed"]
  /\ launched' = [launched EXCEPT ![k] = TRUE]
  /\ merging' = [n \in Nims |-> IF n = k THEN <<>> ELSE merging[n]]
  /\ UNCHANGED <<s2sFile, nimFile, env>>

Expired(address) == IF address = "current" THEN "stale" ELSE address

(* The application is gone, and its address leads nowhere.                 *)
IsRemoved(k) ==
  /\ app[k] = "deleting"
  /\ app' = [app EXCEPT ![k] = "none"]
  /\ launched' = [launched EXCEPT ![k] = TRUE]
  /\ merging' = [n \in Nims |-> IF n = k THEN <<>> ELSE merging[n]]
  /\ s2sFile' = IF k = "s2s" THEN Expired(s2sFile) ELSE s2sFile
  /\ env' = IF k = "s2s" THEN [env EXCEPT !.s2s = Expired(@)] ELSE env
  /\ UNCHANGED nimFile

Platform == \E k \in Service : StartsUp(k) \/ IsRemoved(k)

-----------------------------------------------------------------------------
(* The launch scripts.                                                     *)

(* launch_s2s.sh writes its address before the service listens.            *)
S2sPublishes ==
  /\ Alive("s2s")
  /\ ~launched["s2s"]
  /\ s2sFile' = "current"
  /\ launched' = [launched EXCEPT !["s2s"] = TRUE]
  /\ UNCHANGED <<app, merging, nimFile, env>>

(* The sidecar of a NIM waits for its health and then merges its entry     *)
(* into the shared file: a read, and later a write of the whole file.      *)
NimReads(k) ==
  /\ k \in Nims
  /\ Alive(k)
  /\ ~launched[k]
  /\ merging[k] = <<>>
  /\ merging' = [merging EXCEPT ![k] = <<nimFile>>]
  /\ UNCHANGED <<app, launched, s2sFile, nimFile, env>>

NimPublishes(k) ==
  /\ k \in Nims
  /\ merging[k] # <<>>
  /\ nimFile' = merging[k][1] \cup {k}
  /\ launched' = [launched EXCEPT ![k] = TRUE]
  /\ merging' = [merging EXCEPT ![k] = <<>>]
  /\ UNCHANGED <<app, s2sFile, env>>

(* What runtime_endpoints.env lacks is taken from the other files.         *)
Resolved(mode) ==
  [s2s |-> IF env.s2s # "none" THEN env.s2s ELSE s2sFile,
   nim |-> env.nim \/ mode = "SERVERLESS" \/ "lipsync" \in nimFile]

(* The controller waits until both endpoints are known and writes them.    *)
ControllerResolves(mode) ==
  /\ Alive("controller")
  /\ ~launched["controller"]
  /\ Resolved(mode).s2s # "none" /\ Resolved(mode).nim
  /\ env' = Resolved(mode)
  /\ launched' = [launched EXCEPT !["controller"] = TRUE]
  /\ UNCHANGED <<app, merging, s2sFile, nimFile>>

LaunchScript(mode) ==
  \/ S2sPublishes
  \/ \E k \in Nims : NimReads(k) \/ NimPublishes(k)
  \/ ControllerResolves(mode)

-----------------------------------------------------------------------------
(* The operations of a build on the project.                               *)

DeleteApp(k) ==
  /\ app' = [app EXCEPT ![k] = "deleting"]
  /\ UNCHANGED <<launched, merging, s2sFile, nimFile, env>>

CreateApp(k) ==
  /\ app[k] = "none"
  /\ app' = [app EXCEPT ![k] = "starting"]
  /\ launched' = [launched EXCEPT ![k] = FALSE]
  /\ UNCHANGED <<merging, s2sFile, nimFile, env>>

ClearEndpoints ==
  /\ s2sFile' = "none"
  /\ nimFile' = {}
  /\ env' = NoEndpoints
  /\ UNCHANGED <<app, launched, merging>>

(* write_serverless_nim_endpoints_json names both NIMs.                    *)
WireServerless ==
  /\ nimFile' = Nims
  /\ env' = [s2s |-> s2sFile, nim |-> TRUE]
  /\ UNCHANGED <<app, launched, merging, s2sFile>>

NimsArePublished == nimFile = Nims

WireBundled ==
  /\ env' = [s2s |-> s2sFile, nim |-> TRUE]
  /\ UNCHANGED <<app, launched, merging, s2sFile, nimFile>>

PipelineReady(mode) ==
  /\ env.s2s # "none" /\ env.nim
  /\ \A k \in Required(mode) : Running(k)

=============================================================================
