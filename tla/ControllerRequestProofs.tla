----------------------- MODULE ControllerRequestProofs -----------------------
(***************************************************************************)
(* ControllerRequest, for every set of configured NIMs and any bound on    *)
(* chunks and responses: a stage that failed is never reported as OK, only *)
(* the stages that a request may use are launched, an OK call delivered    *)
(* all the output of LipSync, and forbidden translated audio ends the      *)
(* output.  None of it rests on a join having waited for its thread.       *)
(***************************************************************************)
EXTENDS ControllerRequest, TLAPS

(* A failing stage stores its code before its output buffer is done.       *)
StageInv ==
  \A n \in Nim :
    /\ nim[n] = "abort" => failure[n] # None
    /\ outDone[n] => nim[n] = "exited"
    /\ n \in failed => nim[n] = "abort" \/ code # None

(* What the handler has done by the time it reaches each of its places.    *)
PhaseInv ==
  /\ handler \in {"controllerConfig", "asdConfig", "health"} => \A n \in Nim : nim[n] = "idle"
  /\ handler = "abort" => raised # None
  /\ raised # None => handler \in {"stop", "joinThreads", "close", "abort", "finish", "done"}
  /\ status # None => handler = "done"
  /\ config.asdActive => "asd" \in configured

(* The inductive invariant of every request.                               *)
Inv == TypeOK /\ StageInv /\ PhaseInv /\ LaunchIsAllowed

-----------------------------------------------------------------------------
(* TypeOK by the threads that write the variables: the client, the worker  *)
(* and the NIMs; the handler; several of them.                             *)
FrameType ==
  /\ configured \in Deployments
  /\ flags \in [bypassS2s : BOOLEAN, bypassAsd : BOOLEAN]
  /\ client \in {"open", "closed", "cancelled"}
  /\ sent \in [Kind -> Nat]
  /\ inbound \in Kind \cup {None}
  /\ worker \in {"read", "check", "complete", "exited"}
  /\ putCount \in [Kind -> Nat]
  /\ failure \in [Nim -> {"UNAVAILABLE", "INTERNAL", None}]
  /\ outDone \in [Nim -> BOOLEAN]
  /\ failed \subseteq Nim
  /\ produced \in 0 .. MaxResponses

HandlerType ==
  /\ stopEvent \in BOOLEAN
  /\ handler \in {"controllerConfig", "asdConfig", "health", "firstCheck", "next", "check",
                  "yield", "join", "validate", "stop", "joinThreads", "close", "abort",
                  "finish", "done"}
  /\ config \in [bypassS2s : BOOLEAN, bypassAsd : BOOLEAN, asdActive : BOOLEAN, asdConfig : BOOLEAN]
  /\ raised \in (Code \ {"OK"}) \cup {None}
  /\ channelsOpen \in BOOLEAN
  /\ yielded \in Nat
  /\ status \in Code \cup {"CANCELLED", None}

SharedType ==
  /\ nim \in [Nim -> {"idle", "health", "stream", "abort", "finally", "exited"}]
  /\ outQueue \in Nat
  /\ code \in (Code \ {"OK"}) \cup {None}

(* The three groups are TypeOK.                                            *)
LEMMA TypeGroups == TypeOK <=> FrameType /\ HandlerType /\ SharedType
BY DEF TypeOK, FrameType, HandlerType, SharedType

(* A request starts with no thread and no status.                          *)
LEMMA InitInv == Init => Inv
PROOF
  <1> SUFFICES ASSUME Init PROVE Inv
    OBVIOUS
  <1> USE DEF Init
  <1>1. FrameType
    BY BoundsAssumption DEF FrameType
  <1>2. HandlerType
    BY DEF HandlerType
  <1>3. SharedType
    BY DEF SharedType
  <1>4. StageInv /\ PhaseInv /\ LaunchIsAllowed
    BY DEF StageInv, PhaseInv, LaunchIsAllowed, None
  <1> QED BY <1>1, <1>2, <1>3, <1>4, TypeGroups DEF Inv

(* The client, the deserializer worker and the NIMs.                       *)
ThreadStep ==
  \/ \E k \in Kind : ClientSends(k)
  \/ ClientCloses \/ ClientCancels \/ WorkerStep \/ LipsyncResponds
  \/ \E n \in Nim : NimHealthy(n) \/ NimUnhealthy(n) \/ NimEnds(n) \/ NimRaises(n) \/ NimThreadStep(n)

(* The client, the deserializer worker and the NIMs keep the types.        *)
LEMMA ThreadsKeepType ==
  ASSUME TypeOK, ThreadStep
  PROVE  TypeOK'
PROOF
  <1> USE DEF TypeOK, clientVars, workerVars, handlerVars, nimVars, Enter
  <1>1. ASSUME NEW k \in Kind, ClientSends(k) PROVE TypeOK'
    BY <1>1 DEF ClientSends
  <1>2. CASE ClientCloses \/ ClientCancels
    BY <1>2 DEF ClientCloses, ClientCancels
  <1>3. CASE InboundEnds \/ OnComplete
    BY <1>3 DEF InboundEnds, OnComplete
  <1>4. CASE RouteOrStop
    <2>1. CASE stopEvent
      BY <1>4, <2>1 DEF RouteOrStop
    <2>2. CASE ~stopEvent
      BY <1>4, <2>2 DEF RouteOrStop, Kind
    <2> QED BY <2>1, <2>2
  <1>5. CASE LipsyncResponds
    BY <1>5, BoundsAssumption DEF LipsyncResponds
  <1>6. ASSUME NEW n \in Nim, NimHealthy(n) \/ NimEnds(n) PROVE TypeOK'
    BY <1>6 DEF NimHealthy, NimEnds
  <1>7. ASSUME NEW n \in Nim, NimUnhealthy(n) PROVE TypeOK'
    BY <1>7 DEF NimUnhealthy
  <1>8. ASSUME NEW n \in Nim, NimRaises(n) PROVE TypeOK'
    BY <1>8 DEF NimRaises
  <1>9. ASSUME NEW n \in Nim, NimAborts(n) PROVE TypeOK'
    BY <1>9 DEF NimAborts, Code, None
  <1>10. ASSUME NEW n \in Nim, NimFinally(n) PROVE TypeOK'
    BY <1>10 DEF NimFinally
  <1> QED
    BY <1>1, <1>2, <1>3, <1>4, <1>5, <1>6, <1>7, <1>8, <1>9, <1>10 DEF ThreadStep, WorkerStep, NimThreadStep

(* The handler keeps the types.                                            *)
LEMMA HandlerKeepsType ==
  ASSUME TypeOK, HandlerStep
  PROVE  TypeOK'
PROOF
  <1> USE DEF HandlerFrame, clientVars, workerVars, nimVars, At, Go, RaiseStatus
  <1>1. FrameType /\ HandlerType /\ SharedType
    BY TypeGroups
  <1>2. UNCHANGED <<clientVars, workerVars, failure, outDone, failed, produced>>
    <2> USE DEF ExtractControllerConfig, ExtractAsdConfig, ServiceUnhealthy, PreconditionFails,
              AsdConfigMissing, Launch, CheckForbidden, NextResponse, ResponsesEnd,
              YieldResponse, GeneratorExit, JoinDeserializer, Validate, StopDeserializer,
              JoinThreads, CloseServices, ServicerAborts, SendStatus
    <2> QED BY DEF HandlerStep
  <1>3. FrameType'
    BY <1>1, <1>2 DEF FrameType
  <1>4. HandlerType' /\ SharedType'
    <2> USE <1>1 DEF HandlerType, SharedType
    <2>1. CASE ExtractControllerConfig
      BY <2>1 DEF ExtractControllerConfig
    <2>2. CASE ExtractAsdConfig
      BY <2>2 DEF ExtractAsdConfig
    <2>3. CASE ServiceUnhealthy \/ PreconditionFails \/ AsdConfigMissing
      BY <2>3 DEF ServiceUnhealthy, PreconditionFails, AsdConfigMissing, Code
    <2>4. CASE Launch
      BY <2>4 DEF Launch
    <2>5. CASE CheckForbidden
      BY <2>5 DEF CheckForbidden, Code
    <2>6. CASE NextResponse
      BY <2>6 DEF NextResponse
    <2>7. CASE ResponsesEnd
      BY <2>7 DEF ResponsesEnd
    <2>8. CASE YieldResponse
      BY <2>8 DEF YieldResponse
    <2>9. CASE GeneratorExit
      BY <2>9 DEF GeneratorExit
    <2>10. CASE JoinDeserializer
      BY <2>10 DEF JoinDeserializer
    <2>11. CASE Validate
      BY <2>11 DEF Validate, Code
    <2>12. CASE StopDeserializer
      BY <2>12 DEF StopDeserializer
    <2>13. CASE JoinThreads
      BY <2>13 DEF JoinThreads
    <2>14. CASE CloseServices
      BY <2>14 DEF CloseServices
    <2>15. CASE ServicerAborts
      BY <2>15 DEF ServicerAborts
    <2>16. CASE SendStatus
      BY <2>16 DEF SendStatus, Code, None
    <2> QED BY <2>1, <2>2, <2>3, <2>4, <2>5, <2>6, <2>7, <2>8, <2>9, <2>10, <2>11, <2>12,
               <2>13, <2>14, <2>15, <2>16 DEF HandlerStep
  <1>5. (FrameType /\ HandlerType /\ SharedType)' <=> TypeOK'
    BY DEF TypeOK, FrameType, HandlerType, SharedType
  <1> QED BY <1>3, <1>4, <1>5

-----------------------------------------------------------------------------
(* What a handler step leaves alone: all of the NIM threads, except that   *)
(* Launch starts them while every one of them is idle.                     *)
LEMMA HandlerLeavesThreads ==
  ASSUME HandlerStep
  PROVE  /\ UNCHANGED <<configured, failure, outDone, failed>>
         /\ Launch \/ UNCHANGED nim
         /\ ServicerAborts \/ UNCHANGED code
         /\ handler # "done"
PROOF
  <1> USE DEF HandlerFrame, clientVars, workerVars, nimVars, At, ExtractControllerConfig,
          ExtractAsdConfig, ServiceUnhealthy, PreconditionFails, AsdConfigMissing, Launch,
          CheckForbidden, NextResponse, ResponsesEnd, YieldResponse, GeneratorExit,
          JoinDeserializer, Validate, StopDeserializer, JoinThreads, CloseServices,
          ServicerAborts, SendStatus
  <1> QED BY DEF HandlerStep

(* What the other threads leave alone: the handler's own variables, and a  *)
(* client thread only moves once it is launched.                           *)
LEMMA ThreadsLeaveHandler ==
  ASSUME TypeOK, ThreadStep
  PROVE  /\ UNCHANGED <<handlerVars, flags, configured>>
         /\ \A n \in Nim : (nim[n] = "idle") <=> (nim'[n] = "idle")
PROOF
  <1> USE DEF handlerVars, clientVars, TypeOK, Enter
  <1>1. ASSUME NEW k \in Kind, ClientSends(k)
        PROVE  UNCHANGED <<handlerVars, flags, configured, nim>>
    BY <1>1 DEF ClientSends, nimVars
  <1>2. CASE ClientCloses \/ ClientCancels \/ WorkerStep \/ LipsyncResponds
    BY <1>2 DEF ClientCloses, ClientCancels, WorkerStep, InboundEnds, RouteOrStop, OnComplete,
                LipsyncResponds, nimVars
  <1>3. ASSUME NEW n \in Nim,
               NimHealthy(n) \/ NimUnhealthy(n) \/ NimEnds(n) \/ NimRaises(n) \/ NimThreadStep(n)
        PROVE  /\ UNCHANGED <<handlerVars, flags, configured>>
               /\ nim[n] # "idle"
               /\ \E to \in {"stream", "abort", "finally", "exited"} : nim' = [nim EXCEPT ![n] = to]
    BY <1>3 DEF NimHealthy, NimUnhealthy, NimEnds, NimRaises, NimThreadStep, NimAborts, NimFinally
  <1> QED BY <1>1, <1>2, <1>3 DEF ThreadStep

(* A client thread that has exited does not run again.                     *)
LEMMA ExitIsFinal ==
  ASSUME TypeOK, ThreadStep, NEW m \in Nim, nim[m] = "exited"
  PROVE  nim'[m] = "exited"
PROOF
  <1> USE DEF clientVars, nimVars, TypeOK, Enter
  <1>1. CASE \/ \E k \in Kind : ClientSends(k)
             \/ ClientCloses \/ ClientCancels \/ WorkerStep \/ LipsyncResponds
    BY <1>1 DEF ClientSends, ClientCloses, ClientCancels, WorkerStep, InboundEnds, RouteOrStop,
                OnComplete, LipsyncResponds
  <1>2. ASSUME NEW n \in Nim,
               NimHealthy(n) \/ NimUnhealthy(n) \/ NimEnds(n) \/ NimRaises(n) \/ NimThreadStep(n)
        PROVE  nim'[m] = "exited"
    BY <1>2 DEF NimHealthy, NimUnhealthy, NimEnds, NimRaises, NimThreadStep, NimAborts, NimFinally
  <1> QED BY <1>1, <1>2 DEF ThreadStep

(* The code of a failing stage is stored before its buffer is done.        *)
LEMMA StageStep ==
  ASSUME Inv, ThreadStep \/ HandlerStep
  PROVE  StageInv'
PROOF
  <1> USE DEF Inv, StageInv
  <1>1. CASE HandlerStep
    <2>1. CASE Launch
      BY <2>1 DEF Launch, PhaseInv, At, None
    <2>2. CASE ServicerAborts
      BY <2>2 DEF ServicerAborts, PhaseInv, At, nimVars
    <2>3. CASE ~Launch /\ ~ServicerAborts
      BY <1>1, <2>3, HandlerLeavesThreads
    <2> QED BY <2>1, <2>2, <2>3
  <1>2. CASE ThreadStep
    <2> USE DEF TypeOK, Enter
    <2>1. ASSUME NEW k \in Kind, ClientSends(k) PROVE StageInv'
      BY <2>1 DEF ClientSends, nimVars
    <2>2. CASE ClientCloses \/ ClientCancels \/ WorkerStep \/ LipsyncResponds
      BY <2>2 DEF ClientCloses, ClientCancels, WorkerStep, InboundEnds, RouteOrStop, OnComplete,
                  LipsyncResponds, nimVars
    <2>3. ASSUME NEW n \in Nim, NimHealthy(n) \/ NimEnds(n) PROVE StageInv'
      BY <2>3 DEF NimHealthy, NimEnds
    <2>4. ASSUME NEW n \in Nim, NimUnhealthy(n) \/ NimRaises(n) PROVE StageInv'
      BY <2>4 DEF NimUnhealthy, NimRaises, None
    <2>5. ASSUME NEW n \in Nim, NimAborts(n) PROVE StageInv'
      BY <2>5 DEF NimAborts
    <2>6. ASSUME NEW n \in Nim, NimFinally(n) PROVE StageInv'
      BY <2>6 DEF NimFinally
    <2> QED BY <1>2, <2>1, <2>2, <2>3, <2>4, <2>5, <2>6 DEF ThreadStep, NimThreadStep
  <1> QED BY <1>1, <1>2

(* The handler goes through its places in the order of the code.           *)
LEMMA PhaseStep ==
  ASSUME Inv, ThreadStep \/ HandlerStep
  PROVE  PhaseInv'
PROOF
  <1> USE DEF Inv, PhaseInv
  <1>1. CASE ThreadStep
    BY <1>1, ThreadsLeaveHandler DEF handlerVars
  <1>2. CASE HandlerStep
    <2> USE DEF HandlerFrame, clientVars, workerVars, nimVars, At, Go, RaiseStatus
    <2>1. CASE ExtractControllerConfig \/ ExtractAsdConfig
      BY <2>1 DEF ExtractControllerConfig, ExtractAsdConfig, TypeOK
    <2>2. CASE ServiceUnhealthy \/ PreconditionFails \/ AsdConfigMissing
      BY <2>2 DEF ServiceUnhealthy, PreconditionFails, AsdConfigMissing
    <2>3. CASE Launch
      BY <2>3 DEF Launch
    <2>4. CASE CheckForbidden
      BY <2>4 DEF CheckForbidden
    <2>5. CASE NextResponse \/ ResponsesEnd \/ YieldResponse \/ GeneratorExit \/ JoinDeserializer
      BY <2>5 DEF NextResponse, ResponsesEnd, YieldResponse, GeneratorExit, JoinDeserializer
    <2>6. CASE Validate
      BY <2>6 DEF Validate
    <2>7. CASE StopDeserializer \/ JoinThreads \/ CloseServices \/ ServicerAborts \/ SendStatus
      BY <2>7 DEF StopDeserializer, JoinThreads, CloseServices, ServicerAborts, SendStatus, None
    <2> QED BY <1>2, <2>1, <2>2, <2>3, <2>4, <2>5, <2>6, <2>7 DEF HandlerStep
  <1> QED BY <1>1, <1>2

(* A stage is launched by the configuration it will keep.                  *)
LEMMA LaunchStep ==
  ASSUME Inv, ThreadStep \/ HandlerStep
  PROVE  LaunchIsAllowed'
PROOF
  <1> USE DEF Inv, LaunchIsAllowed
  <1>1. CASE ThreadStep
    BY <1>1, ThreadsLeaveHandler DEF handlerVars
  <1>2. CASE HandlerStep
    <2>1. CASE Launch
      BY <2>1 DEF Launch, Used, MissingService, PhaseInv, At, Nim, clientVars
    <2>2. CASE ExtractControllerConfig \/ ExtractAsdConfig
      <3>1. \A n \in Nim : nim'[n] = "idle"
        BY <2>2 DEF ExtractControllerConfig, ExtractAsdConfig, PhaseInv, At, HandlerFrame, nimVars
      <3> QED BY <3>1
    <2>3. CASE ~Launch /\ ~ExtractControllerConfig /\ ~ExtractAsdConfig
      <3>1. UNCHANGED <<configured, nim, config>>
        <4> USE DEF HandlerFrame, clientVars, nimVars, ServiceUnhealthy, PreconditionFails, AsdConfigMissing,
                CheckForbidden, NextResponse, ResponsesEnd, YieldResponse, GeneratorExit,
                JoinDeserializer, Validate, StopDeserializer, JoinThreads, CloseServices,
                ServicerAborts, SendStatus
        <4> QED BY <1>2, <2>3 DEF HandlerStep
      <3> QED BY <3>1
    <2> QED BY <2>1, <2>2, <2>3
  <1> QED BY <1>1, <1>2

(* Every step keeps the invariant.                                         *)
LEMMA InvStep == Inv /\ [Next]_vars => Inv'
PROOF
  <1> SUFFICES ASSUME Inv, [Next]_vars PROVE Inv'
    OBVIOUS
  <1>1. CASE ThreadStep \/ HandlerStep
    BY <1>1, ThreadsKeepType, HandlerKeepsType, StageStep, PhaseStep, LaunchStep DEF Inv
  <1>2. CASE UNCHANGED vars
    BY <1>2 DEF vars, clientVars, workerVars, handlerVars, nimVars, Inv, TypeOK, StageInv,
                PhaseInv, LaunchIsAllowed
  <1> QED BY <1>1, <1>2 DEF Next, ThreadStep, Finished

-----------------------------------------------------------------------------
(* The invariant holds in every state of every request.                    *)
THEOREM Invariance == Safety => []Inv
  <1> QED BY InitInv, InvStep, PTL DEF Safety

(* The variables keep their types.                                         *)
THEOREM TypeCorrect == Spec => []TypeOK
PROOF
  <1>1. Inv => TypeOK
    BY DEF Inv
  <1> QED BY <1>1, Invariance, PTL DEF Spec

(* A client thread only runs for a stage that the service has and that the *)
(* request does not bypass, and ASD only with its config.                  *)
THEOREM LaunchesAreAllowed == Spec => []LaunchIsAllowed
PROOF
  <1>1. Inv => LaunchIsAllowed
    BY DEF Inv
  <1> QED BY <1>1, Invariance, PTL DEF Spec

(* OK is never sent for a request with a stage that failed and whose end   *)
(* the next stage could take for the end of its input.                     *)
THEOREM OkMeansSuccess == Spec => OkMeansStagesSucceeded
PROOF
  <1> DEFINE Honest == status = None /\ status' = "OK" => \A n \in Nim : outDone[n] => n \notin failed
  <1>1. Inv /\ [Next]_vars => Honest
    <2> SUFFICES ASSUME Inv, [Next]_vars, status = None, status' = "OK",
                        NEW n \in Nim, outDone[n]
                 PROVE  n \notin failed
      OBVIOUS
    <2>1. SendStatus
      <3>1. status' # status
        BY DEF None
      <3>2. ~ThreadStep
        BY <3>1, ThreadsLeaveHandler DEF Inv, handlerVars
      <3>3. HandlerStep
        BY <3>1, <3>2 DEF Next, ThreadStep, Finished, vars, handlerVars
      <3> USE DEF ExtractControllerConfig, ExtractAsdConfig, ServiceUnhealthy, PreconditionFails,
              AsdConfigMissing, Launch, CheckForbidden, NextResponse, ResponsesEnd, YieldResponse,
              GeneratorExit, JoinDeserializer, Validate, StopDeserializer, JoinThreads,
              CloseServices, ServicerAborts
      <3> QED BY <3>1, <3>3 DEF HandlerStep
    <2>2. code = None
      BY <2>1 DEF SendStatus, Inv, TypeOK, Code, None
    <2> QED BY <2>2 DEF Inv, StageInv
  <1>2. Inv /\ [Next]_vars => [Honest]_vars
    BY <1>1
  <1>3. Spec => [][Honest]_vars
    BY <1>2, Invariance, PTL DEF Safety, Spec
  <1> QED BY <1>3 DEF OkMeansStagesSucceeded

-----------------------------------------------------------------------------
Late == {"close", "abort", "finish", "done"}
Leaving == {"stop", "joinThreads"} \cup Late

(* The response that the handler has taken and not yet yielded.            *)
InHand == IF handler \in {"check", "yield"} THEN 1 ELSE 0

(* A handler that leaves without an error and was not cancelled has seen   *)
(* the end of the stage and an empty buffer.                               *)
FlowInv ==
  /\ yielded + outQueue + InHand <= produced
  /\ handler \notin Leaving => yielded + outQueue + InHand = produced
  /\ (\/ handler \in {"join", "validate"}
      \/ handler \in Leaving /\ raised = None /\ client # "cancelled")
     => nim["lipsync"] = "exited" /\ outQueue = 0 /\ yielded = produced
  /\ handler \in {"finish", "done"} /\ raised # None => code # None
  /\ status = "OK" => raised = None /\ client # "cancelled"

(* A request starts without responses.                                     *)
LEMMA FlowInit == Init => FlowInv
BY DEF Init, FlowInv, InHand, Late, Leaving, None

(* A cancelled call stays cancelled, and a call that is over is not        *)
(* cancelled any more.                                                     *)
LEMMA ClientStep ==
  ASSUME ThreadStep
  PROVE  /\ client = "cancelled" => client' = "cancelled"
         /\ status # None /\ client # "cancelled" => client' # "cancelled"
PROOF
  <1> USE DEF clientVars, workerVars, ClientSends, ClientCloses, ClientCancels, WorkerStep,
          InboundEnds, RouteOrStop, OnComplete, LipsyncResponds, NimHealthy, NimUnhealthy,
          NimEnds, NimRaises, NimThreadStep, NimAborts, NimFinally
  <1> QED BY DEF ThreadStep

(* Responses go from the NIM through the buffer to the client.             *)
LEMMA FlowStep ==
  ASSUME Inv, FlowInv, ThreadStep \/ HandlerStep
  PROVE  FlowInv'
PROOF
  <1> USE DEF FlowInv, InHand
  <1>1. CASE ThreadStep
    <2>1. UNCHANGED <<handler, raised, status, yielded>>
      BY <1>1, ThreadsLeaveHandler DEF handlerVars, Inv
    <2>2. \/ UNCHANGED <<produced, outQueue>>
          \/ /\ nim["lipsync"] = "stream"
             /\ produced' = produced + 1 /\ outQueue' = outQueue + 1
      <3> USE DEF nimVars, ClientSends, ClientCloses, ClientCancels, WorkerStep,
              InboundEnds, RouteOrStop, OnComplete, LipsyncResponds, NimHealthy, NimUnhealthy,
              NimEnds, NimRaises, NimThreadStep, NimAborts, NimFinally
      <3> QED BY <1>1 DEF ThreadStep
    <2>3. code # None => code' # None
      <3> USE DEF ClientSends, ClientCloses, ClientCancels, WorkerStep,
              InboundEnds, RouteOrStop, OnComplete, LipsyncResponds, NimHealthy, NimUnhealthy,
              NimEnds, NimRaises, NimThreadStep, NimAborts, NimFinally, Inv, StageInv
      <3> QED BY <1>1 DEF ThreadStep
    <2>4. nim["lipsync"] = "exited" => nim'["lipsync"] = "exited"
      BY <1>1, ExitIsFinal DEF Inv, Nim
    <2>5. produced \in Nat /\ outQueue \in Nat /\ yielded \in Nat
      BY BoundsAssumption DEF Inv, TypeOK
    <2>6. /\ client = "cancelled" => client' = "cancelled"
          /\ status # None /\ client # "cancelled" => client' # "cancelled"
      BY <1>1, ClientStep
    <2> QED BY <2>1, <2>2, <2>3, <2>4, <2>5, <2>6 DEF None
  <1>2. CASE HandlerStep
    <2>1. produced \in Nat /\ outQueue \in Nat /\ yielded \in Nat
      BY BoundsAssumption DEF Inv, TypeOK
    <2> USE <2>1 DEF HandlerFrame, clientVars, nimVars, At, Go, RaiseStatus, Late, Leaving, Inv, PhaseInv
    <2>2. CASE \/ ExtractControllerConfig \/ ExtractAsdConfig \/ ServiceUnhealthy
               \/ PreconditionFails \/ AsdConfigMissing
      BY <2>2 DEF ExtractControllerConfig, ExtractAsdConfig, ServiceUnhealthy, PreconditionFails,
                  AsdConfigMissing, None
    <2>3. CASE Launch
      BY <2>3 DEF Launch, None
    <2>4. CASE CheckForbidden
      BY <2>4 DEF CheckForbidden, None
    <2>5. CASE NextResponse
      BY <2>5 DEF NextResponse, None
    <2>6. CASE ResponsesEnd
      BY <2>6 DEF ResponsesEnd, StageInv, Nim, None
    <2>7. CASE YieldResponse
      BY <2>7 DEF YieldResponse, None
    <2>8. CASE GeneratorExit
      BY <2>8 DEF GeneratorExit, None
    <2>9. CASE JoinDeserializer
      BY <2>9 DEF JoinDeserializer, None
    <2>10. CASE Validate
      BY <2>10 DEF Validate, None
    <2>11. CASE StopDeserializer \/ JoinThreads \/ CloseServices
      BY <2>11 DEF StopDeserializer, JoinThreads, CloseServices
    <2>12. CASE ServicerAborts
      BY <2>12 DEF ServicerAborts
    <2>13. CASE SendStatus
      <3>1. status' = "OK" => client # "cancelled" /\ code \in {None, "OK"}
        BY <2>13 DEF SendStatus
      <3>2. code # "OK"
        BY DEF TypeOK, None
      <3>3. status' = "OK" => raised = None
        BY <2>13, <3>1, <3>2 DEF SendStatus
      <3> QED BY <2>13, <3>1, <3>3 DEF SendStatus
    <2> QED BY <1>2, <2>2, <2>3, <2>4, <2>5, <2>6, <2>7, <2>8, <2>9, <2>10, <2>11, <2>12, <2>13
            DEF HandlerStep
  <1> QED BY <1>1, <1>2

(* An OK call has delivered every response of the LipSync NIM, although    *)
(* the joins of the handler may give up.                                   *)
THEOREM OkIsComplete == Spec => []OkMeansComplete
PROOF
  <1>1. Inv /\ FlowInv /\ [Next]_vars => FlowInv'
    <2> SUFFICES ASSUME Inv, FlowInv, [Next]_vars PROVE FlowInv'
      OBVIOUS
    <2>1. CASE ThreadStep \/ HandlerStep
      BY <2>1, FlowStep
    <2>2. CASE UNCHANGED vars
      BY <2>2 DEF vars, clientVars, handlerVars, nimVars, FlowInv, InHand
    <2> QED BY <2>1, <2>2 DEF Next, ThreadStep, Finished
  <1>2. Inv /\ FlowInv => OkMeansComplete
    <2> SUFFICES ASSUME Inv, FlowInv PROVE OkMeansComplete
      OBVIOUS
    <2>1. produced \in Nat /\ outQueue \in Nat /\ yielded \in Nat
      BY BoundsAssumption DEF Inv, TypeOK
    <2>2. yielded + outQueue <= produced
      BY <2>1 DEF FlowInv, InHand
    <2>3. status = "OK" => yielded = produced
      BY DEF FlowInv, Inv, PhaseInv, Late, Leaving, None
    <2> QED BY <2>2, <2>3 DEF OkMeansComplete
  <1> QED BY <1>1, <1>2, InitInv, FlowInit, InvStep, PTL DEF Safety, Spec

-----------------------------------------------------------------------------
(* Once a forbidden chunk was routed behind response n, only a response    *)
(* that has passed its check already is still to be yielded.               *)
LastIsUnderWay(n) ==
  /\ Forbidden
  /\ handler # "controllerConfig"
  /\ IF handler = "yield" THEN yielded <= n ELSE yielded <= n + 1

(* What the bypass of S2S depends on is settled with the first config.     *)
LEMMA ForbiddenIsStable ==
  ASSUME Inv, Forbidden, handler # "controllerConfig", ThreadStep \/ HandlerStep
  PROVE  Forbidden' /\ handler' # "controllerConfig"
PROOF
  <1>0. "translated" \in Kind /\ putCount["translated"] \in Nat
    BY DEF Inv, TypeOK, Kind
  <1>1. CASE ThreadStep
    <2>1. UNCHANGED <<handler, config>>
      BY <1>1, ThreadsLeaveHandler DEF Inv, handlerVars
    <2>2. CASE RouteOrStop
      <3>1. \/ putCount' = putCount
            \/ putCount' = [putCount EXCEPT ![inbound] = @ + 1]
        BY <2>2 DEF RouteOrStop
      <3>2. putCount'["translated"] \in {putCount["translated"], putCount["translated"] + 1}
        BY <3>1 DEF Inv, TypeOK, Kind
      <3> QED BY <1>0, <2>1, <3>2 DEF Forbidden
    <2>3. CASE ~RouteOrStop
      <3>1. putCount' = putCount
        <4> USE DEF workerVars, ClientSends, ClientCloses, ClientCancels, WorkerStep, InboundEnds,
                OnComplete, LipsyncResponds, NimHealthy, NimUnhealthy, NimEnds, NimRaises,
                NimThreadStep, NimAborts, NimFinally
        <4> QED BY <1>1, <2>3 DEF ThreadStep
      <3> QED BY <2>1, <3>1 DEF Forbidden
    <2> QED BY <2>2, <2>3
  <1>2. CASE HandlerStep
    <2> USE DEF HandlerFrame, workerVars, At, Go, RaiseStatus, Forbidden
    <2>1. CASE \/ ExtractControllerConfig \/ ServiceUnhealthy \/ PreconditionFails
               \/ AsdConfigMissing \/ Launch
      BY <2>1 DEF ExtractControllerConfig, ServiceUnhealthy, PreconditionFails, AsdConfigMissing,
                  Launch
    <2>2. CASE ExtractAsdConfig
      BY <2>2 DEF ExtractAsdConfig, Inv, TypeOK
    <2>3. CASE \/ CheckForbidden \/ NextResponse \/ ResponsesEnd \/ YieldResponse \/ GeneratorExit
               \/ JoinDeserializer \/ Validate
      BY <2>3 DEF CheckForbidden, NextResponse, ResponsesEnd, YieldResponse, GeneratorExit,
                  JoinDeserializer, Validate
    <2>4. CASE StopDeserializer \/ JoinThreads \/ CloseServices \/ ServicerAborts \/ SendStatus
      BY <2>4 DEF StopDeserializer, JoinThreads, CloseServices, ServicerAborts, SendStatus
    <2> QED BY <1>2, <2>1, <2>2, <2>3, <2>4 DEF HandlerStep
  <1> QED BY <1>1, <1>2

(* A response is yielded only by the step that follows its check, and the  *)
(* check of a later one raises.                                            *)
LEMMA UnderWayStep ==
  ASSUME Inv, NEW n \in Nat, LastIsUnderWay(n), ThreadStep \/ HandlerStep
  PROVE  LastIsUnderWay(n)'
PROOF
  <1> USE DEF LastIsUnderWay
  <1>0. yielded \in Nat
    BY DEF Inv, TypeOK
  <1>1. Forbidden' /\ handler' # "controllerConfig"
    BY ForbiddenIsStable
  <1>2. CASE ThreadStep
    BY <1>1, <1>2, ThreadsLeaveHandler DEF Inv, handlerVars
  <1>3. CASE YieldResponse
    BY <1>0, <1>1, <1>3 DEF YieldResponse, At, Go
  <1>4. CASE HandlerStep /\ ~YieldResponse
    <2> USE DEF At, Go, RaiseStatus, ExtractControllerConfig, ExtractAsdConfig, ServiceUnhealthy,
            PreconditionFails, AsdConfigMissing, Launch, CheckForbidden, NextResponse,
            ResponsesEnd, GeneratorExit, JoinDeserializer, Validate, StopDeserializer,
            JoinThreads, CloseServices, ServicerAborts, SendStatus
    <2>1. yielded' = yielded /\ handler' # "yield"
      BY <1>4 DEF HandlerStep
    <2> QED BY <1>0, <1>1, <2>1
  <1> QED BY <1>2, <1>3, <1>4

(* After a forbidden chunk was routed at most one response is yielded,     *)
(* whatever the other threads do and however long they take.               *)
THEOREM ForbiddenEndsOutput == Spec => AtMostOneMore
PROOF
  <1> SUFFICES ASSUME NEW n \in 0 .. MaxResponses
               PROVE  Spec => [](Forbidden /\ handler # "controllerConfig" /\ yielded = n
                                 => [](yielded <= n + 1))
    BY DEF AtMostOneMore
  <1>0. n \in Nat
    BY BoundsAssumption
  <1>1. Forbidden /\ handler # "controllerConfig" /\ yielded = n => LastIsUnderWay(n)
    BY <1>0 DEF LastIsUnderWay
  <1>2. Inv /\ LastIsUnderWay(n) /\ [Next]_vars => LastIsUnderWay(n)'
    <2> SUFFICES ASSUME Inv, LastIsUnderWay(n), [Next]_vars PROVE LastIsUnderWay(n)'
      OBVIOUS
    <2>1. CASE ThreadStep \/ HandlerStep
      BY <1>0, <2>1, UnderWayStep
    <2>2. CASE UNCHANGED vars
      BY <2>2 DEF vars, workerVars, handlerVars, LastIsUnderWay, Forbidden
    <2> QED BY <2>1, <2>2 DEF Next, ThreadStep, Finished
  <1>3. Inv /\ LastIsUnderWay(n) => yielded <= n + 1
    BY <1>0 DEF LastIsUnderWay, Inv, TypeOK
  <1> QED BY <1>1, <1>2, <1>3, Invariance, PTL DEF Spec, Safety

=============================================================================
