-------------------------- MODULE ControllerRequest --------------------------
(***************************************************************************)
(* One StreamContentLocalization call, from the first inbound message to   *)
(* the status the client receives.  The threads that run in it are         *)
(*   - the handler thread: ControllerServiceServicer, ControllerService    *)
(*     .infer and _controller_impl, and the generator that yields the      *)
(*     responses (src/controller_service/servicer.py, service.py,          *)
(*     pipeline.py);                                                       *)
(*   - the deserializer worker (src/controller_service/deserializer.py);   *)
(*   - one client thread per downstream NIM: S2S, ASD and LipSync          *)
(*     (src/common/clients.py, src/common/nims.py).                        *)
(* The gRPC runtime, the client and the NIMs are external.                 *)
(*                                                                         *)
(* Buffers are reduced to the counters that the handler reads: how their   *)
(* queues deliver is the subject of Deserializer and FeederStream.         *)
(***************************************************************************)
EXTENDS Naturals, FiniteSets

CONSTANTS Deployments,     \* the sets of optional NIMs a service may be started with
          MaxTranslated,   \* bound on translated_audio_data chunks
          MaxResponses,    \* bound on the responses of the LipSync NIM
          EarlyEnd         \* whether a NIM may end its stream before its input ends

ASSUME DeploymentsAssumption == Deployments \subseteq SUBSET {"s2s", "asd"}
ASSUME BoundsAssumption == MaxTranslated \in Nat /\ MaxResponses \in Nat
ASSUME EnvironmentAssumption == EarlyEnd \in BOOLEAN

Nim  == {"s2s", "asd", "lipsync"}
Kind == {"controller_config", "asd_config", "translated"}
Code == {"OK", "INVALID_ARGUMENT", "FAILED_PRECONDITION", "UNAVAILABLE", "INTERNAL"}
None == "none"

VARIABLES
  configured,   \* the optional NIMs this service has, for its lifetime
  flags,        \* what the client puts in its controller_config
  client,       \* the inbound stream: "open", "closed" (half-closed), "cancelled"
  sent,         \* how many messages of each kind the client has sent
  inbound,      \* the message in the hands of the worker, or None
  worker,       \* the deserializer thread
  stopEvent,    \* its stop event
  putCount,     \* put_count of the buffers of each kind
  handler,      \* where the handler thread is
  config,       \* the _PipelineConfig in force
  raised,       \* the status of the exception that unwinds the handler, or None
  nim,          \* where each NIM client thread is
  failure,      \* the status the client thread is about to abort with
  outDone,      \* done of each NIM's output buffer
  failed,       \* history: NIMs that failed while their channel was open
  produced,     \* history: responses the LipSync NIM has sent
  outQueue,     \* responses waiting in lipsync_output_buffer
  channelsOpen, \* the per-request NIM channels
  yielded,      \* responses handed to gRPC
  code,         \* the code stored in the gRPC context by abort()
  status        \* the status sent to the client, or None

clientVars  == <<configured, flags, client, sent>>
workerVars  == <<inbound, worker, putCount>>
handlerVars == <<handler, config, raised, channelsOpen, yielded, status, stopEvent>>
nimVars     == <<nim, failure, outDone, failed, produced>>
vars == <<clientVars, workerVars, handlerVars, nimVars, outQueue, code>>

Init ==
  /\ configured \in Deployments
  /\ flags \in [bypassS2s : BOOLEAN, bypassAsd : BOOLEAN]
  /\ client = "open"
  /\ sent = [k \in Kind |-> 0]
  /\ inbound = None
  /\ worker = "read"
  /\ stopEvent = FALSE
  /\ putCount = [k \in Kind |-> 0]
  /\ handler = "controllerConfig"
  /\ config = [bypassS2s |-> FALSE, bypassAsd |-> FALSE, asdActive |-> FALSE, asdConfig |-> FALSE]
  /\ raised = None
  /\ nim = [n \in Nim |-> "idle"]
  /\ failure = [n \in Nim |-> None]
  /\ outDone = [n \in Nim |-> FALSE]
  /\ failed = {}
  /\ produced = 0
  /\ outQueue = 0
  /\ channelsOpen = TRUE
  /\ yielded = 0
  /\ code = None
  /\ status = None

-----------------------------------------------------------------------------
(* The client (external): configs once each, translated audio in chunks.   *)

Limit(kind) == IF kind = "translated" THEN MaxTranslated ELSE 1

(* The worker pulls the next message of the inbound stream.                *)
ClientSends(kind) ==
  /\ client = "open"
  /\ worker = "read"
  /\ status = None
  /\ sent[kind] < Limit(kind)
  /\ sent' = [sent EXCEPT ![kind] = @ + 1]
  /\ inbound' = kind
  /\ worker' = "check"
  /\ UNCHANGED <<configured, flags, client, putCount, handlerVars, nimVars, outQueue, code>>

ClientCloses ==
  /\ client = "open"
  /\ client' = "closed"
  /\ UNCHANGED <<configured, flags, sent, workerVars, handlerVars, nimVars, outQueue, code>>

ClientCancels ==
  /\ client # "cancelled"
  /\ status = None
  /\ client' = "cancelled"
  /\ UNCHANGED <<configured, flags, sent, workerVars, handlerVars, nimVars, outQueue, code>>

-----------------------------------------------------------------------------
(* The deserializer worker.                                                *)

(* The request iterator ends when the client half-closes, and raises when  *)
(* the call is cancelled or has terminated; the worker completes in both.  *)
InboundEnds ==
  /\ worker = "read"
  /\ client # "open" \/ status # None
  /\ worker' = "complete"
  /\ UNCHANGED <<clientVars, inbound, putCount, handlerVars, nimVars, outQueue, code>>

RouteOrStop ==
  /\ worker = "check"
  /\ inbound' = None
  /\ IF stopEvent
       THEN /\ worker' = "complete"
            /\ UNCHANGED putCount
       ELSE /\ worker' = "read"
            /\ putCount' = [putCount EXCEPT ![inbound] = @ + 1]
  /\ UNCHANGED <<clientVars, handlerVars, nimVars, outQueue, code>>

(* _on_complete marks the nine buffers done.                               *)
OnComplete ==
  /\ worker = "complete"
  /\ worker' = "exited"
  /\ UNCHANGED <<clientVars, inbound, putCount, handlerVars, nimVars, outQueue, code>>

WorkerStep == InboundEnds \/ RouteOrStop \/ OnComplete

-----------------------------------------------------------------------------
(* The NIM client threads: Client.__call__ around _impl.                   *)

Enter(n, state) == nim' = [nim EXCEPT ![n] = state]

(* The stage's request iterator has nothing more to send.                  *)
InputEnded(n) ==
  /\ worker = "exited"
  /\ n = "lipsync" => /\ ~config.bypassS2s => outDone["s2s"]
                      /\ config.asdActive => outDone["asd"]

NimHealthy(n) ==
  /\ nim[n] = "health"
  /\ Enter(n, "stream")
  /\ UNCHANGED <<clientVars, workerVars, handlerVars, failure, outDone, failed, produced, outQueue, code>>

(* The health probe raises ConnectionError.                                *)
NimUnhealthy(n) ==
  /\ nim[n] = "health"
  /\ Enter(n, "abort")
  /\ failure' = [failure EXCEPT ![n] = "UNAVAILABLE"]
  /\ failed' = failed \cup {n}
  /\ UNCHANGED <<clientVars, workerVars, handlerVars, outDone, produced, outQueue, code>>

(* A response of the LipSync NIM, a keepalive or video, enters its buffer. *)
LipsyncResponds ==
  /\ nim["lipsync"] = "stream"
  /\ channelsOpen
  /\ produced < MaxResponses
  /\ produced' = produced + 1
  /\ outQueue' = outQueue + 1
  /\ UNCHANGED <<clientVars, workerVars, handlerVars, nim, failure, outDone, failed, code>>

NimEnds(n) ==
  /\ nim[n] = "stream"
  /\ channelsOpen
  /\ EarlyEnd \/ InputEnded(n)
  /\ Enter(n, "finally")
  /\ UNCHANGED <<clientVars, workerVars, handlerVars, failure, outDone, failed, produced, outQueue, code>>

(* Fault: the output buffer is marked done before the error is reported.   *)
NimRaisesAfterDone(n) ==
  /\ nim[n] = "stream"
  /\ Enter(n, "abort")
  /\ failure' = [failure EXCEPT ![n] = "INTERNAL"]
  /\ failed' = IF channelsOpen THEN failed \cup {n} ELSE failed
  /\ outDone' = [outDone EXCEPT ![n] = TRUE]
  /\ UNCHANGED <<clientVars, workerVars, handlerVars, produced, outQueue, code>>

(* The response iterator raises: the NIM failed, or the channel was closed *)
(* under the call.                                                         *)
NimRaises(n) ==
  /\ nim[n] = "stream"
  /\ Enter(n, "abort")
  /\ failure' = [failure EXCEPT ![n] = "INTERNAL"]
  /\ failed' = IF channelsOpen THEN failed \cup {n} ELSE failed
  /\ UNCHANGED <<clientVars, workerVars, handlerVars, outDone, produced, outQueue, code>>

(* context.abort stores its code over an earlier one and raises, which     *)
(* ends this thread through the finally clause.                            *)
NimAborts(n) ==
  /\ nim[n] = "abort"
  /\ code' = failure[n]
  /\ Enter(n, "finally")
  /\ UNCHANGED <<clientVars, workerVars, handlerVars, failure, outDone, failed, produced, outQueue>>

(* Fault: done is only set when the stream ends normally.                  *)
DoneOnSuccessOnly(n) ==
  /\ nim[n] = "finally"
  /\ Enter(n, "exited")
  /\ outDone' = [outDone EXCEPT ![n] = failure[n] = None]
  /\ UNCHANGED <<clientVars, workerVars, handlerVars, failure, failed, produced, outQueue, code>>

NimFinally(n) ==
  /\ nim[n] = "finally"
  /\ Enter(n, "exited")
  /\ outDone' = [outDone EXCEPT ![n] = TRUE]
  /\ UNCHANGED <<clientVars, workerVars, handlerVars, failure, failed, produced, outQueue, code>>

(* What the thread does by itself, and what it does once its channel is    *)
(* closed; the answers of a NIM on an open channel are not its doing.      *)
NimThreadStep(n) == NimAborts(n) \/ NimFinally(n)
NimCancelled(n)  == ~channelsOpen /\ NimRaises(n)

-----------------------------------------------------------------------------
(* The handler thread, in the order of _controller_impl.                   *)

HandlerFrame == <<clientVars, workerVars, nimVars, outQueue, code>>

At(state) == handler = state
Go(state) == handler' = state

(* An exception leaves the try block of _controller_impl; its finally      *)
(* clause starts with the deserializer's stop().                           *)
RaiseStatus(statusCode) ==
  /\ raised' = statusCode
  /\ Go("stop")

(* _extract_config: the config if one arrives within CONFIG_POLL_TIMEOUT,  *)
(* otherwise None.                                                         *)
ExtractControllerConfig ==
  /\ At("controllerConfig")
  /\ LET found == putCount["controller_config"] > 0
         s2s == found /\ flags.bypassS2s
         asd == found /\ flags.bypassAsd
     IN config' = [bypassS2s |-> s2s, bypassAsd |-> asd,
                   asdActive |-> ~asd /\ "asd" \in configured, asdConfig |-> FALSE]
  /\ Go("asdConfig")
  /\ UNCHANGED <<HandlerFrame, raised, channelsOpen, yielded, status, stopEvent>>

ExtractAsdConfig ==
  /\ At("asdConfig")
  /\ config' = [config EXCEPT !.asdConfig = config.asdActive /\ putCount["asd_config"] > 0]
  /\ Go("health")
  /\ UNCHANGED <<HandlerFrame, raised, channelsOpen, yielded, status, stopEvent>>

(* _check_services_health: a probe may fail at any time.                   *)
ServiceUnhealthy ==
  /\ At("health")
  /\ RaiseStatus("UNAVAILABLE")
  /\ UNCHANGED <<HandlerFrame, config, channelsOpen, yielded, status, stopEvent>>

MissingService ==
  \/ ~config.bypassS2s /\ "s2s" \notin configured
  \/ ~config.bypassAsd /\ "asd" \notin configured

PreconditionFails ==
  /\ At("health")
  /\ MissingService
  /\ RaiseStatus("FAILED_PRECONDITION")
  /\ UNCHANGED <<HandlerFrame, config, channelsOpen, yielded, status, stopEvent>>

AsdConfigMissing ==
  /\ At("health")
  /\ ~MissingService
  /\ config.asdActive /\ ~config.asdConfig
  /\ RaiseStatus("INVALID_ARGUMENT")
  /\ UNCHANGED <<HandlerFrame, config, channelsOpen, yielded, status, stopEvent>>

(* The stages this request uses get a client thread; the others a drain.   *)
Used(n) ==
  \/ n = "lipsync"
  \/ n = "s2s" /\ ~config.bypassS2s
  \/ n = "asd" /\ config.asdActive

Launch ==
  /\ At("health")
  /\ ~MissingService
  /\ config.asdActive => config.asdConfig
  /\ nim' = [n \in Nim |-> IF Used(n) THEN "health" ELSE "idle"]
  /\ Go("firstCheck")
  /\ UNCHANGED <<clientVars, workerVars, outQueue, code, failure, outDone, failed, produced,
                 config, raised, channelsOpen, yielded, status, stopEvent>>

-----------------------------------------------------------------------------
(* _yield_responses.                                                       *)

Forbidden == ~config.bypassS2s /\ putCount["translated"] > 0

(* Fault: the check is made once, before the loop.                         *)
CheckForbiddenOnce ==
  /\ handler \in {"firstCheck", "check"}
  /\ IF Forbidden /\ At("firstCheck")
       THEN RaiseStatus("INVALID_ARGUMENT")
       ELSE /\ Go(IF At("check") THEN "yield" ELSE "next")
            /\ UNCHANGED raised
  /\ UNCHANGED <<HandlerFrame, config, channelsOpen, yielded, status, stopEvent>>

(* _raise_if_forbidden_translated_audio, before the loop and before every  *)
(* yield.                                                                  *)
CheckForbidden ==
  /\ handler \in {"firstCheck", "check"}
  /\ IF Forbidden
       THEN RaiseStatus("INVALID_ARGUMENT")
       ELSE /\ Go(IF At("check") THEN "yield" ELSE "next")
            /\ UNCHANGED raised
  /\ UNCHANGED <<HandlerFrame, config, channelsOpen, yielded, status, stopEvent>>

NextResponse ==
  /\ At("next")
  /\ outQueue > 0
  /\ outQueue' = outQueue - 1
  /\ Go("check")
  /\ UNCHANGED <<clientVars, workerVars, nimVars, code, config, raised, channelsOpen, yielded, status, stopEvent>>

(* Fault: the loop ends when the buffer is done, empty or not.             *)
ResponsesDone ==
  /\ At("next")
  /\ outDone["lipsync"]
  /\ Go("join")
  /\ UNCHANGED <<HandlerFrame, config, raised, channelsOpen, yielded, status, stopEvent>>

ResponsesEnd ==
  /\ At("next")
  /\ outDone["lipsync"] /\ outQueue = 0
  /\ Go("join")
  /\ UNCHANGED <<HandlerFrame, config, raised, channelsOpen, yielded, status, stopEvent>>

YieldResponse ==
  /\ At("yield")
  /\ client # "cancelled"
  /\ yielded' = yielded + 1
  /\ Go("next")
  /\ UNCHANGED <<HandlerFrame, config, raised, channelsOpen, status, stopEvent>>

(* The call was cancelled: gRPC drops the generator at its yield.          *)
GeneratorExit ==
  /\ At("yield")
  /\ client = "cancelled"
  /\ Go("stop")
  /\ UNCHANGED <<HandlerFrame, config, raised, channelsOpen, yielded, status, stopEvent>>

-----------------------------------------------------------------------------
(* _validate_translated_audio_usage.                                       *)

(* The deserializer is joined for CONTROLLER_CLEANUP_TIMEOUT: the join     *)
(* returns whether or not the thread has ended, and nobody looks which.    *)
JoinDeserializer ==
  /\ At("join")
  /\ Go("validate")
  /\ UNCHANGED <<HandlerFrame, config, raised, channelsOpen, yielded, status, stopEvent>>

Validate ==
  /\ At("validate")
  /\ IF Forbidden \/ (config.bypassS2s /\ putCount["translated"] = 0)
       THEN RaiseStatus("INVALID_ARGUMENT")
       ELSE Go("stop") /\ UNCHANGED raised
  /\ UNCHANGED <<HandlerFrame, config, channelsOpen, yielded, status, stopEvent>>

-----------------------------------------------------------------------------
(* _cleanup_threads, services.close(), the servicer's abort, the status.   *)

StopDeserializer ==
  /\ At("stop")
  /\ stopEvent' = TRUE
  /\ Go("joinThreads")
  /\ UNCHANGED <<HandlerFrame, config, raised, channelsOpen, yielded, status>>

ThreadsEnded == worker = "exited" /\ \A n \in Nim : nim[n] \in {"idle", "exited"}

(* Each join of _cleanup_threads returns after its timeout at the latest;  *)
(* a thread that is still alive is only logged.                            *)
JoinThreads ==
  /\ At("joinThreads")
  /\ Go("close")
  /\ UNCHANGED <<HandlerFrame, config, raised, channelsOpen, yielded, status, stopEvent>>

(* Fault: the channels are left to the garbage collector.                  *)
CloseNothing ==
  /\ At("close")
  /\ Go(IF raised = None THEN "finish" ELSE "abort")
  /\ UNCHANGED <<HandlerFrame, config, raised, channelsOpen, yielded, status, stopEvent>>

CloseServices ==
  /\ At("close")
  /\ channelsOpen' = FALSE
  /\ Go(IF raised = None THEN "finish" ELSE "abort")
  /\ UNCHANGED <<HandlerFrame, config, raised, yielded, status, stopEvent>>

(* context.abort in the servicer: the last thread to store a code wins.    *)
ServicerAborts ==
  /\ At("abort")
  /\ code' = raised
  /\ Go("finish")
  /\ UNCHANGED <<clientVars, workerVars, nimVars, outQueue, config, raised, channelsOpen, yielded, status, stopEvent>>

(* gRPC (external) sends the stored code, or OK if there is none.          *)
SendStatus ==
  /\ At("finish")
  /\ status' = IF client = "cancelled" THEN "CANCELLED"
               ELSE IF code = None THEN "OK" ELSE code
  /\ Go("done")
  /\ UNCHANGED <<HandlerFrame, config, raised, channelsOpen, yielded, stopEvent>>

HandlerStep ==
  \/ ExtractControllerConfig
  \/ ExtractAsdConfig
  \/ ServiceUnhealthy
  \/ PreconditionFails
  \/ AsdConfigMissing
  \/ Launch
  \/ CheckForbidden
  \/ NextResponse
  \/ ResponsesEnd
  \/ YieldResponse
  \/ GeneratorExit
  \/ JoinDeserializer
  \/ Validate
  \/ StopDeserializer
  \/ JoinThreads
  \/ CloseServices
  \/ ServicerAborts
  \/ SendStatus

Finished ==
  /\ At("done")
  /\ ThreadsEnded
  /\ UNCHANGED vars

Next ==
  \/ \E k \in Kind : ClientSends(k)
  \/ ClientCloses
  \/ ClientCancels
  \/ WorkerStep
  \/ \E n \in Nim : NimHealthy(n) \/ NimUnhealthy(n) \/ NimEnds(n) \/ NimRaises(n) \/ NimThreadStep(n)
  \/ LipsyncResponds
  \/ HandlerStep
  \/ Finished

(* Threads are scheduled; gRPC ends the inbound iterator of a call that is *)
(* over, cancels the calls on a closed channel, and probes have a timeout. *)
Fairness ==
  /\ WF_vars(WorkerStep)
  /\ WF_vars(HandlerStep)
  /\ \A n \in Nim : /\ WF_vars(NimThreadStep(n))
                    /\ WF_vars(NimCancelled(n))
                    /\ WF_vars(NimHealthy(n) \/ NimUnhealthy(n))

Safety == Init /\ [][Next]_vars
Spec == Safety /\ Fairness

-----------------------------------------------------------------------------
(* The values of the variables stay in their types.                        *)
TypeOK ==
  /\ configured \in Deployments
  /\ flags \in [bypassS2s : BOOLEAN, bypassAsd : BOOLEAN]
  /\ client \in {"open", "closed", "cancelled"}
  /\ sent \in [Kind -> Nat]
  /\ inbound \in Kind \cup {None}
  /\ worker \in {"read", "check", "complete", "exited"}
  /\ stopEvent \in BOOLEAN
  /\ putCount \in [Kind -> Nat]
  /\ handler \in {"controllerConfig", "asdConfig", "health", "firstCheck", "next", "check",
                  "yield", "join", "validate", "stop", "joinThreads", "close", "abort",
                  "finish", "done"}
  /\ config \in [bypassS2s : BOOLEAN, bypassAsd : BOOLEAN, asdActive : BOOLEAN, asdConfig : BOOLEAN]
  /\ raised \in (Code \ {"OK"}) \cup {None}
  /\ nim \in [Nim -> {"idle", "health", "stream", "abort", "finally", "exited"}]
  /\ failure \in [Nim -> {"UNAVAILABLE", "INTERNAL", None}]
  /\ outDone \in [Nim -> BOOLEAN]
  /\ failed \subseteq Nim
  /\ produced \in 0 .. MaxResponses
  /\ outQueue \in Nat
  /\ channelsOpen \in BOOLEAN
  /\ yielded \in Nat
  /\ code \in (Code \ {"OK"}) \cup {None}
  /\ status \in Code \cup {"CANCELLED", None}

(* Responses are neither invented nor lost between the LipSync NIM and the *)
(* client: an OK call has delivered everything the NIM sent.               *)
OkMeansComplete ==
  /\ yielded + outQueue <= produced
  /\ status = "OK" => yielded = produced

(* A stage whose failure shortened the stream of a later stage is never    *)
(* reported as success: the error is stored before the stage's output      *)
(* buffer is marked done, so OK cannot be sent for a truncated result.     *)
OkMeansStagesSucceeded ==
  [][status = None /\ status' = "OK" =>
       \A n \in Nim : outDone[n] => n \notin failed]_vars

(* A client thread only runs for a stage that the service has and that     *)
(* this request does not bypass, and ASD only with its config.             *)
LaunchIsAllowed ==
  \A n \in Nim : nim[n] # "idle" =>
    /\ n = "lipsync" \/ n \in configured
    /\ n = "s2s" => ~config.bypassS2s
    /\ n = "asd" => config.asdConfig

(* Once a forbidden chunk has been routed, at most the response that       *)
(* already passed its check is still yielded.                              *)
AtMostOneMore ==
  \A n \in 0 .. MaxResponses : [](Forbidden /\ handler # "controllerConfig" /\ yielded = n
                                  => [](yielded <= n + 1))

(* A call whose handler has failed, or whose LipSync thread has exited for *)
(* whatever reason, comes to its status even if other threads hang.        *)
CallIsAnswered == (raised # None \/ nim["lipsync"] = "exited") ~> status # None

(* No thread of the request outlives its call for ever: closing the        *)
(* channels and the end of the call release each of them.                  *)
ThreadsAreReleased == status # None ~> ThreadsEnded

=============================================================================
