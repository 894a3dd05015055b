-------------------------- MODULE ControllerInputs --------------------------
(***************************************************************************)
(* The input side of one content-localization request: how the worker of   *)
(* ContentLocalizationDeserializer routes each payload to the queues of    *)
(* nine buffers (src/controller_service/deserializer.py), and which thread *)
(* takes from which queue, in which order, in every mode of the request    *)
(* (src/controller_service/pipeline.py).                                   *)
(*                                                                         *)
(* A queue is reduced to the number of its items.  That an iterator stops  *)
(* exactly when its buffer is done and its queue is empty is what the      *)
(* module Deserializer shows of RequestIteratorFromBuffer.                 *)
(***************************************************************************)
EXTENDS Naturals, Sequences, FiniteSets

CONSTANTS MaxMessages,     \* bound on the messages of the inbound stream
          AsdConfigured    \* whether the service was started with an ASD server

ASSUME MaxMessagesAssumption == MaxMessages \in Nat
ASSUME AsdConfiguredAssumption == AsdConfigured \in BOOLEAN

Single == {"s2s_config", "asd_config", "lipsync_config", "diarization",
           "background", "translated", "controller_config"}
Payload == Single \cup {"audio", "video"}

Queue == Single \cup {"audio.S2S", "audio.ASD", "video.ASD", "video.LIPSYNC"}

Thread == {"s2s", "asd", "lipsync", "unused"}

VARIABLES
  flags,      \* what the client's configs say: bypass flags, background audio
  received,   \* how many messages the worker has taken from the stream
  worker,     \* "read" or "exited": every buffer is done once it has exited
  size,       \* how many items wait in each queue
  handler,    \* the config that is read next, "launched" or "rejected"
  mode,       \* the flags in force once the configs were read
  stage,      \* how far each thread is in its plan
  routed,     \* put_count: how many items each queue was given
  missed,     \* history: the configs whose poll found nothing
  takenBy     \* history: the threads that took an item from each queue

inputVars == <<flags, received, worker, size, handler, mode, stage, routed, missed, takenBy>>

Flags == [bypassS2s : BOOLEAN, bypassAsd : BOOLEAN, background : BOOLEAN]

InputsInit ==
  /\ flags \in Flags
  /\ received = 0
  /\ worker = "read"
  /\ size = [q \in Queue |-> 0]
  /\ handler = "controller_config"
  /\ mode = [bypassS2s |-> FALSE, bypassAsd |-> FALSE, background |-> FALSE]
  /\ stage = [t \in Thread |-> 1]
  /\ routed = [q \in Queue |-> 0]
  /\ missed = {}
  /\ takenBy = [q \in Queue |-> {}]

AsdActive == ~mode.bypassAsd /\ AsdConfigured

-----------------------------------------------------------------------------
(* The worker: _distribute and _on_complete.                               *)

(* Fault: video goes to the first of its queues only.                      *)
RouteVideoOnce(payload) ==
  CASE payload = "audio" -> {"audio.S2S", "audio.ASD"}
    [] payload = "video" -> {"video.ASD"}
    [] OTHER -> {payload}

Route(payload) ==
  CASE payload = "audio" -> {"audio.S2S", "audio.ASD"}
    [] payload = "video" -> {"video.ASD", "video.LIPSYNC"}
    [] OTHER -> {payload}

(* The client sends one config of each kind; media arrive in any number.   *)
DistributePayload(payload) ==
  /\ worker = "read"
  /\ received < MaxMessages
  /\ received' = received + 1
  /\ size' = [q \in Queue |-> IF q \in Route(payload) THEN size[q] + 1 ELSE size[q]]
  /\ routed' = [q \in Queue |-> IF q \in Route(payload) THEN routed[q] + 1 ELSE routed[q]]
  /\ UNCHANGED <<flags, worker, handler, mode, stage, missed, takenBy>>

InboundEnds ==
  /\ worker = "read"
  /\ worker' = "exited"
  /\ UNCHANGED <<flags, received, size, handler, mode, stage, routed, missed, takenBy>>

-----------------------------------------------------------------------------
(* The handler reads at most one item of each config buffer it needs       *)
(* before it launches the threads (_extract_and_apply_configs).            *)

Take(q, thread) ==
  /\ size' = [size EXCEPT ![q] = @ - 1]
  /\ takenBy' = [takenBy EXCEPT ![q] = @ \cup {thread}]

(* _extract_config: one get with a timeout.                                *)
Extract(q, found) ==
  /\ found <=> size[q] > 0
  /\ IF found
       THEN Take(q, "handler") /\ UNCHANGED missed
       ELSE missed' = missed \cup {q} /\ UNCHANGED <<size, takenBy>>
  /\ UNCHANGED <<flags, received, worker, stage, routed>>

ExtractControllerConfig ==
  /\ handler = "controller_config"
  /\ \E found \in BOOLEAN :
       /\ Extract("controller_config", found)
       /\ mode' = [mode EXCEPT !.bypassS2s = found /\ flags.bypassS2s,
                               !.bypassAsd = found /\ flags.bypassAsd]
  /\ handler' = "asd_config"

ExtractAsdConfig ==
  /\ handler = "asd_config"
  /\ IF AsdActive
       THEN \E found \in BOOLEAN : Extract("asd_config", found)
       ELSE UNCHANGED <<flags, received, worker, size, stage, routed, missed, takenBy>>
  /\ handler' = "lipsync_config"
  /\ UNCHANGED mode

(* Healthy services are assumed; a request that uses ASD is rejected when  *)
(* the service has none or when no asd_config was found.                   *)
Launchable ==
  mode.bypassAsd \/ (AsdConfigured /\ "handler" \in takenBy["asd_config"])

ExtractLipsyncConfig ==
  /\ handler = "lipsync_config"
  /\ \E found \in BOOLEAN :
       /\ Extract("lipsync_config", found)
       /\ mode' = [mode EXCEPT !.background = found /\ flags.background]
  /\ handler' = IF Launchable THEN "launched" ELSE "rejected"

HandlerStep == ExtractControllerConfig \/ ExtractAsdConfig \/ ExtractLipsyncConfig

-----------------------------------------------------------------------------
(* What each thread does with its queues: a sequence of stages.  A stage   *)
(* either drains all its queues, side by side, until each is exhausted, or *)
(* takes (at most) one item from one queue.                                *)

All(queues) == [kind |-> "all", queues |-> queues]
One(queue)  == [kind |-> "one", queues |-> {queue}]
External    == [kind |-> "external", queues |-> {}]

(* _start_s2s_thread: the request generator, or the drain.                 *)
S2sPlan ==
  IF mode.bypassS2s
  THEN <<All({"audio.S2S"}), All({"s2s_config"})>>
  ELSE <<One("s2s_config"), All({"audio.S2S"}), All({"s2s_config"})>>

(* Fault: the inactive stage drains its video queue only.                  *)
AsdPlanVideoOnly ==
  IF AsdActive
  THEN <<All({"video.ASD", "audio.ASD", "diarization"})>>
  ELSE <<All({"video.ASD"})>>

(* _start_asd_thread: asd_request_generator merges its three sources with  *)
(* a FeederStream; the drain exhausts one queue after the other.           *)
AsdPlan ==
  IF AsdActive
  THEN <<All({"video.ASD", "audio.ASD", "diarization"})>>
  ELSE <<All({"video.ASD"}), All({"audio.ASD"}), All({"diarization"}), All({"asd_config"})>>

(* lipsync_request_generator: the audio priming chunk, then the merge.     *)
(* With S2S, the priming chunk comes from the S2S output (external).       *)
LipsyncPlan ==
  LET background == IF mode.background THEN {"background"} ELSE {}
  IN IF mode.bypassS2s
     THEN <<One("translated"), All({"video.LIPSYNC", "translated"} \cup background)>>
     ELSE <<External, All({"video.LIPSYNC"} \cup background)>>

(* Fault: translated audio is drained in every mode.                       *)
UnusedPlanAlways ==
  <<All({"translated"})>> \o (IF mode.background THEN <<>> ELSE <<All({"background"})>>)

(* _start_unused_input_drains.                                             *)
UnusedPlan ==
  (IF mode.bypassS2s THEN <<>> ELSE <<All({"translated"})>>)
  \o (IF mode.background THEN <<>> ELSE <<All({"background"})>>)

Plan(t) ==
  CASE t = "s2s" -> S2sPlan
    [] t = "asd" -> AsdPlan
    [] t = "lipsync" -> LipsyncPlan
    [] t = "unused" -> UnusedPlan

Running(t) == handler = "launched" /\ stage[t] <= Len(Plan(t))
Current(t) == Plan(t)[stage[t]]

Advance(t) == stage' = [stage EXCEPT ![t] = @ + 1]

TakeItem(t) ==
  /\ Running(t)
  /\ \E q \in Current(t).queues : size[q] > 0 /\ Take(q, t)
  /\ IF Current(t).kind = "one" THEN Advance(t) ELSE UNCHANGED stage
  /\ UNCHANGED <<flags, received, worker, handler, mode, routed, missed>>

Exhausted(q) == worker = "exited" /\ size[q] = 0

(* Fault: the single read of a config has no timeout.                      *)
StageEndsNoTimeout(t) ==
  /\ Running(t)
  /\ Current(t).kind = "all"
  /\ \A q \in Current(t).queues : Exhausted(q)
  /\ Advance(t)
  /\ UNCHANGED <<flags, received, worker, size, handler, mode, routed, missed, takenBy>>

(* The single s2s_config read gives up after its timeout; the priming read *)
(* of the translated audio waits for the end of the stream.                *)
StageEnds(t) ==
  /\ Running(t)
  /\ Current(t).kind # "external"
  /\ \A q \in Current(t).queues :
       IF Current(t).kind = "one" /\ q = "s2s_config" THEN size[q] = 0 ELSE Exhausted(q)
  /\ Advance(t)
  /\ UNCHANGED <<flags, received, worker, size, handler, mode, routed, missed, takenBy>>

(* The first S2S output reaches LipSync, or the S2S output ends.           *)
S2sOutputArrives ==
  /\ Running("lipsync")
  /\ Current("lipsync").kind = "external"
  /\ Advance("lipsync")
  /\ UNCHANGED <<flags, received, worker, size, handler, mode, routed, missed, takenBy>>

ThreadStep(t) == TakeItem(t) \/ StageEnds(t)

ThreadEnded(t) == handler = "launched" /\ stage[t] > Len(Plan(t))

InputsFinished ==
  /\ worker = "exited"
  /\ handler = "rejected" \/ \A t \in Thread : ThreadEnded(t)
  /\ UNCHANGED inputVars

InputsNext ==
  \/ \E p \in Payload : DistributePayload(p)
  \/ InboundEnds
  \/ HandlerStep
  \/ \E t \in Thread : ThreadStep(t)
  \/ S2sOutputArrives
  \/ InputsFinished

(* Threads are scheduled; the client and the S2S service owe nothing.      *)
InputsFairness ==
  /\ WF_inputVars(HandlerStep)
  /\ \A t \in Thread : WF_inputVars(ThreadStep(t))

InputsSpec == InputsInit /\ [][InputsNext]_inputVars /\ InputsFairness

-----------------------------------------------------------------------------
(* The values of the variables stay in their types.                        *)
InputsTypeOK ==
  /\ flags \in Flags
  /\ received \in 0 .. MaxMessages
  /\ worker \in {"read", "exited"}
  /\ size \in [Queue -> Nat]
  /\ handler \in {"controller_config", "asd_config", "lipsync_config", "launched", "rejected"}
  /\ mode \in Flags
  /\ stage \in [Thread -> Nat \ {0}]
  /\ routed \in [Queue -> Nat]
  /\ missed \subseteq Queue
  /\ takenBy \in [Queue -> SUBSET (Thread \cup {"handler"})]

(* No two threads of a request share a queue: a second reader would split  *)
(* the media stream between two stages.                                    *)
OneReaderPerQueue ==
  \A q \in Queue : Cardinality(takenBy[q] \ {"handler"}) <= 1

(* When every thread has run to its end, whatever the mode and however the *)
(* payloads were interleaved, every queue is empty but those of which the  *)
(* handler reads one item.  There everything behind the config it took is  *)
(* left, nothing else; or, if its poll gave up before the config came, the *)
(* whole queue: that config is never applied.                              *)
SecondCopies(q) == takenBy[q] = {"handler"} /\ size[q] = routed[q] - 1
LateConfig(q)   == q \in missed /\ takenBy[q] = {} /\ size[q] = routed[q]

NothingIsLeftBehind ==
  (worker = "exited" /\ \A t \in Thread : ThreadEnded(t))
  => \A q \in Queue : size[q] = 0 \/ SecondCopies(q) \/ LateConfig(q)

(* Both readers of the fanned-out media see the same stream: when all      *)
(* threads have ended, either both queues of a payload were read or none.  *)
FanoutReachesBothReaders ==
  (worker = "exited" /\ \A t \in Thread : ThreadEnded(t))
  => /\ takenBy["video.ASD"] # {} <=> takenBy["video.LIPSYNC"] # {}
     /\ takenBy["audio.S2S"] # {} <=> takenBy["audio.ASD"] # {}

(* The stages and drains whose input is only the client's stream come to   *)
(* their end once that stream is over.                                     *)
InputThreadsEnd ==
  worker = "exited" ~> (handler = "rejected" \/ \A t \in {"s2s", "asd", "unused"} : ThreadEnded(t))

=============================================================================
