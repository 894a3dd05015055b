# Content Localization for Media — verification project

TLA+ models of the Content Localization Blueprint, the TLC runs that check
them, and TLAPS proofs of their main invariants. The models are translated from
the code; paths below are relative to `src/`, the root of the repository.
`PROJECT.json` maps every definition to the lines it stands for.

The system localizes a video. A client streams configs, audio, video and
optional diarization, translated audio and background audio to the
*controller*; the controller calls up to three downstream services ("NIMs":
speech-to-speech `S2S`, active speaker detection `ASD`, `LipSync`) and streams
the resulting video back.

```
 gRPC client --> deserializer worker --> 9 buffers (11 queues)
                                          |        |        |
                                     S2S client  ASD client  LipSync client --> NIMs
                                     thread      thread      thread
                                          |        |        ^   |
                                          +-> s2s buffer ---+   |
                                                   +-> asd buffer
                                                                v
 gRPC client <-- handler thread (yield loop) <-- lipsync output buffer
```

The S2S service behind the first of these is part of the repository: it has the
audio of a call dubbed by CambAI or ElevenLabs. Around the two services stand the
demo web application, whose server is a client of the controller, the Launchpad,
which builds the applications of the pipeline in a Cloudera AI project, and a Ray
cluster on Cloudera AI with its launch job, its management API and its recovery
job.

```
 page <-- web socket --> session --> controller --> S2S service --> CambAI / ElevenLabs
                                         |
 Launchpad page --> build processes --> applications + endpoint files
 launch job --> head application (management API) --> workers, resource map, deployments
                        ^-- recovery job
```

## 1. Inventory

| component | state | operations | what is hard | what makes it correct |
|---|---|---|---|---|
| `Buffer`, `RequestIteratorFromBuffer` (`src/common/buffers.py`) | one `queue.Queue` per consumer, `_done`, `_put_count`, `_get_count` | `put`, `get`, `done`, `is_exhausted`, iteration with a poll timeout | each is several critical sections; `is_exhausted` reads two things without a common lock | an iterator ends only when all that was put has been read |
| `Deserializer` (`src/common/deserializer.py`) | worker thread, stop event, its buffers | `start`, `stop`, `join`, `_worker`, `_distribute`, `_on_complete` | fan-out is not atomic, may block; stop during a request; consumers that vanish | same stream, in order, at every consumer; buffers always closed |
| `FeederStream` (`src/common/feeder_stream.py`) | one thread per source, `_active_count`, `_chunk_counts`, `_errors`, stop event, one bounded buffer | `start`, `stop`, iteration, `raise_on_error` | last feeder closes the buffer; full buffer nobody reads; one source fails | closed exactly once and last; no truncated stream taken as complete |
| `ContentLocalizationDeserializer` (`src/controller_service/deserializer.py`) | nine buffers, `client_request_id` | routing of eight payload kinds | every queue needs exactly one reader in each mode | nothing accumulates, nothing is split |
| pipeline (`src/controller_service/pipeline.py`) | the threads of a request | start of stages and drains, yield loop, checks on translated audio, cleanup | checks on counters other threads change; joins with a timeout | see `ControllerRequest` |
| `ControllerService` and servicer (`service.py`, `servicer.py`, `helpers.py`, `src/common/errors.py`) | configs, NIM channels of the request, exception in flight | `infer`, `_controller_impl`, `_extract_and_apply_configs`, `_check_services_health` | configs that arrive late; who aborts with which status | OK only for a complete result of stages that succeeded |
| client threads (`src/common/clients.py`, `nims.py`) | output buffer of the stage | health probe, stream, abort, `done` | `context.abort` from threads that race with the handler | a failed stage is reported before its output looks complete; threads end |
| stream adapters (`src/controller_service/stream_adapters.py`) | none (generators) | merge of inputs, priming chunk, audio re-encoding | generator dropped in the middle | feeders are stopped, errors re-raised |
| handles, health, TLS, NVCF (`src/common`) | a channel | open, probe, close | closing a channel under a call | — |
| S2S service base (`src/s2s_service/service.py`) | collector thread, one buffer, the input file | `infer`, collection to a temporary file | truncated input taken as complete | OK only for a dub of all the audio |
| CambAI and ElevenLabs back ends (`src/s2s_service/camb_utils`, `el_utils`) | two temporary files, response queue, background thread, job | upload, poll with retries, download, keepalives | a call cancelled while the thread goes on; retries exhausted; two aborts | files removed, one status, polling bounded |
| segmentizers (`src/s2s_service/segmentizer.py`) | none | audio and time-based cuts | boundaries | segments partition the input |
| sinks and sources (`src/common/source_sink`) | partial chunk, file handles | write, flush, re-chunk | a write fails in the middle | no byte twice, none lost |
| gRPC service base (`ai4m_base_utils/grpc_service.py`) | worker processes | start, bind, wait | a worker dies | — |
| command-line clients (`client/`) | worker threads, batch results | run, retry, collect | partial failure of a batch | every job has a result |
| cluster recovery (`cai/ray/ray_serve_cai/recovery`) | phase and lock files, `ray_cluster_info.json` | resumable steps | crash between a step and its record; the management API changes the same files | no irreversible step twice; a reported success is one |
| Ray cluster (`cai/ray/ray_serve_cai`, `cai/ray/cai_integration`) | resource map, deployment store, cluster info, CML applications | add and remove workers, applications, deployments; launch | each operation changes two systems one after the other; the head dies in between; writes fail unnoticed | no allocation exceeds the map; workers join their head |
| Launchpad build (`cai/lib`, `cai/amp`) | progress file, configuration, endpoint files | build, status, save | builds, status requests and launch scripts rewrite shared files without a lock | a successful build leaves nothing older; builds and records end |
| demo application (`client/demos/app`) | session, buffers, call, ffmpeg process | config, chunks, end, close | callbacks between awaits; the socket closes in an await; a configuration that comes late | input in order, one outcome, no open call |
| diarization, audio, media helpers, logging, auth | none | conversions | — | — |
| scripts, images, engines, docs | — | — | — | — |

## 2. Modules

| module | models |
|---|---|
| `Stream` | abstract specification: a stream written once and read in full, in order, by every reader |
| `Buffer` | the buffer and its polling iterators, one step per critical section; extended by the next two |
| `Deserializer` | the worker that fans the inbound stream out to one buffer, with its consumers; implements `Stream` |
| `FeederStream` (`MCFeederStream` gives it its items) | the merge of several sources by one thread each, with the generator that owns it; implements `Stream` |
| `ControllerRequest` | one `StreamContentLocalization` call: handler thread, deserializer worker, three client threads, client, NIMs, gRPC runtime |
| `ControllerInputs` | routing of payloads to the eleven queues, and which thread takes from which queue in each mode |
| `DubbingApi` | the background thread of a speech-to-speech call and the requests it makes of CambAI or ElevenLabs |
| `DubbingCall` | the call around it: handler thread, collector thread, client; implements `Stream` |
| `ServeDeployments` | deploy requests of the management API, Serve, the deployment store, the head |
| `Recovery` | the recovery job with its files, next to `ServeDeployments` and the editors of the cluster info |
| `CmlApplications` | the capacity bookkeeping of the management API |
| `ClusterLaunch` | the launch job, over `CmlApplications` |
| `PipelineApps` | the applications of the pipeline, their launch scripts and the endpoint files |
| `PipelineBuild` | the builds, the status requests and the progress file, over `PipelineApps` |
| `DemoSession` | one upload of the demo application |
| `BufferProofs`, `DeserializerProofs`, `FeederStreamProofs`, `ControllerRequestProofs`, `DubbingCallProofs`, `RecoveryProofs`, `ClusterLaunchProofs`, `DemoSessionProofs` | the theorems |

How state and actions correspond to the code:

* **Buffer.** `queues`, `done`, `putCount`, `getCount` are the fields of the
  class. `iter[q]` is the program counter of the generator of
  `RequestIteratorFromBuffer`: `"poll"` inside `Queue.get(timeout)`, `"count"`
  before the statistics, `"readDone"` and `"readEmpty"` the two operands of
  `is_exhausted`. The two reads are separate steps because the code takes the
  lock of `done` and that of the queue one after the other. `got` is history.
* **Deserializer.** `pc` is the worker's place. A `put()` is one `PutNext` per
  queue and one `PutCounted`. The finally clause (`Complete`) closes the buffer
  whether the stream ended, raised, or the stop event was seen.
* **FeederStream.** `feeder[s]` is the place of the thread of source `s` in
  `_feeder_worker`; the put with a timeout is `PutItem` or `PutTimesOut`.
  `owner` is the request generator around `yield from stream`.
* **ControllerRequest.** `handler` is the place of the handler thread in
  `_controller_impl` and in what surrounds it; `raised` is the exception that
  unwinds it. `nim[n]` is the place of a client thread in `Client.__call__`.
  `code` is the code stored in the gRPC context by `context.abort`, which any of
  the threads may do and which gRPC reads when the call ends (`status`).
  `configured` are the optional NIMs the service was started with, one of
  `Deployments`. Every join has a timeout in the code, so each may return with its
  thread alive (`JoinDeserializer`, `JoinThreads`). Buffers are reduced to the
  counters the handler reads (`putCount`, `outQueue`, `outDone`): `Deserializer`
  and `FeederStream` are about their delivery.
* **ControllerInputs.** `size[q]` counts the items of a queue. `Plan(t)` is what
  a thread does with its queues, as a sequence of stages derived from the mode;
  `routed[q]` is the `put_count` of a queue; `takenBy` and `missed` (the configs
  whose poll found nothing) are history.
* **DubbingApi, DubbingCall.** `thread` is the place of the background thread in
  `_run_camb_pipeline` or `process_audio`, one place per request to the web
  service; `attempt` and `dnsRetry` are the counters of the polling loops.
  `handler` is the place in `infer`; `outcome`, `code` and `detail` are how its
  generator ended. `inputFile` and `mp3` are the two temporary files.
* **ServeDeployments, Recovery.** `at[j]` is the place of a run of the job and
  `local[j]` its local variables; `phase` and `lock` are its files, `info` the
  cluster info, of which the groups and the address of the head are kept. An
  address is the number of restarts of the head before it (`epoch`). A group that
  is defined at run time has the address of that moment in its `launcher`, and its
  workers join that one, whatever the cluster info says later. A run with a request
  that is never answered is at the place `"hung"`. `Loads` and `Save` are `_load`
  and `_save` of the deployment store: a store that cannot be read is taken for an
  empty one, a failed write is only logged. History: `seen[j]`, the interference a
  run has met with, `overlapped`, and `unnoticed`, the applications on record that
  the head has lost or deleted without the record following.
* **CmlApplications, ClusterLaunch.** A handler of the management API that
  changes CML and the resource map takes two steps with `pending` in between.
  `Loads` and `Save` are `_load` and `_save` of the map, which may fail, or leave a
  file that is not a map any more, without a caller knowing. `step` is the place of
  the launch job in `main` and `start_cluster`; `cluster_info` is what the job
  knows, `file` what is on the disk, and `addressSaved` (history) says that the
  address has got there.
* **PipelineApps, PipelineBuild.** `at[b]` is the step of a build as in
  `build_plan`, `stage[b]` its place in it. `progress` is `build_progress.json`
  reduced to what `reconcile_stale_build` tells apart, with the age of the last
  write in four classes. `merging` and `poll` hold what a publisher or a status
  request has read and not yet written back. `fresh` is history.
* **DemoSession.** One callback of the event loop, up to its first await, is one
  step. `option.diarization` is the kind of diarization file the user has chosen:
  none, one the parser reads, makes nothing of, or throws at. `lost` are the chunks
  whose serialization failed; the page is `"stopped"` then, and still connected.
  `wire` and `outcomes` are history: what was written to the call, and the final
  messages to the page.

Definitions whose comment starts with `Fault:` are not part of a specification.
Each is a plausible bug in the code that stands after it, and shows that the
property it is paired with in `PROJECT.json` (`mutants`) can tell the two apart.

External parts are modelled by what the code in `src/` expects of them: the gRPC
client sends messages, half-closes or cancels at any moment; a NIM answers, ends
its stream or fails at any moment (`EarlyEnd`: even before its input ended); the
gRPC runtime keeps the last code stored by an abort, ends the inbound iterator of
a finished call, and fails the calls on a closed channel.

## 3. Runs

| run | instance | states | shows |
|---|---|---|---|
| `deserializer` | 2 queues, unbounded, 3 requests of 2 values, consumers may vanish | 33 k | counters, release, refinement of `Stream` |
| `feeder_stream` | 2 sources of 2 items, one slot, `stop()` at any time | 57 k | order, errors, release, refinement of `Stream` |
| `request` | S2S or ASD configured, any mode, 2 responses, joins may give up | 335 k | what OK means, what still holds, and that the call and its threads end |
| `inputs` | any 3 messages, every mode | 144 k | one reader per queue, what is left behind, threads end |
| `dubbing_call` | both back ends, 3 messages, 2 polls, 2 chunks | 116 k | what OK means, which files are left, the end of the call, refinement of `Stream` |
| `recovery` | 2 runs of the job, one after the other, one application, one group | 631 k | one restart, what a success means, the end of a run |
| `cluster_launch` | 3 applications, 1 slot per worker, the head dies once | 1.3 M | allocations, addresses, the end of the job |
| `pipeline_build` | 2 builds, one NIM, one upset | 414 k | nothing older is left, builds and records end |
| `demo_session` | 3 chunks, 2 replies, every option | 305 k | the input of the controller, one outcome, the end of calls |
| `recovery_restart`, `build_given_up`, `demo_late_config` | | | violations, section 5 |

Bounds. `MaxRequests`, `MaxItems`, `MaxTranslated`, `MaxResponses`,
`MaxMessages`, `MaxChunks` and `MaxReplies` bound what the environment offers;
nothing in the code is capped. Two queues are what the controller's fan-out
buffers have. Three requests of two values are enough for a queue to hold two
while a third is in the worker's hands, and for a reordering or a duplicate to be
seen. One slot makes `put` block at every second item. Two sources of two items
let each feeder be first or last and let a feeder put while the other leaves. One
translated chunk decides every check of the handler (they compare with zero); two
responses let the loop go round between a check and the next one. `request` takes a
service with S2S or one with ASD, each with all modes a client may ask for; one with
both did not fit the time of a run, and the theorems of section 6 hold for it too. Three messages
allow a config followed by media on two of the queues a thread works through in
order, and in a dubbing call a config with two pieces of audio. `MaxAttempts = 2`
lets a poll be repeated and be used up (the code allows hundreds).

`MaxRuns = 2` with one job at a time lets a run be killed anywhere and resumed by
the next; `MaxRestarts = 2` lets a second restart happen, so that
`HeadRestartedOnce` could be seen violated; `MaxDeaths` bounds the failures of the
head and `MaxApps` the applications created. In `cluster_launch` one slot and
three applications let a worker and two applications compete. Three chunks in
`demo_session` let a configuration come behind one and before another, and any of
them be lost; two replies let the preview and the file differ. `MaxBuilds = 2` is
what the race of two clicks needs; `MaxUpsets` bounds what is done to the builds
from outside (a changed configuration, a killed process, a refused request, a
failed application). With one of them every single failure is met at every point;
a larger bound did not fit the time of a run.

Deadlock is checked in the runs of the two services (`Finished` is the state in
which all threads of the model have ended; any other state without a successor is
an error). It is not checked in `recovery`, `cluster_launch`, `pipeline_build` and
`demo_session`, where everything may come to rest at the bounds: their liveness
properties say what may not stop.

Fairness. The operating system schedules every thread that can move, hence weak
fairness on the steps of each thread. It is not assumed that the client sends,
half-closes or cancels, that a source or a NIM answers, that `stop()` is called,
or that a consumer keeps its iterator. In `ControllerRequest` three more facts
are used: a health probe has a timeout (`src/common/health.py`), so a thread in
the probe leaves it; gRPC ends the inbound iterator once the call has ended;
gRPC fails a call whose channel is closed. Weak fairness of `HandlerStep` at its
yield means that the client reads the response or the call is cancelled.

In `DubbingCall` a request to the web service is answered or raises, because each
has a timeout; whether it is answered well is open, and polls are bounded by the
code. In `Recovery` and `ClusterLaunch` a job that can take a step goes on, and its
waits have an end. Its requests need not have one: those to CML, to the head and
to the API that redeploys are made without a timeout
(`cai/ray/ray_serve_cai/cai_cluster.py:158,196,241,269,327`,
`cai/ray/ray_serve_cai/recovery/recover.py:105,107,176`, and a deployment is
answered when `serve.run` returns, `ray_service.py:131`). `RequestHangs` takes a
job from such a request to the place `"hung"`, where only the end of its pod helps,
and `RunsEnd` and `LaunchEnds` say that a job ends or is there. Nothing is assumed
of the head, the API or the users, nor that the job is started again. In
`PipelineBuild` one fairness covers the builds and time together: either a build
moves, a deadline passes, or the record grows older; and the page asks for the
status again and again, as it does while it is open. The platform promises
nothing. In `DemoSession` the page sends what it has read, the event loop runs its
callbacks, the preprocessing services answer or fail, and the controller ends a
call whose input has ended; a configuration that waits for a diarization file is
not promised to come, since the file may not be readable.

## 4. Properties

* `ImplementsStream` (three times): the producers with `Buffer`, and the queue
  between the two threads of a dubbing call, implement `Stream`: what a reader has
  received is a prefix of what was sent, in order, and an ended one has it all,
  although `done` and `empty()` are read at different times. `PerSourceOrder` adds
  the order of each source of a merge.
* `CountersSettle`: what a reader of the counters may rely on.
* `ConsumersAreReleased`, `ReaderIsReleased`, `StopReleasesFeeders`: nobody waits
  for ever, and a stop takes effect. `ReturnedMeansComplete`: a generator that
  returns normally has forwarded everything.
* `OkMeansComplete`, `OkMeansStagesSucceeded`: what a client may conclude from OK,
  whichever joins have given up. `AtMostOneMore`: how a request is rejected.
* `CallIsAnswered`, `ThreadsAreReleased`: a call whose handler failed or whose
  LipSync thread has exited gets its status, and afterwards all its threads end.
* `OneReaderPerQueue`, `NothingIsLeftBehind`, `FanoutReachesBothReaders`,
  `InputThreadsEnd`: every queue has one reader in every mode and is emptied, but for
  what is behind a config that was taken, and for a config that came after its poll.
* `OkMeansWholeDub`, `InputOutlivesUpload`, `OnlyTheseFilesAreLeft`, `CallEnds`:
  a dubbing call that succeeds has dubbed everything; its thread finds the input
  file although the call may be gone; which files a call may leave; it ends.
* `HeadRestartedOnce`, `SuccessMeansRebuilt`, `SuccessMeansRedeployed`, `RunsEnd`:
  a recovery, however often it is interrupted. Each names the interference it does
  not survive (section 7).
* `AllocationsFit`: an allocation never exceeds the capacity on the map, whatever
  has become of the map before. `LaunchedWorkersJoin`, `LaunchEnds`: the job that
  launches the cluster.
* `NothingOlderRemains`, `BuildsSettle`: the builds of the pipeline.
* `InputIsInOrder`, `OneOutcome`, `CallsEnd`, `CallIsReported`: an upload.
* `LaterPhasesFollowTheRestart`, `OnlyDeadBuildsAreGivenUp`, `EndedMeansWholeFile`:
  what the documentation says and the code does not do, section 5.

## 5. Where the code and its documentation disagree

1. `recovery_restart`: the phase `RESTARTING_HEAD` is documented as "restart
   issued", but is recorded before the restart. A job that is killed in between, or
   whose request is refused, is resumed without a restart, waits for a head that
   does not come, and so does every later run.
2. `build_given_up`: records are said to be cleared after a crash or an
   interrupted deploy. A status request gives up the record of a build that is
   alive but has not set its first step, or has not written for two minutes.
3. `demo_late_config`: a session of the demo is said to buffer the chunks of an
   upload and send them processed, or to stream them directly. A configuration that
   waits for its diarization file comes behind the first chunks, and when it turns
   the preprocessing off, the chunks buffered by then are never sent.

Smaller ones, met while modelling and not kept as runs.

In the controller: a client thread that outlives the joins may overwrite the status
of the servicer (`src/common/clients.py:127,131` against
`src/common/errors.py:7-10`); forbidden translated audio that arrives after the
first response is rejected after output (`src/controller_service/pipeline.py:553`
against 512-516); the usage check may read counters of a worker that still runs,
since its join ignores the timeout (`pipeline.py:668` against 646-648), so that OK
says nothing certain about the use of translated audio; `chunk_counts` misses an
item when the stop event is seen between the put and the tally
(`src/common/feeder_stream.py:321` against 204-206); the drain of an inactive stage
works through its queues one after the other, so that the later ones grow until the
first is exhausted (`pipeline.py:203` against 183-184).

In the cluster: the lock that is to keep two recoveries apart
(`cai/ray/ray_serve_cai/recovery/recovery_state.py:7-8`) is tested and taken in two
steps and released whoever has it (95-115), and is reclaimed from a run that waits
for longer than half an hour; workers of a group that was defined at run time join
the address baked into its launcher
(`cai/ray/ray_serve_cai/management/services/cai_service.py:163-169`,
`cai/ray/cai_integration/templates/ray_worker_launcher.py.j2:85-92`), so that a
recovery rebuilds them onto the dead head and reports success; if the file cannot be
written after the address was fetched (`cai/ray/cai_integration/launch_ray_cluster.py:559-563`),
the launch job goes on, and its workers join the cluster whose file is on the disk;
a worker or an application whose entry could not be saved is missing from the
resource map, and one whose removal could not be saved stays on it
(`resource_map.py:66-72`); a deletion that could not be recorded
(`deployment_store.py:77-82`) is answered with success and undone by the next
recovery, and a recovery that cannot read the record (66-68) redeploys nothing and
reports success; the recovery job is registered only if the cluster info has a key
that nothing sets (`launch_ray_cluster.py:610-614`).

In the demo: a page whose serializer fails at the last chunk shows an error, sends
no end and keeps its socket (`components/VideoUploader/index.tsx:157-166,203-209`),
so that the call stays open; a diarization file at which the parser throws is
answered with an error message that the page ignores
(`api/socketHandlers/content-localization.ts:70-81`, `index.tsx:119-147`), no call is
opened, and the page waits; a result that cannot be written rejects a promise nobody
handles (`localizationStream.ts:220-226,363`).

## 6. Proofs

All theorems hold for every value of the constants that the named assumptions
allow: any number of queues and any bound on them (`NumQueuesAssumption`,
`MaxSizeAssumption`), any finite set of sources (`SourceAssumption`) with items
that name their source (`ItemAssumption`) and a single queue
(`SingleQueueAssumption`), services with any optional NIMs (`DeploymentsAssumption`,
`EnvironmentAssumption`), any finite set of groups (`GroupsAssumption`), both sets
of NIMs there are (`NimsAssumption`), and any bound on messages, polls, chunks,
runs, restarts, failures, workers, applications and builds (the other assumptions
only say that a bound is a number, some of them at least 1). Each module has an
inductive invariant, `Inv`, whose parts are named for what they say, with one step
per action and part; an invariant that needs more is built on top of it, as below.
The proofs about `ControllerInputs` stand at the end of `DeserializerProofs`, those
about `PipelineBuild` at the end of `DemoSessionProofs`. Every invariant and every
action property that a passing run checks is proved.

* **Buffer.** Lemmas on sequences and on the iterator's steps: `Through(q)`, what
  was read followed by what is queued, is unchanged by every step of an iterator;
  `EndSeen` (an iterator past its read of `done` saw it true, an ended one left
  an empty queue) is kept; a step of an iterator is a `Deliver`, an `End` or a
  stutter of `Stream`.
* **Deserializer.** `FanoutInOrder`, that each queue has an initial part of what
  was sent, is not inductive: it needs the types, that the worker's place agrees
  with `next`, that `done` holds exactly when the worker has exited, and `EndSeen`.
  With them an ended iterator implies a worker that has exited, hence nothing in
  mid fan-out, hence `got[q] = sent` (`EndedIsComplete`). `Implementation` maps
  `Distribute` to `Send`, `Complete` to `Close`, the iterator's steps as above.
  `StatisticsSettle`: an iterator counts a get after `Queue.get` and under another
  lock, so `getCount` is the size of the set `CountedGets` of gets, by queue and
  number, that leaves out the last get of an iterator between the two; each count
  adds one member, and when every iterator has left, the set has all gets.
  No run checks the invariants behind these theorems any more, since the
  refinement says as much; they are stated for the reader of the proofs.
* **FeederStream.** The invariant relates `_active_count` to the number of
  feeders that have not left their finally clause, and says that at most one feeder
  is between its decrement to zero and the signal, and only when no other is
  active. From this follow `DoneIffAllExited` and, with `EndSeen` and
  `Through(0) = sent`, `EndedMeansDrained` and the refinement. `CourseInv` follows
  each source: `PutInv`, what was put of it is 1 to `pulled` in order, but for the
  item its feeder holds or has dropped for a stop; `TallyInv`, what its feeder has
  counted and where an error of it is; `OwnerInv`, that the owner looks at the
  errors behind the end of its iterator. `SourcesStayInOrder` and
  `ReturnedIsComplete` follow.
* **ControllerInputs.** `Reader(q)` is the thread that may take from `q` in the mode
  the handler has read. `InputsInv`: only the handler takes before the launch, and
  after it only `Reader(q)` (`ReaderInv`); a queue of a stage that is behind its
  thread is exhausted (`DrainedInv`), which stays so because the worker has exited;
  the two queues of a media payload hold the same until one of them is read
  (`FannedInv`). `StagesOfThread` and `DrainOfQueue` go through the plans of the
  four modes: every stage is about queues of its thread, and every queue that is
  not read once is drained by its reader. For those that are, `PollInv` counts what
  was routed, is waiting and was taken, and says when a poll has missed.
* **ControllerRequest.** `Inv` adds two facts to the types: `StageInv`, a client
  thread that failed stores its code before its output buffer is done, so once it
  is done the context has a code; and `PhaseInv`, what the handler has done at each
  place. They give `OkMeansSuccess` and `LaunchesAreAllowed`. `FlowInv` counts
  responses: yielded, queued and in the handler's hands make up what LipSync
  produced, and an exit of the loop without an exception found the queue of a
  finished stage empty (`OkIsComplete`). `ForbiddenEndsOutput`: from the routing of
  a forbidden chunk on, only a response whose check is behind it is still under way
  (`LastIsUnderWay`). None of them needs a join to wait for its thread.
* **DubbingCall.** Two flows meet in an OK call. `QueueInv`: what the handler has
  yielded and what waits in the queue are the chunks put so far, in order, and then
  the one sentinel, of the kind that `cause` calls for; so a handler that returned
  has yielded all chunks of a thread that did not fail. `FlowInv`: what was written
  to the file, what is in the buffer, the message put back and, at the places an
  index of them names, the audio still inbound, make up the audio of the client;
  with `CollectorInv` (a collector that exited without a cancellation left nothing
  inbound) the file of an OK call is whole. `FileInv` and `ThreadInv` say at which
  places the thread needs the input file and where an exception is on record; the
  file theorems follow. `HandlerIsNotLeftWaiting` is the safety half of `CallEnds`:
  in its loop the handler has not taken the sentinel, so the queue of a thread that
  has exited is not empty. `Implementation` maps a chunk that is put to `Send` and
  a sentinel to `Close`.
* **Recovery.** `OnceInv`: runs that do not overlap request the restart only from
  the place behind the write of `RESTARTING_HEAD`, and a run enters that place only
  when the recorded phase says that none was requested. `RunPosts` says, while a run
  redeploys, that what is on record is up, starting, counted as failed, still on the
  run's list, or lost without the record following; the writes of the record may
  fail, so it is about the record as it is (`PostedInv`). `RunRebuilds` (for
  `SuccessIsARebuild`) follows the address of the head from the restart to the
  cluster info and to each worker without a baked address, and says that the workers
  are as many as the pairs of a group and a number that the run has gone through
  (`Slotted`), which at the end are all of them. Both are about one run and what it
  has `seen` itself: whatever earlier runs have met with, a run that replaces
  everything does not inherit it.
* **ClusterLaunch.** `IdInv`: ids are never used twice. `LaunchInv`: the job asks for
  workers only after it has tried to fetch and write the address, and a file that was
  written then holds that address or nothing, whoever truncates it later.
  `ValidInv`: what a handler is about to allocate was found to fit on this very map,
  since nothing else changes the map while the handler is at work; from this
  `FitStep` has one case for each way a save ends: as it was meant to, not at all, or
  in an empty map (`AllocationsAreValid`).
* **DemoSession.** `UpInv` follows the messages from the page: the chunks under way
  are in order, with gaps where chunks were lost, and the end is behind them all; the
  configuration and the close may come anywhere. `InputInv` says that what is in the
  buffer and what is on the wire increase, that both are `Taken`, i.e. sent by the
  page and no longer under way, so that the next chunk is behind them, and that a
  session that buffers has written nothing. `OpensInOrder` and `GoesOnInOrder` are
  about the two ways of writing to the call (`InputComesInOrder`). `OutcomeInv` counts
  the video that was returned, is still to be read and is in the file, and says that
  the end of a call is its last message.
* **PipelineBuild.** An application is clean for a build when it is not there or was
  created after the build started. What is clean stays so for every build that is
  under way or has succeeded, whoever deletes or creates. `Dealt` says that all is
  clean but the applications the build has still to replace (`Awaited`) and those
  of the other mode it has still to look up (`Unvisited`); behind the last step of
  a plan both are empty. `PlanSteps` evaluates the three plans. `Positioned` keeps a
  build in the plan of the mode it was started with, although the user may save
  another one meanwhile.

Only model-checked: all liveness, as it rests on fairness and ENABLED, which the
prover does not handle (`ConsumersAreReleased`, `ReaderIsReleased`,
`StopReleasesFeeders`, `CallIsAnswered`, `ThreadsAreReleased`, `InputThreadsEnd`,
`CallEnds`, `RunsEnd`, `LaunchEnds`, `BuildsSettle`, `CallsEnd`, `CallIsReported`),
and the absence of deadlock. The type invariants of `ControllerInputs`
(`InputsAreTyped`) and `PipelineBuild` (`BuildsAreTyped`) are proved, and no run
lists them. The theorems of `Recovery` name the interference they exclude
(section 7).

## 7. What is left out

Data. Item values are model values, so `copy_func` and the conversions between
message types are not modelled; nor are argument checks, logging and the
backpressure delay of `FeederStream`. An exception in the middle of a fan-out (a
copy that fails) is not modelled. `client_request_id` is not modelled. In
`ControllerInputs` the services are healthy, and the outputs of the S2S and ASD
NIMs are external. In the cluster, capacity is counted in slots instead of CPU,
memory and GPUs; the head's start script, the node mapping and the read-only
endpoints are left out. The recovery's dry run changes nothing but the state file
and is left out. A worker that the admin adds or removes while a recovery rebuilds the
workers is left to `CmlApplications`; `Count` stands for the count a group was
defined with. In the demo, status messages are left out, and the preprocessing is
one step with two results.

Interference that the code does not survive, and that properties exclude by name.
In `Recovery` a property is about a run that has not `seen` it: `overlap`, another
run at work, which the test and the later write of the lock allow although
`recovery_state.py:7-8` promises a lock against it; `clobbered`, the rewrite of the
cluster info undone by a handler of the API that had read it before; `undeleted`, a
deletion of a worker, or the listing of them, that failed, which the job does not
notice; `died`, a head that died during the run; `unread`, a record that could not
be read. Workers whose launcher has an address `baked` in, and applications whose
loss is `unnoticed` by the record, are excepted one by one. All of this is modelled
and can happen in the runs; each is a hazard in `PROJECT.json`, and section 5 names
those that contradict the documentation. In `CmlApplications` nothing is excluded,
and so nothing is said about the map counting what exists: a handler that dies
between CML and the map, a write that fails, a worker that is lost or pruned, or a
recovery sets the two apart.

Not modelled, and why: the segmentizers and the sinks are sequential data
processing (the re-chunking sink is in the plan); the gRPC service base starts a
pool of processes and waits for each in turn, and shares no state afterwards; the
command-line clients, except for the batch runner, parse arguments and read files;
helpers, logging and authentication convert data; scripts, images, engines and
documentation have no state that outlives a call. The larger part of the lines the
map does not reach belongs to these: reports over measurements, tests, command
lines, start-up scripts, engines that build the arguments of external servers,
and components of the demo's page.

## 8. Plan

Done: the two services and what they are built of (`Stream`, `Buffer`,
`Deserializer`, `FeederStream`, `ControllerRequest`, `ControllerInputs`,
`DubbingApi`, `DubbingCall`), the operation of the cluster (`ServeDeployments`,
`Recovery`, `CmlApplications`, `ClusterLaunch`), the Launchpad (`PipelineApps`,
`PipelineBuild`), the demo (`DemoSession`), and the proofs of section 6. Left, in
this order:

1. `ClientWorker` with the batch runner: every job of a batch has a result.
2. `VideoSink` and the segmentizers: pure operators against reference definitions,
   and the re-chunking sink with a write that fails.
3. `client_request_id` in `ControllerInputs`, and the composition of
   `ControllerInputs` with `ControllerRequest` through the counters they share.
4. Proofs about the composition of point 3 and about the modules of points 1 and 2;
   safety that the liveness properties rest on, such as that no thread waits for
   a buffer that nobody will close any more.
