----------------------------- MODULE DubbingCall -----------------------------
(***************************************************************************)
(* One StreamSpeechToSpeech call.  Three threads work in it:               *)
(*   - the handler thread runs the generator infer of CambDubbingService   *)
(*     or ELDubbingService, which gathers the audio of the call in a       *)
(*     temporary file, starts the background thread and yields what that   *)
(*     thread puts in the queue, with keepalives in between                *)
(*     (s2s_service/service.py, camb_utils/dubbing.py, el_utils/dubbing.py)*)
(*   - the collector thread of download_input_audio_file moves the inbound *)
(*     messages to a buffer;                                               *)
(*   - the background thread is DubbingApi.                                *)
(* The client and the gRPC runtime are external.  The runtime drops the    *)
(* generator at the first yield after a cancellation, keeps the arguments  *)
(* of the last abort, and reports UNKNOWN for any other exception.         *)
(***************************************************************************)
EXTENDS DubbingApi

CONSTANT MaxMessages  \* bound on the messages of the client

ASSUME MessagesAssumption == MaxMessages \in Nat \ {0}

(* A request is a config, with languages that are supported or not, or the *)
(* n-th message with audio in it.                                          *)
Config(languages) == <<languages, 0>>
Audio(n) == <<"audio", n>>
AudioRequest  == {Audio(n) : n \in 1..MaxMessages}
ConfigRequest == {Config("supported"), Config("unsupported")}
Request       == ConfigRequest \cup AudioRequest

Handler  == {"first", "collect", "check", "drain", "failed", "abort", "ended"}
Outcome  == {None, "returned", "aborted", "raised", "dropped"}
Code     == {None, "OK", "INVALID_ARGUMENT", "INTERNAL", "UNKNOWN", "CANCELLED"}
Detail   == {None, "language", "collecting", "inputs", "dubbing", "streamback"}

VARIABLES
  client,     \* "open", "closed" (half-closed) or "cancelled"
  sent,       \* messages sent so far
  offered,    \* history: the audio among them
  inbound,    \* messages gRPC holds for the server
  replay,     \* the first message, if it has audio and is to be read again
  collector,  \* "off", "reading", "exited"
  inBuffer,   \* audio between the collector and the handler
  written,    \* audio in the input file
  handler,    \* where the handler thread is
  outcome,    \* how its generator ended
  code,       \* code of the last abort
  detail,     \* message of the last abort
  yielded,    \* chunks handed to gRPC
  status      \* what the client is told in the end

clientVars == <<client, sent, offered>>
inVars     == <<inbound, replay, collector, inBuffer, written>>
outcomeVars == <<outcome, code, detail, status>>
vars == <<backend, inputFile, apiVars, clientVars, inVars, handler, outcomeVars, yielded>>

(* The values the variables range over.                                    *)
TypeOK ==
  /\ ApiTypeOK
  /\ client \in {"open", "closed", "cancelled"}
  /\ sent \in 0..MaxMessages
  /\ offered \in Seq(AudioRequest)
  /\ inbound \in Seq(Request)
  /\ replay \in Seq(AudioRequest)
  /\ collector \in {"off", "reading", "exited"}
  /\ inBuffer \in Seq(AudioRequest)
  /\ written \in Seq(AudioRequest)
  /\ handler \in Handler
  /\ outcome \in Outcome
  /\ code \in Code
  /\ detail \in Detail
  /\ yielded \in Seq(1..MaxChunks)
  /\ status \in Code

Init ==
  /\ ApiInit
  /\ client = "open"
  /\ sent = 0
  /\ offered = <<>>
  /\ inbound = <<>>
  /\ replay = <<>>
  /\ collector = "off"
  /\ inBuffer = <<>>
  /\ written = <<>>
  /\ handler = "first"
  /\ outcome = None
  /\ code = None
  /\ detail = None
  /\ yielded = <<>>
  /\ status = None

-----------------------------------------------------------------------------
(* The client (external).                                                  *)

ClientSends ==
  /\ client = "open"
  /\ status = None
  /\ sent < MaxMessages
  /\ sent' = sent + 1
  /\ \/ \E m \in ConfigRequest : inbound' = Append(inbound, m) /\ UNCHANGED offered
     \/ inbound' = Append(inbound, Audio(sent')) /\ offered' = Append(offered, Audio(sent'))
  /\ UNCHANGED <<backend, inputFile, apiVars, client, replay, collector, inBuffer,
                 written, handler, outcomeVars, yielded>>

ClientCloses ==
  /\ client = "open"
  /\ client' = "closed"
  /\ UNCHANGED <<backend, inputFile, apiVars, sent, offered, inVars, handler, outcomeVars, yielded>>

ClientCancels ==
  /\ client # "cancelled"
  /\ status = None
  /\ client' = "cancelled"
  /\ UNCHANGED <<backend, inputFile, apiVars, sent, offered, inVars, handler, outcomeVars, yielded>>

(* The request iterator ends when the client half-closes, and raises when  *)
(* the call is cancelled or over.                                          *)
InboundOver == (client = "closed" /\ inbound = <<>>) \/ client = "cancelled" \/ status # None

-----------------------------------------------------------------------------
(* How the handler's generator ends.                                       *)

(* What the client is told; a cancelled call has its status already.       *)
Answer(c) == status' = IF client = "cancelled" THEN "CANCELLED" ELSE c

End(how, c) ==
  /\ handler' = "ended"
  /\ outcome' = how
  /\ Answer(c)

(* context.abort stores its arguments and raises.                          *)
Abort(c, why) ==
  /\ code' = c
  /\ detail' = why

-----------------------------------------------------------------------------
(* infer up to the first yield.                                            *)

(* next(request_iterator).  A config may name a language that is not       *)
(* supported; an audio message is put back for the collector.              *)
ReadFirst ==
  /\ handler = "first"
  /\ inbound # <<>>
  /\ client # "cancelled"
  /\ inbound' = Tail(inbound)
  /\ IF Head(inbound) = Config("unsupported")
       THEN /\ Abort("INVALID_ARGUMENT", "language")
            /\ End("aborted", "INVALID_ARGUMENT")
            /\ UNCHANGED <<inputFile, replay, collector>>
       ELSE /\ handler' = "collect"
            /\ replay' = IF Head(inbound) \in ConfigRequest THEN <<>> ELSE <<Head(inbound)>>
            /\ inputFile' = "wav"
            /\ collector' = "reading"
            /\ UNCHANGED outcomeVars
  /\ UNCHANGED <<backend, apiVars, clientVars, inBuffer, written, yielded>>

(* StopIteration in a generator becomes a RuntimeError, which leaves the   *)
(* servicer as UNKNOWN: its try statement covers only the creation of the  *)
(* generator.                                                              *)
NoFirstMessage ==
  /\ handler = "first"
  /\ InboundOver
  /\ End("raised", "UNKNOWN")
  /\ UNCHANGED <<backend, inputFile, apiVars, clientVars, inVars, code, detail, yielded>>

(* collect_requests: an error of the inbound stream is logged, and the     *)
(* buffer is closed as if the stream had ended.                            *)
Collect ==
  /\ collector = "reading"
  /\ \/ /\ replay # <<>>
        /\ inBuffer' = Append(inBuffer, Head(replay))
        /\ replay' = <<>>
        /\ UNCHANGED <<inbound, collector>>
     \/ /\ replay = <<>>
        /\ inbound # <<>>
        /\ client # "cancelled"
        /\ inbound' = Tail(inbound)
        /\ inBuffer' = IF Head(inbound) \in ConfigRequest THEN inBuffer ELSE Append(inBuffer, Head(inbound))
        /\ UNCHANGED <<replay, collector>>
     \/ /\ replay = <<>>
        /\ InboundOver
        /\ collector' = "exited"
        /\ UNCHANGED <<inbound, replay, inBuffer>>
  /\ UNCHANGED <<backend, inputFile, apiVars, clientVars, written, handler, outcomeVars, yielded>>

(* download_audio_file_from_iterator, reading the collector's buffer.      *)
WriteInput ==
  /\ handler = "collect"
  /\ IF inBuffer # <<>>
       THEN /\ written' = Append(written, Head(inBuffer))
            /\ inBuffer' = Tail(inBuffer)
            /\ UNCHANGED handler
       ELSE /\ collector = "exited"
            /\ handler' = "check"
            /\ UNCHANGED <<inBuffer, written>>
  /\ UNCHANGED <<backend, inputFile, apiVars, clientVars, inbound, replay, collector, outcomeVars, yielded>>

(* Writing fails: the file is removed, the call aborted, and the exception *)
(* of abort is caught by the caller, which aborts again.                   *)
WriteInputFails ==
  /\ handler = "collect"
  /\ inBuffer # <<>>
  /\ inputFile' = "absent"
  /\ Abort("INTERNAL", "inputs")
  /\ End("aborted", "INTERNAL")
  /\ UNCHANGED <<backend, apiVars, clientVars, inVars, yielded>>

(* A file that does not begin with RIFF, as an empty one, is taken for     *)
(* MP3.                                                                    *)
CheckFormat ==
  /\ handler = "check"
  /\ \/ inputFile' = "mp3"
     \/ written # <<>> /\ inputFile' = "wav"
  /\ handler' = "drain"
  /\ StartThread
  /\ UNCHANGED <<backend, clientVars, inVars, outcomeVars, yielded>>

(* Renaming the file, or reading or rewriting its WAV header, raises; no   *)
(* handler of that exception removes the file.                             *)
CheckFormatFails ==
  /\ handler = "check"
  /\ Abort("INTERNAL", "inputs")
  /\ End("aborted", "INTERNAL")
  /\ UNCHANGED <<backend, inputFile, apiVars, clientVars, inVars, yielded>>

-----------------------------------------------------------------------------
(* The loop that yields: _drain_queue, and the loop of the ElevenLabs _impl*)

(* A generator whose call is cancelled is dropped at its next yield:       *)
(* GeneratorExit passes every except clause.                               *)
YieldOrDrop ==
  IF client = "cancelled" THEN End("dropped", "CANCELLED") ELSE UNCHANGED <<handler, outcome, status>>

YieldChunk ==
  /\ handler = "drain"
  /\ audioQueue # <<>>
  /\ Head(audioQueue) \notin {Completed, Error}
  /\ audioQueue' = Tail(audioQueue)
  /\ yielded' = Append(yielded, Head(audioQueue)[2])
  /\ YieldOrDrop
  /\ UNCHANGED <<backend, inputFile, thread, cause, pollVars, fileVars, enqueued,
                 clientVars, inVars, code, detail>>

(* Fault: the input file is removed when the generator is dropped.         *)
KeepaliveRemovesInput ==
  /\ handler = "drain"
  /\ audioQueue = <<>>
  /\ YieldOrDrop
  /\ inputFile' = IF client = "cancelled" THEN "absent" ELSE inputFile
  /\ UNCHANGED <<backend, apiVars, clientVars, inVars, code, detail, yielded>>

(* The queue's get times out and a keepalive is yielded.  The input file   *)
(* stays when this drops the generator.                                    *)
Keepalive ==
  /\ handler = "drain"
  /\ audioQueue = <<>>
  /\ YieldOrDrop
  /\ UNCHANGED <<backend, inputFile, apiVars, clientVars, inVars, code, detail, yielded>>

TakeSentinel(sentinel) ==
  /\ handler = "drain"
  /\ audioQueue # <<>>
  /\ Head(audioQueue) = sentinel
  /\ audioQueue' = Tail(audioQueue)
  /\ UNCHANGED <<backend, thread, cause, pollVars, fileVars, enqueued, clientVars, inVars, yielded>>

DubCompleted ==
  /\ TakeSentinel(Completed)
  /\ inputFile' = "absent"
  /\ End("returned", "OK")
  /\ UNCHANGED <<code, detail>>

(* _drain_queue aborts, and infer catches the exception of abort, removes  *)
(* the file and aborts again with a message of its own.                    *)
CambFailed ==
  /\ backend = "camb"
  /\ TakeSentinel(Error)
  /\ inputFile' = "absent"
  /\ Abort("INTERNAL", "streamback")
  /\ End("aborted", "INTERNAL")

(* Fault: the error path leaves the input file.                            *)
ElevenLabsFailedKeepsInput ==
  /\ backend = "el"
  /\ TakeSentinel(Error)
  /\ IF client = "cancelled"
       THEN End("raised", "UNKNOWN") /\ UNCHANGED <<code, detail>>
       ELSE Abort("INTERNAL", "dubbing") /\ End("aborted", "INTERNAL")
  /\ UNCHANGED inputFile

(* _impl raises; infer removes the file and aborts, or lets the exception  *)
(* go when the call is not active any more.                                *)
ElevenLabsFailed ==
  /\ backend = "el"
  /\ TakeSentinel(Error)
  /\ inputFile' = "absent"
  /\ IF client = "cancelled"
       THEN End("raised", "UNKNOWN") /\ UNCHANGED <<code, detail>>
       ELSE Abort("INTERNAL", "dubbing") /\ End("aborted", "INTERNAL")

-----------------------------------------------------------------------------
HandlerStep ==
  \/ ReadFirst \/ NoFirstMessage
  \/ WriteInput \/ WriteInputFails \/ CheckFormat \/ CheckFormatFails
  \/ YieldChunk \/ Keepalive \/ DubCompleted \/ CambFailed \/ ElevenLabsFailed

BackgroundStep == ThreadStep /\ UNCHANGED <<backend, inputFile, clientVars, inVars, handler, outcomeVars, yielded>>

(* Every thread of the call has ended.                                     *)
Finished ==
  /\ handler = "ended"
  /\ collector # "reading"
  /\ thread \in {"idle", "exited"}
  /\ UNCHANGED vars

Next ==
  \/ ClientSends \/ ClientCloses \/ ClientCancels
  \/ HandlerStep \/ Collect \/ BackgroundStep
  \/ Finished

(* Threads are scheduled, and a request to the web service is answered or  *)
(* fails: each has a timeout.  Nothing is assumed of the client.           *)
Fairness ==
  /\ WF_vars(HandlerStep)
  /\ WF_vars(Collect)
  /\ WF_vars(BackgroundStep)

Spec == Init /\ [][Next]_vars /\ Fairness

-----------------------------------------------------------------------------
(* OK means that all the audio of the client was dubbed, and that every    *)
(* chunk of the dubbed file was handed out, in order: a truncated inbound  *)
(* stream is never taken for a complete one by a call that succeeds.       *)
OkMeansWholeDub ==
  status = "OK" =>
    /\ written = offered
    /\ cause = None
    /\ yielded = [i \in 1..chunks |-> i]

(* The input file is there as long as the background thread may still have *)
(* to open it, whatever became of the call.                                *)
InputOutlivesUpload ==
  (thread \in {"uploadUrl", "put", "create"} \/ (backend = "el" /\ thread = "tempFile"))
    => inputFile # "absent"

(* What a call leaves on the disk: the input file only when it was dropped *)
(* by a cancellation or when the file could not be read as audio; the      *)
(* dubbed file only when the thread failed before it knew its path.        *)
OnlyTheseFilesAreLeft ==
  /\ handler = "ended" /\ inputFile # "absent" =>
       outcome = "dropped" \/ (thread = "idle" /\ detail = "inputs")
  /\ thread = "exited" /\ mp3 = "present" => cause # None /\ ~mp3Known

(* A call whose client has half-closed or cancelled ends, and so does its  *)
(* background thread, within the polls it is allowed.                      *)
CallEnds == client # "open" ~> handler = "ended" /\ thread \in {"idle", "exited"}

(* Towards the handler the queue is a stream: written once, read in order, *)
(* and taken for ended only when everything in it was read.                *)
Queue == INSTANCE Stream WITH
  Item     <- 1..MaxChunks,
  Reader   <- {"handler"},
  sent     <- [i \in 1..enqueued |-> i],
  closed   <- thread \in {"cleanup", "exited"},
  received <- [r \in {"handler"} |-> yielded],
  ended    <- IF outcome = "returned" \/ (outcome \in {"aborted", "raised"} /\ thread # "idle")
                THEN {"handler"} ELSE {}

ImplementsStream == Queue!Spec
=============================================================================
