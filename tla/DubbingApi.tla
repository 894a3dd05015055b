------------------------------ MODULE DubbingApi ------------------------------
(***************************************************************************)
(* The background thread of a speech-to-speech call, which has the audio   *)
(* file of the call dubbed by a web service and puts the dubbed audio in   *)
(* the call's queue:                                                       *)
(*   - CambAI: _run_camb_pipeline (s2s_service/camb_utils/dubbing.py) and  *)
(*     the functions of s2s_service/camb_utils/api.py;                     *)
(*   - ElevenLabs: process_audio in ELDubbingService._impl and the         *)
(*     functions before it (s2s_service/el_utils/dubbing.py).              *)
(* The web services are external: a request of theirs may be answered in   *)
(* any way the code distinguishes, or raise.  The handler thread that      *)
(* starts this one and reads its queue is in DubbingCall.                  *)
(***************************************************************************)
EXTENDS Naturals, Sequences

CONSTANTS MaxAttempts,  \* S2S_CAMB_DUBBING_MAX_ATTEMPTS, S2S_EL_DUBBING_MAX_ATTEMPTS
          MaxChunks     \* bound on the 8 KB chunks of a dubbed file

ASSUME AttemptsAssumption == MaxAttempts \in Nat \ {0}
ASSUME ChunksAssumption == MaxChunks \in Nat

DnsRetryAttempts == 3
None == "none"

Backend   == {"camb", "el"}
InputFile == {"absent", "wav", "mp3"}
Place     == {"idle", "uploadUrl", "put", "confirm", "submit", "create", "poll",
              "altFormat", "altPoll", "altRefresh", "tempFile", "download",
              "enqueue", "remove", "complete", "error", "cleanup", "exited"}
Cause     == {None, "not_found", "request", "rejected", "timeout"}

(* What the queue holds: SpeechToSpeechResponse chunks and two sentinels.  *)
Chunk(n)  == <<"audio", n>>
Completed == <<"completed", 0>>
Error     == <<"error", 0>>
Message   == {Chunk(n) : n \in 1..MaxChunks} \cup {Completed, Error}

VARIABLES
  backend,     \* the back end the container was started with
  inputFile,   \* the temporary file with the audio of the call
  thread,      \* where the background thread is
  attempt,     \* polls made of the task at hand
  dnsRetry,    \* connection errors of the poll at hand
  task,        \* the dubbing job: None, "running", "done"
  mp3,         \* the temporary file for the dubbed audio: "none", "present", "removed"
  mp3Known,    \* dubbed_audio_path names that file
  chunks,      \* number of chunks of the dubbed file
  enqueued,    \* chunks put in the queue so far
  cause,       \* the exception that ends the thread's work, or None
  audioQueue   \* the queue between this thread and the handler

pollVars == <<attempt, dnsRetry, task>>
fileVars == <<mp3, mp3Known, chunks>>
outVars  == <<enqueued, audioQueue>>
apiVars  == <<thread, cause, pollVars, fileVars, outVars>>

ApiTypeOK ==
  /\ backend \in Backend
  /\ inputFile \in InputFile
  /\ thread \in Place
  /\ attempt \in 0..MaxAttempts
  /\ dnsRetry \in 0..DnsRetryAttempts
  /\ task \in {None, "running", "done"}
  /\ mp3 \in {"none", "present", "removed"}
  /\ mp3Known \in BOOLEAN
  /\ chunks \in 0..MaxChunks
  /\ enqueued \in 0..MaxChunks
  /\ cause \in Cause
  /\ audioQueue \in Seq(Message)

ApiInit ==
  /\ backend \in Backend
  /\ inputFile = "absent"
  /\ thread = "idle"
  /\ attempt = 0
  /\ dnsRetry = 0
  /\ task = None
  /\ mp3 = "none"
  /\ mp3Known = FALSE
  /\ chunks = 0
  /\ enqueued = 0
  /\ cause = None
  /\ audioQueue = <<>>

(* audio_thread.start(): CambAI uploads first, ElevenLabs makes the file   *)
(* for the answer first, because its create_dub_from_file is a generator   *)
(* that runs only when it is read.                                         *)
StartThread ==
  /\ thread = "idle"
  /\ thread' = IF backend = "camb" THEN "uploadUrl" ELSE "tempFile"
  /\ UNCHANGED <<cause, pollVars, fileVars, outVars>>

-----------------------------------------------------------------------------
(* What the thread's steps have in common.                                 *)

Goto(place) == thread' = place /\ UNCHANGED cause

(* An exception unwinds to the except clause of the thread's function.     *)
Raise(why) == thread' = "error" /\ cause' = why

(* The places at which the thread waits for an answer of the web service.  *)
Waiting == {"uploadUrl", "put", "confirm", "submit", "create", "poll",
            "altFormat", "altPoll", "altRefresh", "download"}

(* A request that raises, is refused (raise_for_status), or is answered    *)
(* without the field the code needs.  Only the polls of                    *)
(* wait_for_completion tell a connection error from the rest.              *)
RequestRaises ==
  /\ thread \in Waiting
  /\ Raise("request")
  /\ UNCHANGED <<pollVars, fileVars, outVars>>

(* The job exists from here on, and is polled for the first time.          *)
JobCreated ==
  /\ Goto("poll")
  /\ task' = "running"
  /\ attempt' = 0
  /\ dnsRetry' = 0
  /\ UNCHANGED <<fileVars, outVars>>

(* A poll is used up; after the last one the loop ends with an error.      *)
CountAttempt ==
  /\ attempt' = attempt + 1
  /\ dnsRetry' = 0
  /\ IF attempt + 1 < MaxAttempts THEN UNCHANGED <<thread, cause>> ELSE Raise("timeout")
  /\ UNCHANGED <<task, fileVars, outVars>>

Rejected == Raise("rejected") /\ UNCHANGED <<pollVars, fileVars, outVars>>

Dubbed(next) ==
  /\ Goto(next)
  /\ task' = "done"
  /\ UNCHANGED <<attempt, dnsRetry, fileVars, outVars>>

-----------------------------------------------------------------------------
(* CambAI.                                                                 *)

(* upload_local_file looks for the file first.                             *)
RequestUploadUrl ==
  /\ thread = "uploadUrl"
  /\ IF inputFile = "absent" THEN Raise("not_found") ELSE Goto("put")
  /\ UNCHANGED <<pollVars, fileVars, outVars>>

UploadFileToPresignedUrl ==
  /\ thread = "put"
  /\ IF inputFile = "absent" THEN Raise("not_found") ELSE Goto("confirm")
  /\ UNCHANGED <<pollVars, fileVars, outVars>>

ConfirmUpload ==
  /\ thread = "confirm"
  /\ Goto("submit")
  /\ UNCHANGED <<pollVars, fileVars, outVars>>

SubmitDubTask == thread = "submit" /\ JobCreated

(* A connection error is tried again at once; when the third try of a poll *)
(* failed too, the poll counts as an attempt.                              *)
Unreachable ==
  IF dnsRetry + 1 < DnsRetryAttempts
    THEN dnsRetry' = dnsRetry + 1 /\ UNCHANGED <<thread, cause, attempt, task, fileVars, outVars>>
    ELSE CountAttempt

WaitForCompletion ==
  /\ thread = "poll"
  /\ backend = "camb"
  /\ CountAttempt \/ Unreachable \/ Rejected \/ Dubbed("altFormat")

(* request_dub_alt_format, from get_alt_format_output_audio_url: the       *)
(* answer has the output URL or a task to wait for.                        *)
RequestDubAltFormat ==
  /\ thread = "altFormat"
  /\ \/ Goto("tempFile") /\ UNCHANGED attempt
     \/ Goto("altPoll") /\ attempt' = 0
  /\ UNCHANGED <<dnsRetry, task, fileVars, outVars>>

(* A task that ends without an output URL is asked for once more.          *)
WaitForAltFormatCompletion ==
  /\ thread = "altPoll"
  /\ CountAttempt \/ Rejected \/ Dubbed("tempFile") \/ Dubbed("altRefresh")

RefreshAltFormat ==
  /\ thread = "altRefresh"
  /\ Goto("tempFile")
  /\ UNCHANGED <<pollVars, fileVars, outVars>>

CambStep ==
  \/ RequestUploadUrl \/ UploadFileToPresignedUrl \/ ConfirmUpload \/ SubmitDubTask
  \/ WaitForCompletion
  \/ RequestDubAltFormat \/ WaitForAltFormatCompletion \/ RefreshAltFormat

-----------------------------------------------------------------------------
(* ElevenLabs.                                                             *)

CreateDubFromFile ==
  /\ thread = "create"
  /\ IF inputFile = "absent"
       THEN Raise("not_found") /\ UNCHANGED <<pollVars, fileVars, outVars>>
       ELSE JobCreated

(* A status the code does not know is taken for progress.                  *)
WaitForDubbingCompletion ==
  /\ thread = "poll"
  /\ backend = "el"
  /\ CountAttempt \/ Rejected \/ Dubbed("download")

ElevenLabsStep == CreateDubFromFile \/ WaitForDubbingCompletion

-----------------------------------------------------------------------------
(* The rest of the thread's function.                                      *)

CreateTempFile ==
  /\ thread = "tempFile"
  /\ mp3' = "present"
  /\ Goto(IF backend = "camb" THEN "download" ELSE "create")
  /\ UNCHANGED <<mp3Known, chunks, pollVars, outVars>>

(* Fault: the completion is signalled as soon as the file is complete.     *)
DownloadSignalsCompletion ==
  /\ thread = "download"
  /\ chunks' \in 0..MaxChunks
  /\ mp3Known' = TRUE
  /\ Goto("enqueue")
  /\ audioQueue' = Append(audioQueue, Completed)
  /\ UNCHANGED <<mp3, enqueued, pollVars>>

(* dubbed_audio_path is assigned only when the file is complete.           *)
Download ==
  /\ thread = "download"
  /\ chunks' \in 0..MaxChunks
  /\ mp3Known' = TRUE
  /\ Goto("enqueue")
  /\ UNCHANGED <<mp3, pollVars, outVars>>

EnqueueAudioChunks ==
  /\ thread = "enqueue"
  /\ IF enqueued < chunks
       THEN /\ enqueued' = enqueued + 1
            /\ audioQueue' = Append(audioQueue, Chunk(enqueued + 1))
            /\ UNCHANGED <<thread, cause>>
       ELSE Goto("remove") /\ UNCHANGED outVars
  /\ UNCHANGED <<pollVars, fileVars>>

RemoveDubbedFile ==
  /\ thread = "remove"
  /\ mp3' = "removed"
  /\ Goto("complete")
  /\ UNCHANGED <<mp3Known, chunks, pollVars, outVars>>

(* Reading the dubbed file fails.                                          *)
LocalFileError ==
  /\ thread = "enqueue"
  /\ Raise("request")
  /\ UNCHANGED <<pollVars, fileVars, outVars>>

SignalCompletion ==
  /\ thread = "complete"
  /\ audioQueue' = Append(audioQueue, Completed)
  /\ Goto("exited")
  /\ UNCHANGED <<enqueued, pollVars, fileVars>>

(* Fault: the exception is logged and nobody is told.                      *)
LogErrorOnly ==
  /\ thread = "error"
  /\ Goto("cleanup")
  /\ UNCHANGED <<pollVars, fileVars, outVars>>

SignalError ==
  /\ thread = "error"
  /\ audioQueue' = Append(audioQueue, Error)
  /\ Goto("cleanup")
  /\ UNCHANGED <<enqueued, pollVars, fileVars>>

(* The finally clause removes the dubbed file if its path is known.        *)
CleanUp ==
  /\ thread = "cleanup"
  /\ mp3' = IF mp3Known /\ mp3 = "present" THEN "removed" ELSE mp3
  /\ Goto("exited")
  /\ UNCHANGED <<mp3Known, chunks, pollVars, outVars>>

ThreadStep ==
  \/ CambStep \/ ElevenLabsStep \/ RequestRaises
  \/ CreateTempFile \/ Download \/ EnqueueAudioChunks
  \/ RemoveDubbedFile \/ LocalFileError
  \/ SignalCompletion \/ SignalError \/ CleanUp
=============================================================================
