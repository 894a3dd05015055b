-------------------------- MODULE DubbingCallProofs --------------------------
(***************************************************************************)
(* DubbingCall, for any bound on the messages, the polls and the chunks:   *)
(* the types, what OK means, which files the call needs and leaves, and    *)
(* that the queue between its two threads is a stream.                     *)
(***************************************************************************)
EXTENDS DubbingCall, SequenceTheorems, TLAPS

-----------------------------------------------------------------------------
(* The inductive invariant.                                                *)

(* The background thread: polls are left, an exception is on record where  *)
(* it is handled, and nothing is in the queue before the download.         *)
ThreadInv ==
  /\ thread \in {"poll", "altPoll"} => attempt < MaxAttempts
  /\ thread \in {"error", "cleanup"} => cause # None
  /\ cause # None => thread \in {"error", "cleanup", "exited"}
  /\ enqueued <= chunks
  /\ enqueued # 0 => thread \in {"enqueue", "remove", "complete", "error", "cleanup", "exited"}
  /\ thread \in {"remove", "complete", "exited"} /\ cause = None => enqueued = chunks

(* The temporary files.                                                    *)
FileInv ==
  /\ handler \in {"collect", "check"} => inputFile = "wav"
  /\ handler = "first" => inputFile = "absent"
  /\ thread \notin {"idle", "cleanup", "exited"} => inputFile # "absent"
  /\ thread = "complete" => mp3 = "removed"
  /\ thread = "exited" /\ mp3 = "present" => cause # None /\ ~mp3Known
  /\ handler = "ended" /\ inputFile # "absent" =>
       outcome = "dropped" \/ (thread = "idle" /\ detail = "inputs")

(* The handler has its outcome when it has ended, and starts the thread    *)
(* before it reads the queue.                                              *)
HandlerInv ==
  /\ handler \in {"first", "collect", "check", "drain", "ended"}
  /\ handler # "ended" => outcome = None /\ status = None
  /\ handler = "ended" => outcome # None /\ status # None
  /\ handler \in {"first", "collect", "check"} => thread = "idle"
  /\ handler = "drain" => thread # "idle"

(* The handler has taken the sentinel.                                     *)
SentinelTaken == outcome = "returned" \/ (outcome \in {"aborted", "raised"} /\ thread # "idle")

Signalled == thread \in {"cleanup", "exited"}

(* What the handler has yielded and what waits in the queue are the chunks *)
(* put so far, in order, and then the sentinel.                            *)
QueueInv ==
  /\ \A i \in 1 .. Len(yielded) : yielded[i] = i
  /\ Len(yielded) <= enqueued
  /\ Len(yielded) + Len(audioQueue) = enqueued + (IF Signalled /\ ~SentinelTaken THEN 1 ELSE 0)
  /\ SentinelTaken => Signalled /\ Len(yielded) = enqueued
  /\ outcome = "returned" => thread = "exited" /\ cause = None
  /\ \A i \in 1 .. Len(audioQueue) :
       audioQueue[i] = IF Len(yielded) + i <= enqueued THEN Chunk(Len(yielded) + i)
                       ELSE IF cause = None THEN Completed ELSE Error

(* The audio of the client, in order: written to the file, in the buffer,  *)
(* put back, and, at the places that an index of them names, inbound.      *)
Received == Len(written) + Len(inBuffer) + Len(replay)

AudioIndex(index, received, queue, all) ==
  /\ index \in [0 .. Len(queue) -> 0 .. Len(all)]
  /\ index[0] = received
  /\ index[Len(queue)] = Len(all)
  /\ \A i \in 1 .. Len(queue) :
       IF queue[i] \in ConfigRequest
         THEN index[i] = index[i - 1]
         ELSE index[i] = index[i - 1] + 1 /\ queue[i] = all[index[i]]

Indexed(received, queue, all) == \E index : AudioIndex(index, received, queue, all)

FlowInv ==
  /\ \A i \in 1 .. Len(written) : written[i] = offered[i]
  /\ \A i \in 1 .. Len(inBuffer) : inBuffer[i] = offered[Len(written) + i]
  /\ \A i \in 1 .. Len(replay) : replay[i] = offered[Len(written) + Len(inBuffer) + i]
  /\ Indexed(Received, inbound, offered)

(* Who has read how much.                                                  *)
CollectorInv ==
  /\ handler = "first" => collector = "off" /\ written = <<>> /\ inBuffer = <<>> /\ replay = <<>>
  /\ collector = "off" => replay = <<>>
  /\ Len(replay) <= 1
  /\ collector = "exited" =>
       /\ replay = <<>>
       /\ client = "cancelled" \/ status # None \/ (client = "closed" /\ inbound = <<>>)
  /\ handler \in {"check", "drain"} => collector = "exited" /\ inBuffer = <<>>
  /\ status = "OK" => outcome = "returned" /\ written = offered

Inv == TypeOK /\ ThreadInv /\ FileInv /\ HandlerInv /\ QueueInv /\ FlowInv /\ CollectorInv

-----------------------------------------------------------------------------
(* A call starts with nothing received.                                    *)
LEMMA InitInv == Init => Inv
PROOF
  <1> SUFFICES ASSUME Init PROVE Inv
    OBVIOUS
  <1> USE DEF Init, ApiInit
  <1>1. TypeOK
    <2>1. audioQueue \in Seq(Message)
      OBVIOUS
    <2>2. /\ attempt \in 0 .. MaxAttempts /\ dnsRetry \in 0 .. DnsRetryAttempts
          /\ chunks \in 0 .. MaxChunks /\ enqueued \in 0 .. MaxChunks
      BY AttemptsAssumption, ChunksAssumption DEF DnsRetryAttempts
    <2>3. ApiTypeOK
      BY <2>1, <2>2 DEF ApiTypeOK, Place, Cause, InputFile, None
    <2> QED
      BY <2>3, MessagesAssumption DEF TypeOK, Handler, Outcome, Code, Detail, None
  <1>2. ThreadInv /\ FileInv /\ HandlerInv
    BY ChunksAssumption DEF ThreadInv, FileInv, HandlerInv, None
  <1>3. QueueInv
    BY DEF QueueInv, SentinelTaken, Signalled, None
  <1>4. FlowInv
    <2> DEFINE index == [i \in 0 .. 0 |-> 0]
    <2>1. Len(inbound) = 0 /\ Len(offered) = 0 /\ Received = 0
      BY DEF Received
    <2>2. index \in [0 .. 0 -> 0 .. 0] /\ index[0] = 0
      OBVIOUS
    <2> HIDE DEF index
    <2>3. AudioIndex(index, Received, inbound, offered)
      BY <2>1, <2>2 DEF AudioIndex
    <2> QED BY <2>1, <2>3 DEF FlowInv, Indexed
  <1>5. CollectorInv
    BY DEF CollectorInv, None
  <1> QED BY <1>1, <1>2, <1>3, <1>4, <1>5 DEF Inv

-----------------------------------------------------------------------------
(* The steps of the background thread.                                     *)

(* They keep the types.                                                    *)
LEMMA ThreadKeepsType ==
  ASSUME Inv, BackgroundStep
  PROVE  TypeOK'
PROOF
  <1> SUFFICES ASSUME ThreadStep, UNCHANGED <<backend, inputFile, clientVars, inVars, handler, outcomeVars, yielded>>
               PROVE  ApiTypeOK'
    BY DEF BackgroundStep, Inv, TypeOK, clientVars, inVars, outcomeVars
  <1>0. ApiTypeOK /\ ThreadInv
    BY DEF Inv, TypeOK
  <1> USE <1>0, AttemptsAssumption, ChunksAssumption
      DEF ApiTypeOK, ThreadInv, Place, Cause, pollVars, fileVars, outVars, Goto, Raise,
          DnsRetryAttempts, None
  <1>1. CASE \/ RequestUploadUrl \/ UploadFileToPresignedUrl \/ ConfirmUpload \/ RefreshAltFormat
             \/ RequestDubAltFormat \/ RequestRaises
    BY <1>1 DEF RequestUploadUrl, UploadFileToPresignedUrl, ConfirmUpload, RefreshAltFormat,
                RequestDubAltFormat, RequestRaises
  <1>2. CASE SubmitDubTask \/ CreateDubFromFile
    BY <1>2 DEF SubmitDubTask, CreateDubFromFile, JobCreated
  <1>3. CASE WaitForCompletion \/ WaitForAltFormatCompletion \/ WaitForDubbingCompletion
    <2>1. attempt < MaxAttempts
      BY <1>3 DEF WaitForCompletion, WaitForAltFormatCompletion, WaitForDubbingCompletion
    <2> QED
      BY <1>3, <2>1 DEF WaitForCompletion, WaitForAltFormatCompletion, WaitForDubbingCompletion,
                        CountAttempt, Unreachable, Rejected, Dubbed
  <1>4. CASE CreateTempFile \/ Download \/ RemoveDubbedFile \/ LocalFileError \/ CleanUp
    BY <1>4 DEF CreateTempFile, Download, RemoveDubbedFile, LocalFileError, CleanUp
  <1>5. CASE EnqueueAudioChunks
    <2>1. CASE enqueued < chunks
      <3>1. enqueued + 1 \in 1 .. MaxChunks
        BY <2>1
      <3>2. Chunk(enqueued + 1) \in Message
        BY <3>1 DEF Message
      <3> QED BY <1>5, <2>1, <3>1, <3>2 DEF EnqueueAudioChunks
    <2>2. CASE ~(enqueued < chunks)
      BY <1>5, <2>2 DEF EnqueueAudioChunks
    <2> QED BY <2>1, <2>2
  <1>6. CASE SignalCompletion \/ SignalError
    <2>1. Completed \in Message /\ Error \in Message
      BY DEF Message
    <2>2. CASE SignalCompletion
      BY <2>1, <2>2 DEF SignalCompletion
    <2>3. CASE SignalError
      BY <2>1, <2>3 DEF SignalError
    <2> QED BY <1>6, <2>2, <2>3
  <1> QED
    BY <1>1, <1>2, <1>3, <1>4, <1>5, <1>6 DEF ThreadStep, CambStep, ElevenLabsStep

(* They keep the facts about the thread itself and its files.              *)
LEMMA ThreadKeepsThreadInv ==
  ASSUME Inv, BackgroundStep
  PROVE  ThreadInv' /\ FileInv'
PROOF
  <1> SUFFICES ASSUME ThreadStep, UNCHANGED <<inputFile, handler, outcome, detail>>
               PROVE  ThreadInv' /\ FileInv'
    BY DEF BackgroundStep, outcomeVars
  <1>0. ApiTypeOK /\ ThreadInv /\ FileInv
    BY DEF Inv, TypeOK
  <1> USE <1>0, AttemptsAssumption, ChunksAssumption
      DEF ApiTypeOK, ThreadInv, FileInv, Place, Cause, pollVars, fileVars, outVars, Goto, Raise, None
  <1>1. CASE \/ RequestUploadUrl \/ UploadFileToPresignedUrl \/ ConfirmUpload \/ RefreshAltFormat
             \/ RequestDubAltFormat \/ RequestRaises
    BY <1>1 DEF RequestUploadUrl, UploadFileToPresignedUrl, ConfirmUpload, RefreshAltFormat,
                RequestDubAltFormat, RequestRaises, Waiting
  <1>2. CASE SubmitDubTask \/ CreateDubFromFile
    BY <1>2 DEF SubmitDubTask, CreateDubFromFile, JobCreated
  <1>3. CASE WaitForCompletion \/ WaitForAltFormatCompletion \/ WaitForDubbingCompletion
    BY <1>3 DEF WaitForCompletion, WaitForAltFormatCompletion, WaitForDubbingCompletion,
                CountAttempt, Unreachable, Rejected, Dubbed
  <1>4. CASE CreateTempFile \/ Download \/ RemoveDubbedFile \/ LocalFileError \/ CleanUp
    BY <1>4 DEF CreateTempFile, Download, RemoveDubbedFile, LocalFileError, CleanUp
  <1>5. CASE EnqueueAudioChunks \/ SignalCompletion \/ SignalError
    BY <1>5 DEF EnqueueAudioChunks, SignalCompletion, SignalError
  <1> QED
    BY <1>1, <1>2, <1>3, <1>4, <1>5 DEF ThreadStep, CambStep, ElevenLabsStep

(* They leave what the other threads write, and do not start again.        *)
LEMMA ThreadKeepsHandlerInv ==
  ASSUME Inv, BackgroundStep
  PROVE  HandlerInv' /\ FlowInv' /\ CollectorInv'
PROOF
  <1>1. thread # "idle" /\ thread' # "idle"
    <2> USE DEF Goto, Raise, CountAttempt, Unreachable, Rejected, Dubbed, JobCreated, Waiting
    <2> QED
      BY DEF BackgroundStep, ThreadStep, CambStep, ElevenLabsStep, RequestUploadUrl,
             UploadFileToPresignedUrl, ConfirmUpload, RefreshAltFormat, RequestDubAltFormat,
             RequestRaises, SubmitDubTask, CreateDubFromFile, WaitForCompletion,
             WaitForAltFormatCompletion, WaitForDubbingCompletion, CreateTempFile, Download,
             RemoveDubbedFile, LocalFileError, CleanUp, EnqueueAudioChunks, SignalCompletion,
             SignalError
  <1>2. UNCHANGED <<backend, inputFile, clientVars, inVars, handler, outcomeVars, yielded>>
    BY DEF BackgroundStep
  <1> USE <1>2 DEF clientVars, inVars, outcomeVars
  <1>3. HandlerInv'
    BY <1>1 DEF Inv, HandlerInv
  <1>4. FlowInv'
    BY DEF Inv, FlowInv, Received
  <1>5. CollectorInv'
    BY DEF Inv, CollectorInv
  <1> QED BY <1>3, <1>4, <1>5

(* They append to the queue in order, and the sentinel last.               *)
LEMMA ThreadKeepsQueueInv ==
  ASSUME Inv, BackgroundStep
  PROVE  QueueInv'
PROOF
  <1>1. /\ audioQueue \in Seq(Message) /\ enqueued \in Nat /\ chunks \in Nat
        /\ yielded \in Seq(1 .. MaxChunks)
        /\ QueueInv /\ ThreadInv
    BY ChunksAssumption DEF Inv, TypeOK, ApiTypeOK
  <1>2. UNCHANGED <<yielded, outcome>> /\ ThreadStep
    BY DEF BackgroundStep, outcomeVars
  <1> USE <1>1, <1>2 DEF QueueInv, SentinelTaken, Signalled, outVars, Goto, Raise
  <1>3. CASE EnqueueAudioChunks
    <2>1. thread = "enqueue" /\ cause = None
      BY <1>3 DEF EnqueueAudioChunks, ThreadInv
    <2>2. CASE enqueued < chunks
      <3>1. /\ enqueued' = enqueued + 1
            /\ audioQueue' = Append(audioQueue, Chunk(enqueued + 1))
            /\ UNCHANGED <<thread, cause>>
        BY <1>3, <2>2 DEF EnqueueAudioChunks
      <3>2. Chunk(enqueued + 1) \in Message
        <4>1. enqueued + 1 \in 1 .. MaxChunks
          BY <2>2, ChunksAssumption DEF Inv, TypeOK, ApiTypeOK
        <4> QED BY <4>1 DEF Message
      <3>3. /\ Len(audioQueue') = Len(audioQueue) + 1
            /\ \A i \in 1 .. Len(audioQueue) : audioQueue'[i] = audioQueue[i]
            /\ audioQueue'[Len(audioQueue) + 1] = Chunk(enqueued + 1)
        BY <3>1, <3>2
      <3>4. ~Signalled /\ ~SentinelTaken /\ Len(yielded) + Len(audioQueue) = enqueued
        BY <2>1
      <3>5. ASSUME NEW i \in 1 .. Len(audioQueue')
            PROVE  audioQueue'[i] = Chunk(Len(yielded) + i)
        <4>1. Len(audioQueue) \in Nat /\ Len(yielded) \in Nat
          OBVIOUS
        <4>2. CASE i \in 1 .. Len(audioQueue)
          <5>1. Len(yielded) + i <= enqueued
            BY <3>4, <4>1, <4>2
          <5> QED BY <2>1, <3>3, <4>2, <5>1
        <4>3. CASE i = Len(audioQueue) + 1
          <5>1. Len(yielded) + i = enqueued + 1
            BY <3>4, <4>1, <4>3
          <5> QED BY <3>3, <4>3, <5>1
        <4> QED BY <3>3, <4>1, <4>2, <4>3
      <3> QED BY <2>1, <3>1, <3>3, <3>4, <3>5
    <2>3. CASE ~(enqueued < chunks)
      BY <1>3, <2>1, <2>3 DEF EnqueueAudioChunks
    <2> QED BY <2>2, <2>3
  <1>4. CASE SignalCompletion \/ SignalError
    <2>1. /\ thread' \in {"cleanup", "exited"} /\ thread \notin {"cleanup", "exited"}
          /\ UNCHANGED <<cause, enqueued>>
          /\ audioQueue' = Append(audioQueue, IF cause = None THEN Completed ELSE Error)
      BY <1>4 DEF SignalCompletion, SignalError, ThreadInv
    <2>2. (IF cause = None THEN Completed ELSE Error) \in Message
      BY DEF Message
    <2>3. ~SentinelTaken /\ Len(yielded) + Len(audioQueue) = enqueued
      BY <2>1
    <2>4. /\ Len(audioQueue') = Len(audioQueue) + 1
          /\ \A i \in 1 .. Len(audioQueue) : audioQueue'[i] = audioQueue[i]
          /\ audioQueue'[Len(audioQueue) + 1] = IF cause = None THEN Completed ELSE Error
      BY <2>1, <2>2
    <2>5. ~SentinelTaken' /\ outcome' # "returned"
      BY <1>4, <2>1, <2>3 DEF Inv, HandlerInv, SignalCompletion, SignalError
    <2>6. ASSUME NEW i \in 1 .. Len(audioQueue')
          PROVE  audioQueue'[i] = IF Len(yielded) + i <= enqueued THEN Chunk(Len(yielded) + i)
                                  ELSE IF cause = None THEN Completed ELSE Error
      <3>1. CASE i = Len(audioQueue) + 1
        BY <3>1, <2>3, <2>4
      <3>2. CASE i # Len(audioQueue) + 1
        <4>1. i \in 1 .. Len(audioQueue)
          BY <3>2, <2>4
        <4> QED BY <4>1, <2>4
      <3> QED BY <3>1, <3>2
    <2> QED BY <2>1, <2>3, <2>4, <2>5, <2>6
  <1>5. CASE CleanUp
    <2>1. /\ thread = "cleanup" /\ thread' = "exited"
          /\ UNCHANGED <<cause, enqueued, audioQueue>>
      BY <1>5 DEF CleanUp
    <2> QED BY <2>1
  <1>6. CASE ~(EnqueueAudioChunks \/ SignalCompletion \/ SignalError \/ CleanUp)
    <2>1. /\ thread # "idle" /\ ~Signalled /\ ~Signalled' /\ thread' # "idle"
          /\ UNCHANGED <<enqueued, audioQueue>>
      <3> USE DEF CountAttempt, Unreachable, Rejected, Dubbed, JobCreated, Waiting
      <3> QED
        BY <1>6 DEF ThreadStep, CambStep, ElevenLabsStep, RequestUploadUrl,
               UploadFileToPresignedUrl, ConfirmUpload, RefreshAltFormat, RequestDubAltFormat,
               RequestRaises, SubmitDubTask, CreateDubFromFile, WaitForCompletion,
               WaitForAltFormatCompletion, WaitForDubbingCompletion, CreateTempFile, Download,
               RemoveDubbedFile, LocalFileError
    <2>2. ~SentinelTaken /\ Len(yielded) + Len(audioQueue) = enqueued
      BY <2>1
    <2>3. \A i \in 1 .. Len(audioQueue) : Len(yielded) + i <= enqueued
      BY <2>2
    <2> QED BY <2>1, <2>2, <2>3
  <1> QED BY <1>3, <1>4, <1>5, <1>6

-----------------------------------------------------------------------------
(* The audio on its way.                                                   *)

(* A message with audio is no config.                                      *)
LEMMA AudioIsNoConfig == \A m \in AudioRequest : m \notin ConfigRequest
PROOF
  BY DEF AudioRequest, ConfigRequest, Audio, Config

(* No more audio has come out of the inbound stream than was offered.      *)
LEMMA ReceivedIsOffered ==
  ASSUME TypeOK, FlowInv
  PROVE  /\ Len(written) \in Nat /\ Len(inBuffer) \in Nat /\ Len(replay) \in Nat
         /\ Len(offered) \in Nat /\ Len(inbound) \in Nat
         /\ Received \in Nat /\ Received <= Len(offered)
PROOF
  <1>1. /\ Len(written) \in Nat /\ Len(inBuffer) \in Nat /\ Len(replay) \in Nat
        /\ Len(offered) \in Nat /\ Len(inbound) \in Nat
    BY DEF TypeOK
  <1>2. PICK index : AudioIndex(index, Received, inbound, offered)
    BY DEF FlowInv, Indexed
  <1>3. index[0] = Received /\ index[0] \in 0 .. Len(offered)
    BY <1>1, <1>2 DEF AudioIndex
  <1> QED BY <1>1, <1>2, <1>3 DEF Received

(* The index of what is left when the first inbound message is taken; that *)
(* message, when it is audio, is the next one that was offered.            *)
LEMMA TakeInbound ==
  ASSUME TypeOK, FlowInv, inbound # <<>>, inbound' = Tail(inbound), UNCHANGED offered,
         Received' = IF Head(inbound) \in ConfigRequest THEN Received ELSE Received + 1
  PROVE  /\ Indexed(Received', inbound', offered')
         /\ Head(inbound) \notin ConfigRequest =>
              Received + 1 <= Len(offered) /\ Head(inbound) = offered[Received + 1]
PROOF
  <1>1. PICK index : AudioIndex(index, Received, inbound, offered)
    BY DEF FlowInv, Indexed
  <1>2. /\ inbound \in Seq(Request) /\ Len(inbound) \in Nat \ {0} /\ Len(offered) \in Nat
        /\ Head(inbound) = inbound[1]
        /\ Len(inbound') = Len(inbound) - 1
        /\ \A i \in 1 .. Len(inbound') : inbound'[i] = inbound[i + 1]
    BY DEF TypeOK
  <1>3. /\ index[0] = Received /\ index[Len(inbound)] = Len(offered)
        /\ \A i \in 1 .. Len(inbound) :
             IF inbound[i] \in ConfigRequest
               THEN index[i] = index[i - 1]
               ELSE index[i] = index[i - 1] + 1 /\ inbound[i] = offered[index[i]]
    BY <1>1 DEF AudioIndex
  <1>4. 1 \in 1 .. Len(inbound) /\ index[1] \in 0 .. Len(offered)
    <2>1. 1 \in 1 .. Len(inbound) /\ 1 \in 0 .. Len(inbound)
      BY <1>2
    <2>2. index \in [0 .. Len(inbound) -> 0 .. Len(offered)]
      BY <1>1 DEF AudioIndex
    <2> QED BY <2>1, <2>2
  <1>5. /\ index[1] = Received'
        /\ Head(inbound) \notin ConfigRequest =>
             Received + 1 <= Len(offered) /\ Head(inbound) = offered[Received + 1]
    BY <1>2, <1>3, <1>4
  <1> DEFINE rest == [i \in 0 .. Len(inbound') |-> index[i + 1]]
  <1>6. rest \in [0 .. Len(inbound') -> 0 .. Len(offered')]
    BY <1>1, <1>2 DEF AudioIndex
  <1>7. rest[0] = Received' /\ rest[Len(inbound')] = Len(offered')
    BY <1>2, <1>3, <1>5
  <1>8. ASSUME NEW i \in 1 .. Len(inbound')
        PROVE  IF inbound'[i] \in ConfigRequest
                 THEN rest[i] = rest[i - 1]
                 ELSE rest[i] = rest[i - 1] + 1 /\ inbound'[i] = offered'[rest[i]]
    <2>1. /\ i + 1 \in 1 .. Len(inbound) /\ i \in 0 .. Len(inbound') /\ i - 1 \in 0 .. Len(inbound')
          /\ (i + 1) - 1 = i /\ (i - 1) + 1 = i
      BY <1>2
    <2>2. rest[i] = index[i + 1] /\ rest[i - 1] = index[i] /\ inbound'[i] = inbound[i + 1]
      BY <2>1, <1>2
    <2> HIDE DEF rest
    <2> QED BY <2>1, <2>2, <1>3
  <1> HIDE DEF rest
  <1>9. AudioIndex(rest, Received', inbound', offered')
    BY <1>6, <1>7, <1>8 DEF AudioIndex
  <1> QED BY <1>5, <1>9 DEF Indexed

-----------------------------------------------------------------------------
(* The steps of the client and of the collector.                           *)

(* The client adds to the end of the inbound stream, and ends it.          *)
LEMMA ClientKeepsInv ==
  ASSUME Inv, ClientSends \/ ClientCloses \/ ClientCancels
  PROVE  Inv'
PROOF
  <1>0. TypeOK /\ ThreadInv /\ FileInv /\ HandlerInv /\ QueueInv /\ FlowInv /\ CollectorInv
    BY DEF Inv
  <1>1. /\ UNCHANGED <<backend, inputFile, apiVars, handler, outcomeVars, yielded>>
        /\ UNCHANGED <<replay, collector, inBuffer, written>>
    BY DEF ClientSends, ClientCloses, ClientCancels, inVars
  <1> USE <1>1 DEF apiVars, pollVars, fileVars, outVars, outcomeVars
  <1>2. ThreadInv' /\ FileInv' /\ HandlerInv'
    BY <1>0 DEF ThreadInv, FileInv, HandlerInv
  <1>3. QueueInv'
    BY <1>0 DEF QueueInv, SentinelTaken, Signalled
  <1>4. CASE ClientCloses \/ ClientCancels
    <2>1. UNCHANGED <<sent, offered, inbound>> /\ client' \in {"closed", "cancelled"}
      BY <1>4 DEF ClientCloses, ClientCancels, inVars
    <2>2. TypeOK'
      BY <1>0, <2>1 DEF TypeOK, ApiTypeOK
    <2>3. FlowInv'
      BY <1>0, <2>1 DEF FlowInv, Received
    <2>4. CollectorInv'
      BY <1>0, <1>4 DEF CollectorInv, ClientCloses, ClientCancels, inVars
    <2> QED BY <1>2, <1>3, <2>2, <2>3, <2>4 DEF Inv
  <1>5. CASE ClientSends
    <2>1. /\ client = "open" /\ client' = client /\ status = None /\ sent' = sent + 1
          /\ sent + 1 \in 1 .. MaxMessages
      BY <1>0, <1>5, MessagesAssumption DEF ClientSends, TypeOK
    <2>2. CollectorInv'
      <3>1. collector # "exited"
        BY <1>0, <2>1 DEF CollectorInv
      <3>2. handler \notin {"check", "drain"} /\ status # "OK"
        BY <1>0, <3>1, <2>1 DEF CollectorInv, None
      <3> QED BY <1>0, <2>1, <3>1, <3>2 DEF CollectorInv
    <2>3. PICK m \in Request :
            /\ inbound' = Append(inbound, m)
            /\ offered' = IF m \in ConfigRequest THEN offered ELSE Append(offered, m)
            /\ m \notin ConfigRequest => m \in AudioRequest
      <3>1. Audio(sent + 1) \in AudioRequest
        BY <2>1 DEF AudioRequest
      <3> QED BY <1>5, <2>1, <3>1, AudioIsNoConfig DEF ClientSends, Request
    <2>4. /\ inbound \in Seq(Request) /\ offered \in Seq(AudioRequest)
          /\ inbound' \in Seq(Request) /\ offered' \in Seq(AudioRequest)
          /\ Len(inbound) \in Nat /\ Len(offered) \in Nat
          /\ Len(inbound') = Len(inbound) + 1
          /\ inbound'[Len(inbound) + 1] = m
          /\ \A i \in 1 .. Len(inbound) : inbound'[i] = inbound[i]
          /\ Len(offered') = IF m \in ConfigRequest THEN Len(offered) ELSE Len(offered) + 1
          /\ m \notin ConfigRequest => offered'[Len(offered) + 1] = m
          /\ \A i \in 1 .. Len(offered) : offered'[i] = offered[i]
      BY <1>0, <2>3 DEF TypeOK
    <2>5. TypeOK'
      BY <1>0, <2>1, <2>4 DEF TypeOK, ApiTypeOK
    <2>6. FlowInv'
      <3>1. PICK index : AudioIndex(index, Received, inbound, offered)
        BY <1>0 DEF FlowInv, Indexed
      <3> DEFINE longer == [i \in 0 .. Len(inbound') |->
                              IF i = Len(inbound) + 1 THEN Len(offered') ELSE index[i]]
      <3>2. /\ longer[Len(inbound) + 1] = Len(offered')
            /\ \A i \in 0 .. Len(inbound) : longer[i] = index[i]
            /\ longer \in [0 .. Len(inbound') -> 0 .. Len(offered')]
        BY <3>1, <2>4 DEF AudioIndex
      <3> HIDE DEF longer
      <3>3. longer[0] = Received /\ longer[Len(inbound')] = Len(offered')
        BY <3>1, <3>2, <2>4 DEF AudioIndex
      <3>4. ASSUME NEW i \in 1 .. Len(inbound')
            PROVE  IF inbound'[i] \in ConfigRequest
                     THEN longer[i] = longer[i - 1]
                     ELSE longer[i] = longer[i - 1] + 1 /\ inbound'[i] = offered'[longer[i]]
        <4>1. CASE i = Len(inbound) + 1
          <5>1. i - 1 = Len(inbound) /\ longer[i - 1] = Len(offered)
            <6>1. i - 1 = Len(inbound) /\ Len(inbound) \in 0 .. Len(inbound)
              BY <4>1, <2>4
            <6>2. index[Len(inbound)] = Len(offered)
              BY <3>1 DEF AudioIndex
            <6> QED BY <6>1, <6>2, <3>2
          <5> QED BY <4>1, <5>1, <3>2, <2>4
        <4>2. CASE i # Len(inbound) + 1
          <5>1. i \in 1 .. Len(inbound) /\ i - 1 \in 0 .. Len(inbound) /\ i \in 0 .. Len(inbound)
            BY <4>2, <2>4
          <5>2. longer[i] = index[i] /\ longer[i - 1] = index[i - 1] /\ inbound'[i] = inbound[i]
            BY <5>1, <3>2, <2>4
          <5>3. index[i] \in 0 .. Len(offered) /\ index[i - 1] \in 0 .. Len(offered)
            BY <5>1, <3>1 DEF AudioIndex
          <5>4. CASE inbound[i] \in ConfigRequest
            BY <5>1, <5>2, <5>4, <3>1 DEF AudioIndex
          <5>5. CASE inbound[i] \notin ConfigRequest
            <6>1. index[i] = index[i - 1] + 1 /\ inbound[i] = offered[index[i]]
              BY <5>1, <5>5, <3>1 DEF AudioIndex
            <6>2. index[i] \in 1 .. Len(offered)
              BY <6>1, <5>3, <2>4
            <6> QED BY <6>1, <6>2, <5>2, <5>5, <2>4
          <5> QED BY <5>4, <5>5
        <4> QED BY <4>1, <4>2
      <3>5. AudioIndex(longer, Received, inbound', offered')
        BY <3>2, <3>3, <3>4 DEF AudioIndex
      <3>6. Received' = Received
        BY DEF Received
      <3>7. Indexed(Received', inbound', offered')
        BY <3>5, <3>6 DEF Indexed
      <3>8. /\ \A i \in 1 .. Len(written) : i \in 1 .. Len(offered)
            /\ \A i \in 1 .. Len(inBuffer) : Len(written) + i \in 1 .. Len(offered)
            /\ \A i \in 1 .. Len(replay) : Len(written) + Len(inBuffer) + i \in 1 .. Len(offered)
        BY <1>0, ReceivedIsOffered DEF Received
      <3> QED BY <1>0, <3>7, <3>8, <2>4 DEF FlowInv
    <2> QED BY <1>2, <1>3, <2>2, <2>5, <2>6 DEF Inv
  <1> QED BY <1>4, <1>5

(* The collector moves the next audio to the buffer, and exits when there  *)
(* is none left or none to come.                                           *)
LEMMA CollectorKeepsInv ==
  ASSUME Inv, Collect
  PROVE  Inv'
PROOF
  <1>0. TypeOK /\ ThreadInv /\ FileInv /\ HandlerInv /\ QueueInv /\ FlowInv /\ CollectorInv
    BY DEF Inv
  <1>1. /\ UNCHANGED <<backend, inputFile, apiVars, clientVars, written, handler, outcomeVars, yielded>>
        /\ collector = "reading"
    BY DEF Collect
  <1> USE <1>1 DEF apiVars, pollVars, fileVars, outVars, outcomeVars, clientVars
  <1>2. ThreadInv' /\ FileInv' /\ HandlerInv' /\ QueueInv'
    BY <1>0 DEF ThreadInv, FileInv, HandlerInv, QueueInv, SentinelTaken, Signalled
  <1>3. handler \notin {"first", "check", "drain"}
    BY <1>0 DEF CollectorInv
  <1>4. CASE replay # <<>> /\ inBuffer' = Append(inBuffer, Head(replay)) /\ replay' = <<>>
             /\ UNCHANGED <<inbound, collector>>
    <2>1. Len(replay) = 1 /\ Head(replay) = replay[1] /\ Head(replay) \in AudioRequest
      <3>1. replay \in Seq(AudioRequest) /\ Len(replay) <= 1 /\ replay # <<>>
        BY <1>0, <1>4 DEF TypeOK, CollectorInv
      <3>2. Len(replay) \in Nat \ {0}
        BY <3>1, EmptySeq
      <3>3. Len(replay) = 1
        <4>1. \A n \in Nat \ {0} : n <= 1 => n = 1
          OBVIOUS
        <4> QED BY <4>1, <3>1, <3>2
      <3> QED BY <3>1, <3>3
    <2>2. TypeOK' /\ CollectorInv'
      BY <1>0, <1>3, <1>4, <2>1 DEF TypeOK, ApiTypeOK, CollectorInv
    <2>3. Received' = Received
      BY <1>0, <1>4, <2>1 DEF TypeOK, Received
    <2>4. /\ Len(inBuffer') = Len(inBuffer) + 1
          /\ \A i \in 1 .. Len(inBuffer) : inBuffer'[i] = inBuffer[i]
          /\ inBuffer'[Len(inBuffer) + 1] = replay[1]
      BY <1>0, <1>4, <2>1 DEF TypeOK
    <2>5. replay[1] = offered[Len(written) + Len(inBuffer) + 1]
      BY <1>0, <2>1 DEF FlowInv
    <2>6. \A i \in 1 .. Len(inBuffer') : inBuffer'[i] = offered[Len(written) + i]
      <3>1. Len(inBuffer) \in Nat /\ Len(written) \in Nat
        BY <1>0, ReceivedIsOffered
      <3> SUFFICES ASSUME NEW i \in 1 .. Len(inBuffer') PROVE inBuffer'[i] = offered[Len(written) + i]
        OBVIOUS
      <3>2. CASE i = Len(inBuffer) + 1
        <4>1. Len(written) + Len(inBuffer) + 1 = Len(written) + i
          BY <3>1, <3>2
        <4> QED BY <4>1, <3>2, <2>4, <2>5
      <3>3. CASE i # Len(inBuffer) + 1
        <4>1. i \in 1 .. Len(inBuffer)
          BY <3>1, <3>3, <2>4
        <4> QED BY <1>0, <4>1, <2>4 DEF FlowInv
      <3> QED BY <3>2, <3>3
    <2>7. FlowInv'
      BY <1>0, <1>4, <2>3, <2>6 DEF FlowInv
    <2> QED BY <1>2, <2>2, <2>7 DEF Inv
  <1>5. CASE /\ replay = <<>> /\ inbound # <<>>
             /\ inbound' = Tail(inbound)
             /\ inBuffer' = IF Head(inbound) \in ConfigRequest
                              THEN inBuffer ELSE Append(inBuffer, Head(inbound))
             /\ UNCHANGED <<replay, collector>>
    <2>1. Head(inbound) \in Request /\ (Head(inbound) \notin ConfigRequest => Head(inbound) \in AudioRequest)
      BY <1>0, <1>5 DEF TypeOK, Request
    <2>2. TypeOK' /\ CollectorInv'
      BY <1>0, <1>3, <1>5, <2>1 DEF TypeOK, ApiTypeOK, CollectorInv
    <2>3. /\ Received' = IF Head(inbound) \in ConfigRequest THEN Received ELSE Received + 1
          /\ Len(replay) = 0
      BY <1>0, <1>5, <2>1 DEF TypeOK, Received
    <2>4. /\ Indexed(Received', inbound', offered')
          /\ Head(inbound) \notin ConfigRequest => Head(inbound) = offered[Received + 1]
      BY <1>0, <1>5, <2>3, TakeInbound
    <2>5. \A i \in 1 .. Len(inBuffer') : inBuffer'[i] = offered[Len(written) + i]
      <3>1. CASE Head(inbound) \in ConfigRequest
        BY <1>0, <1>5, <3>1 DEF FlowInv
      <3>2. CASE Head(inbound) \notin ConfigRequest
        <4>1. /\ Len(inBuffer') = Len(inBuffer) + 1
              /\ \A i \in 1 .. Len(inBuffer) : inBuffer'[i] = inBuffer[i]
              /\ inBuffer'[Len(inBuffer) + 1] = Head(inbound)
          BY <1>0, <1>5, <2>1, <3>2 DEF TypeOK
        <4>2. Received + 1 = Len(written) + (Len(inBuffer) + 1)
          BY <1>0, <2>3, ReceivedIsOffered DEF Received
        <4>3. Len(inBuffer) \in Nat
          BY <1>0, ReceivedIsOffered
        <4> SUFFICES ASSUME NEW i \in 1 .. Len(inBuffer') PROVE inBuffer'[i] = offered[Len(written) + i]
          OBVIOUS
        <4>4. CASE i = Len(inBuffer) + 1
          BY <4>1, <4>2, <4>4, <3>2, <2>4
        <4>5. CASE i # Len(inBuffer) + 1
          <5>1. i \in 1 .. Len(inBuffer)
            BY <4>1, <4>3, <4>5
          <5> QED BY <1>0, <5>1, <4>1 DEF FlowInv
        <4> QED BY <4>4, <4>5
      <3> QED BY <3>1, <3>2
    <2>6. FlowInv'
      BY <1>0, <1>5, <2>4, <2>5 DEF FlowInv
    <2> QED BY <1>2, <2>2, <2>6 DEF Inv
  <1>6. CASE replay = <<>> /\ InboundOver /\ collector' = "exited" /\ UNCHANGED <<inbound, replay, inBuffer>>
    <2>1. TypeOK' /\ CollectorInv'
      BY <1>0, <1>6 DEF TypeOK, ApiTypeOK, CollectorInv, InboundOver
    <2>2. FlowInv'
      BY <1>0, <1>6 DEF FlowInv, Received
    <2> QED BY <1>2, <2>1, <2>2 DEF Inv
  <1> QED BY <1>4, <1>5, <1>6 DEF Collect

-----------------------------------------------------------------------------
(* The steps of the handler before there is a background thread.           *)

(* The first message, or none.                                             *)
LEMMA FirstKeepsInv ==
  ASSUME Inv, ReadFirst \/ NoFirstMessage
  PROVE  Inv'
PROOF
  <1>0. TypeOK /\ ThreadInv /\ FileInv /\ HandlerInv /\ QueueInv /\ FlowInv /\ CollectorInv
    BY DEF Inv
  <1>1. /\ UNCHANGED <<backend, apiVars, clientVars, inBuffer, written, yielded>>
        /\ handler = "first" /\ thread = "idle"
        /\ collector = "off" /\ written = <<>> /\ inBuffer = <<>> /\ replay = <<>>
        /\ outcome = None /\ status = None
    BY <1>0 DEF ReadFirst, NoFirstMessage, inVars, HandlerInv, CollectorInv
  <1> USE <1>1 DEF apiVars, pollVars, fileVars, outVars, clientVars
  <1>2. Received = 0
    BY DEF Received
  <1>3. CASE NoFirstMessage \/ (ReadFirst /\ Head(inbound) = Config("unsupported"))
    <2>1. /\ handler' = "ended" /\ outcome' \in {"aborted", "raised"}
          /\ status' \in {"CANCELLED", "UNKNOWN", "INVALID_ARGUMENT"}
          /\ code' \in {code, "INVALID_ARGUMENT"} /\ detail' \in {detail, "language"}
          /\ UNCHANGED <<inputFile, replay, collector>>
      <3>1. CASE NoFirstMessage
        BY <3>1 DEF NoFirstMessage, End, Answer, inVars
      <3>2. CASE ReadFirst /\ Head(inbound) = Config("unsupported")
        BY <3>2 DEF ReadFirst, End, Abort, Answer
      <3> QED BY <1>3, <3>1, <3>2
    <2>2. inbound' \in Seq(Request)
      <3>1. CASE NoFirstMessage
        BY <1>0, <3>1 DEF NoFirstMessage, TypeOK, inVars
      <3>2. CASE ReadFirst
        <4>1. inbound \in Seq(Request) /\ inbound # <<>> /\ inbound' = Tail(inbound)
          BY <1>0, <3>2 DEF ReadFirst, TypeOK
        <4> QED BY <4>1
      <3> QED BY <1>3, <3>1, <3>2
    <2>3. TypeOK'
      BY <1>0, <2>1, <2>2 DEF TypeOK, ApiTypeOK, Handler, Outcome, Code, Detail
    <2>4. ThreadInv' /\ FileInv' /\ HandlerInv' /\ QueueInv' /\ CollectorInv'
      BY <1>0, <2>1 DEF ThreadInv, FileInv, HandlerInv, QueueInv, CollectorInv, SentinelTaken,
                        Signalled, None
    <2>5. FlowInv'
      <3>1. CASE NoFirstMessage
        BY <1>0, <3>1 DEF NoFirstMessage, inVars, FlowInv, Received
      <3>2. CASE ReadFirst /\ Head(inbound) = Config("unsupported")
        <4>1. inbound # <<>> /\ inbound' = Tail(inbound) /\ Head(inbound) \in ConfigRequest
          BY <3>2 DEF ReadFirst, ConfigRequest
        <4>2. Received' = Received
          BY <2>1 DEF Received
        <4>3. Indexed(Received', inbound', offered')
          BY <1>0, <4>1, <4>2, TakeInbound
        <4> QED BY <1>0, <2>1, <4>3 DEF FlowInv
      <3> QED BY <1>3, <3>1, <3>2
    <2> QED BY <2>3, <2>4, <2>5 DEF Inv
  <1>4. CASE ReadFirst /\ Head(inbound) # Config("unsupported")
    <2>1. /\ inbound # <<>> /\ inbound' = Tail(inbound)
          /\ handler' = "collect" /\ inputFile' = "wav" /\ collector' = "reading"
          /\ replay' = IF Head(inbound) \in ConfigRequest THEN <<>> ELSE <<Head(inbound)>>
          /\ UNCHANGED <<outcome, code, detail, status>>
      BY <1>4 DEF ReadFirst, outcomeVars
    <2>2. /\ Head(inbound) \notin ConfigRequest => Head(inbound) \in AudioRequest
          /\ inbound' \in Seq(Request)
      BY <1>0, <2>1 DEF TypeOK, Request
    <2>3. /\ replay' \in Seq(AudioRequest)
          /\ Len(replay') = IF Head(inbound) \in ConfigRequest THEN 0 ELSE 1
          /\ Head(inbound) \notin ConfigRequest => replay'[1] = Head(inbound)
      BY <2>1, <2>2
    <2>4. TypeOK'
      BY <1>0, <2>1, <2>2, <2>3 DEF TypeOK, ApiTypeOK, Handler, InputFile
    <2>5. ThreadInv' /\ FileInv' /\ HandlerInv' /\ QueueInv' /\ CollectorInv'
      BY <1>0, <2>1, <2>3 DEF ThreadInv, FileInv, HandlerInv, QueueInv, CollectorInv,
                              SentinelTaken, Signalled, None
    <2>6. Received' = IF Head(inbound) \in ConfigRequest THEN Received ELSE Received + 1
      BY <1>2, <2>3 DEF Received
    <2>7. /\ Indexed(Received', inbound', offered')
          /\ Head(inbound) \notin ConfigRequest => Head(inbound) = offered[Received + 1]
      BY <1>0, <2>1, <2>6, TakeInbound
    <2>8. \A i \in 1 .. Len(replay') : replay'[i] = offered[Len(written) + Len(inBuffer) + i]
      BY <1>2, <2>3, <2>7
    <2>9. FlowInv'
      BY <1>0, <2>7, <2>8 DEF FlowInv
    <2> QED BY <2>4, <2>5, <2>9 DEF Inv
  <1> QED BY <1>3, <1>4

(* The audio goes from the buffer to the file, until the collector is done.*)
LEMMA WriteKeepsInv ==
  ASSUME Inv, WriteInput
  PROVE  Inv'
PROOF
  <1>0. TypeOK /\ ThreadInv /\ FileInv /\ HandlerInv /\ QueueInv /\ FlowInv /\ CollectorInv
    BY DEF Inv
  <1>1. /\ UNCHANGED <<backend, inputFile, apiVars, clientVars, inbound, replay, collector,
                       outcomeVars, yielded>>
        /\ handler = "collect" /\ handler' \in {"collect", "check"}
        /\ outcome = None /\ status = None
    BY <1>0 DEF WriteInput, HandlerInv
  <1> USE <1>1 DEF apiVars, pollVars, fileVars, outVars, clientVars, outcomeVars
  <1>2. ThreadInv' /\ FileInv' /\ HandlerInv' /\ QueueInv'
    BY <1>0 DEF ThreadInv, FileInv, HandlerInv, QueueInv, SentinelTaken, Signalled
  <1>3. CASE inBuffer # <<>>
    <2>1. written' = Append(written, Head(inBuffer)) /\ inBuffer' = Tail(inBuffer) /\ handler' = handler
      BY <1>3 DEF WriteInput
    <2>2. /\ inBuffer \in Seq(AudioRequest) /\ written \in Seq(AudioRequest)
          /\ Len(inBuffer) \in Nat \ {0} /\ Len(written) \in Nat /\ Len(replay) \in Nat
      BY <1>0, <1>3, EmptySeq DEF TypeOK
    <2>3. /\ written' \in Seq(AudioRequest) /\ inBuffer' \in Seq(AudioRequest)
          /\ Len(written') = Len(written) + 1 /\ Len(inBuffer') = Len(inBuffer) - 1
          /\ \A i \in 1 .. Len(written) : written'[i] = written[i]
          /\ written'[Len(written) + 1] = inBuffer[1]
          /\ \A i \in 1 .. Len(inBuffer') : inBuffer'[i] = inBuffer[i + 1]
      BY <2>1, <2>2, <1>3
    <2>4. TypeOK' /\ CollectorInv'
      BY <1>0, <2>1, <2>3 DEF TypeOK, ApiTypeOK, CollectorInv, None
    <2>5. Len(written') + Len(inBuffer') = Len(written) + Len(inBuffer) /\ Received' = Received
      BY <2>2, <2>3 DEF Received
    <2>6. \A i \in 1 .. Len(written') : written'[i] = offered[i]
      <3>1. inBuffer[1] = offered[Len(written) + 1]
        BY <1>0, <2>2 DEF FlowInv
      <3> SUFFICES ASSUME NEW i \in 1 .. Len(written') PROVE written'[i] = offered[i]
        OBVIOUS
      <3>2. CASE i = Len(written) + 1
        BY <3>1, <3>2, <2>3
      <3>3. CASE i # Len(written) + 1
        <4>1. i \in 1 .. Len(written)
          BY <3>3, <2>2, <2>3
        <4> QED BY <1>0, <4>1, <2>3 DEF FlowInv
      <3> QED BY <3>2, <3>3
    <2>7. ASSUME NEW i \in 1 .. Len(inBuffer')
          PROVE  inBuffer'[i] = offered[Len(written') + i]
      <3>1. i + 1 \in 1 .. Len(inBuffer) /\ Len(written') + i = Len(written) + (i + 1)
        BY <2>2, <2>3
      <3> QED BY <1>0, <3>1, <2>3 DEF FlowInv
    <2>8. FlowInv'
      BY <1>0, <2>5, <2>6, <2>7 DEF FlowInv
    <2> QED BY <1>2, <2>4, <2>8 DEF Inv
  <1>4. CASE inBuffer = <<>>
    <2>1. handler' = "check" /\ collector = "exited" /\ UNCHANGED <<inBuffer, written>>
      BY <1>4 DEF WriteInput
    <2>2. TypeOK'
      BY <1>0, <2>1 DEF TypeOK, ApiTypeOK, Handler
    <2>3. FlowInv' /\ CollectorInv'
      BY <1>0, <1>4, <2>1 DEF FlowInv, Received, CollectorInv, None
    <2> QED BY <1>2, <2>2, <2>3 DEF Inv
  <1> QED BY <1>3, <1>4

(* The call fails before it has a background thread.                       *)
LEMMA InputFailureKeepsInv ==
  ASSUME Inv, WriteInputFails \/ CheckFormatFails
  PROVE  Inv'
PROOF
  <1>0. TypeOK /\ ThreadInv /\ FileInv /\ HandlerInv /\ QueueInv /\ FlowInv /\ CollectorInv
    BY DEF Inv
  <1>1. /\ UNCHANGED <<backend, apiVars, clientVars, inVars, yielded>>
        /\ inputFile' \in {inputFile, "absent"}
        /\ handler \in {"collect", "check"} /\ thread = "idle"
        /\ handler' = "ended" /\ outcome' = "aborted" /\ status' \in {"CANCELLED", "INTERNAL"}
        /\ code' = "INTERNAL" /\ detail' = "inputs"
    BY <1>0 DEF WriteInputFails, CheckFormatFails, HandlerInv, End, Abort, Answer
  <1> USE <1>1 DEF apiVars, pollVars, fileVars, outVars, clientVars, inVars
  <1>2. TypeOK'
    BY <1>0 DEF TypeOK, ApiTypeOK, Handler, Outcome, Code, Detail, InputFile
  <1>3. ThreadInv' /\ FileInv' /\ HandlerInv' /\ QueueInv' /\ CollectorInv'
    BY <1>0 DEF ThreadInv, FileInv, HandlerInv, QueueInv, CollectorInv, SentinelTaken, Signalled, None
  <1>4. FlowInv'
    BY <1>0 DEF FlowInv, Received
  <1> QED BY <1>2, <1>3, <1>4 DEF Inv

(* The background thread is started.                                       *)
LEMMA CheckKeepsInv ==
  ASSUME Inv, CheckFormat
  PROVE  Inv'
PROOF
  <1>0. TypeOK /\ ThreadInv /\ FileInv /\ HandlerInv /\ QueueInv /\ FlowInv /\ CollectorInv
    BY DEF Inv
  <1>1. /\ UNCHANGED <<backend, clientVars, inVars, outcomeVars, yielded>>
        /\ UNCHANGED <<cause, pollVars, fileVars, outVars>>
        /\ handler = "check" /\ handler' = "drain"
        /\ thread = "idle" /\ thread' \in {"uploadUrl", "tempFile"}
        /\ inputFile' \in {"mp3", "wav"}
        /\ outcome = None /\ status = None
    BY <1>0 DEF CheckFormat, StartThread, HandlerInv
  <1> USE <1>1 DEF pollVars, fileVars, outVars, clientVars, inVars, outcomeVars
  <1>2. TypeOK'
    BY <1>0 DEF TypeOK, ApiTypeOK, Handler, InputFile, Place
  <1>3. ThreadInv' /\ FileInv' /\ HandlerInv' /\ CollectorInv'
    BY <1>0 DEF ThreadInv, FileInv, HandlerInv, CollectorInv, None
  <1>4. QueueInv'
    BY <1>0 DEF QueueInv, SentinelTaken, Signalled, None
  <1>5. FlowInv'
    BY <1>0 DEF FlowInv, Received
  <1> QED BY <1>2, <1>3, <1>4, <1>5 DEF Inv

-----------------------------------------------------------------------------
(* The steps of the handler that reads the queue.                          *)

(* What is first in the queue, and what is left when it is taken.          *)
LEMMA TakeFromQueue ==
  ASSUME TypeOK, QueueInv, audioQueue # <<>>
  PROVE  /\ Len(audioQueue) \in Nat \ {0} /\ Len(yielded) \in Nat /\ enqueued \in Nat
         /\ Tail(audioQueue) \in Seq(Message) /\ Len(Tail(audioQueue)) = Len(audioQueue) - 1
         /\ \A i \in 1 .. Len(Tail(audioQueue)) : Tail(audioQueue)[i] = audioQueue[i + 1]
         /\ Head(audioQueue) = IF Len(yielded) < enqueued THEN Chunk(Len(yielded) + 1)
                               ELSE IF cause = None THEN Completed ELSE Error
PROOF
  <1>1. audioQueue \in Seq(Message) /\ enqueued \in Nat /\ Len(yielded) \in Nat
    BY ChunksAssumption DEF TypeOK, ApiTypeOK
  <1>2. Len(audioQueue) \in Nat \ {0}
    BY <1>1, EmptySeq
  <1>3. 1 \in 1 .. Len(audioQueue) /\ Head(audioQueue) = audioQueue[1]
    BY <1>1, <1>2
  <1>4. audioQueue[1] = IF Len(yielded) + 1 <= enqueued THEN Chunk(Len(yielded) + 1)
                        ELSE IF cause = None THEN Completed ELSE Error
    BY <1>3 DEF QueueInv
  <1>5. (Len(yielded) + 1 <= enqueued) <=> (Len(yielded) < enqueued)
    BY <1>1
  <1> QED BY <1>1, <1>2, <1>3, <1>4, <1>5

(* A keepalive changes nothing but whether the call goes on.               *)
LEMMA KeepaliveKeepsInv ==
  ASSUME Inv, Keepalive
  PROVE  Inv'
PROOF
  <1>0. TypeOK /\ ThreadInv /\ FileInv /\ HandlerInv /\ QueueInv /\ FlowInv /\ CollectorInv
    BY DEF Inv
  <1>1. /\ UNCHANGED <<backend, inputFile, apiVars, clientVars, inVars, code, detail, yielded>>
        /\ handler = "drain" /\ thread # "idle" /\ outcome = None /\ status = None
        /\ \/ UNCHANGED <<handler, outcome, status>>
           \/ handler' = "ended" /\ outcome' = "dropped" /\ status' = "CANCELLED"
    BY <1>0 DEF Keepalive, YieldOrDrop, End, Answer, HandlerInv
  <1> USE <1>1 DEF apiVars, pollVars, fileVars, outVars, clientVars, inVars
  <1>2. TypeOK'
    BY <1>0 DEF TypeOK, ApiTypeOK, Handler, Outcome, Code
  <1>3. ThreadInv' /\ FileInv' /\ HandlerInv' /\ CollectorInv'
    BY <1>0 DEF ThreadInv, FileInv, HandlerInv, CollectorInv, None
  <1>4. QueueInv'
    BY <1>0 DEF QueueInv, SentinelTaken, Signalled, None
  <1>5. FlowInv'
    BY <1>0 DEF FlowInv, Received
  <1> QED BY <1>2, <1>3, <1>4, <1>5 DEF Inv

(* The next chunk goes from the queue to the client.                       *)
LEMMA YieldKeepsInv ==
  ASSUME Inv, YieldChunk
  PROVE  Inv' /\ yielded' = Append(yielded, Len(yielded) + 1) /\ Len(yielded) + 1 <= enqueued
PROOF
  <1>0. TypeOK /\ ThreadInv /\ FileInv /\ HandlerInv /\ QueueInv /\ FlowInv /\ CollectorInv
    BY DEF Inv
  <1>1. /\ UNCHANGED <<backend, inputFile, thread, cause, pollVars, fileVars, enqueued,
                       clientVars, inVars, code, detail>>
        /\ handler = "drain" /\ thread # "idle" /\ outcome = None /\ status = None
        /\ \/ UNCHANGED <<handler, outcome, status>>
           \/ handler' = "ended" /\ outcome' = "dropped" /\ status' = "CANCELLED"
        /\ audioQueue # <<>> /\ Head(audioQueue) \notin {Completed, Error}
        /\ audioQueue' = Tail(audioQueue) /\ yielded' = Append(yielded, Head(audioQueue)[2])
    BY <1>0 DEF YieldChunk, YieldOrDrop, End, Answer, HandlerInv
  <1> USE <1>1 DEF pollVars, fileVars, clientVars, inVars
  <1>2. /\ Len(audioQueue) \in Nat \ {0} /\ Len(yielded) \in Nat /\ enqueued \in Nat
        /\ audioQueue' \in Seq(Message) /\ Len(audioQueue') = Len(audioQueue) - 1
        /\ \A i \in 1 .. Len(audioQueue') : audioQueue'[i] = audioQueue[i + 1]
        /\ Head(audioQueue) = IF Len(yielded) < enqueued THEN Chunk(Len(yielded) + 1)
                              ELSE IF cause = None THEN Completed ELSE Error
    BY <1>0, TakeFromQueue
  <1>3. Len(yielded) < enqueued /\ Head(audioQueue) = Chunk(Len(yielded) + 1)
    BY <1>2
  <1>4. yielded' = Append(yielded, Len(yielded) + 1) /\ Len(yielded) + 1 <= enqueued
    BY <1>2, <1>3 DEF Chunk
  <1>5. yielded \in Seq(1 .. MaxChunks) /\ Len(yielded) + 1 \in 1 .. MaxChunks
    <2>1. enqueued \in 0 .. MaxChunks /\ yielded \in Seq(1 .. MaxChunks)
      BY <1>0 DEF TypeOK, ApiTypeOK
    <2> QED BY <2>1, <1>2, <1>4, ChunksAssumption
  <1>6. /\ yielded' \in Seq(1 .. MaxChunks) /\ Len(yielded') = Len(yielded) + 1
        /\ \A i \in 1 .. Len(yielded) : yielded'[i] = yielded[i]
        /\ yielded'[Len(yielded) + 1] = Len(yielded) + 1
    BY <1>4, <1>5
  <1>7. TypeOK'
    <2>1. ApiTypeOK'
      BY <1>0, <1>2 DEF TypeOK, ApiTypeOK
    <2>2. handler' \in Handler /\ outcome' \in Outcome /\ status' \in Code
      BY <1>0 DEF TypeOK, Handler, Outcome, Code
    <2> QED BY <1>0, <1>6, <2>1, <2>2 DEF TypeOK
  <1>8. ThreadInv' /\ FileInv' /\ HandlerInv' /\ CollectorInv'
    <2>1. ThreadInv' /\ FileInv'
      BY <1>0 DEF ThreadInv, FileInv, HandlerInv, None
    <2>2. HandlerInv'
      BY <1>0 DEF HandlerInv, None
    <2>3. CollectorInv'
      BY <1>0 DEF CollectorInv, HandlerInv, None
    <2> QED BY <2>1, <2>2, <2>3
  <1>9. QueueInv'
    <2>1. ~SentinelTaken /\ ~SentinelTaken' /\ outcome' # "returned" /\ (Signalled' <=> Signalled)
      BY DEF SentinelTaken, Signalled, None
    <2>2. Len(yielded') + Len(audioQueue') = Len(yielded) + Len(audioQueue)
      BY <1>2, <1>6
    <2>3. \A i \in 1 .. Len(yielded') : yielded'[i] = i
      <3> SUFFICES ASSUME NEW i \in 1 .. Len(yielded') PROVE yielded'[i] = i
        OBVIOUS
      <3>1. CASE i = Len(yielded) + 1
        BY <3>1, <1>6
      <3>2. CASE i # Len(yielded) + 1
        <4>1. i \in 1 .. Len(yielded)
          BY <3>2, <1>2, <1>6
        <4> QED BY <1>0, <4>1, <1>6 DEF QueueInv
      <3> QED BY <3>1, <3>2
    <2>4. ASSUME NEW i \in 1 .. Len(audioQueue')
          PROVE  audioQueue'[i] = IF Len(yielded') + i <= enqueued THEN Chunk(Len(yielded') + i)
                                  ELSE IF cause = None THEN Completed ELSE Error
      <3>1. /\ i + 1 \in 1 .. Len(audioQueue) /\ Len(yielded') + i = Len(yielded) + (i + 1)
            /\ audioQueue'[i] = audioQueue[i + 1]
        BY <1>2, <1>6
      <3> QED BY <1>0, <3>1 DEF QueueInv
    <2> QED BY <1>0, <1>2, <1>4, <1>6, <2>1, <2>2, <2>3, <2>4 DEF QueueInv
  <1>10. FlowInv'
    BY <1>0 DEF FlowInv, Received
  <1> QED BY <1>4, <1>7, <1>8, <1>9, <1>10 DEF Inv

(* A sentinel ends the call, when every chunk before it was yielded.       *)
LEMMA SentinelKeepsInv ==
  ASSUME Inv, DubCompleted \/ CambFailed \/ ElevenLabsFailed
  PROVE  /\ Inv'
         /\ ~SentinelTaken /\ SentinelTaken' /\ Signalled /\ Len(yielded) = enqueued
PROOF
  <1>0. TypeOK /\ ThreadInv /\ FileInv /\ HandlerInv /\ QueueInv /\ FlowInv /\ CollectorInv
    BY DEF Inv
  <1>1. PICK sentinel \in {Completed, Error} :
          /\ audioQueue # <<>> /\ Head(audioQueue) = sentinel
          /\ audioQueue' = Tail(audioQueue)
          /\ handler = "drain" /\ handler' = "ended" /\ inputFile' = "absent"
          /\ UNCHANGED <<backend, thread, cause, pollVars, fileVars, enqueued, clientVars, inVars, yielded>>
          /\ status' \in {"OK", "INTERNAL", "UNKNOWN", "CANCELLED"}
          /\ code' \in {code, "INTERNAL"} /\ detail' \in {detail, "streamback", "dubbing"}
          /\ outcome' \in {"returned", "aborted", "raised"}
          /\ outcome' = "returned" <=> sentinel = Completed
          /\ status' = "OK" => outcome' = "returned" /\ client # "cancelled"
    <2> USE DEF TakeSentinel, End, Answer, Abort
    <2>0. Completed # Error
      BY DEF Completed, Error
    <2>1. CASE DubCompleted
      <3> WITNESS Completed \in {Completed, Error}
      <3> QED BY <2>0, <2>1 DEF DubCompleted
    <2>2. CASE CambFailed
      <3> WITNESS Error \in {Completed, Error}
      <3> QED BY <2>0, <2>2 DEF CambFailed
    <2>3. CASE ElevenLabsFailed
      <3> WITNESS Error \in {Completed, Error}
      <3> QED BY <2>0, <2>3 DEF ElevenLabsFailed
    <2> QED BY <2>1, <2>2, <2>3
  <1>2. outcome = None /\ status = None /\ thread # "idle"
    BY <1>0, <1>1 DEF HandlerInv
  <1> USE <1>1, <1>2 DEF pollVars, fileVars, clientVars, inVars
  <1>3. /\ Len(audioQueue) \in Nat \ {0} /\ Len(yielded) \in Nat /\ enqueued \in Nat
        /\ audioQueue' \in Seq(Message) /\ Len(audioQueue') = Len(audioQueue) - 1
        /\ Head(audioQueue) = IF Len(yielded) < enqueued THEN Chunk(Len(yielded) + 1)
                              ELSE IF cause = None THEN Completed ELSE Error
    BY <1>0, TakeFromQueue
  <1>4. /\ Len(yielded) = enqueued
        /\ sentinel = IF cause = None THEN Completed ELSE Error
    <2>1. Chunk(Len(yielded) + 1) \notin {Completed, Error}
      BY DEF Chunk, Completed, Error
    <2>2. ~(Len(yielded) < enqueued)
      BY <1>3, <2>1
    <2> QED BY <1>0, <1>3, <2>2 DEF QueueInv
  <1>5. ~SentinelTaken /\ SentinelTaken'
    BY DEF SentinelTaken, None
  <1>6. Signalled /\ Len(audioQueue) = 1 /\ Signalled'
    BY <1>0, <1>3, <1>4, <1>5 DEF QueueInv, Signalled
  <1>7. outcome' = "returned" => thread = "exited" /\ cause = None
    <2>1. outcome' = "returned" => cause = None
      BY <1>4 DEF Completed, Error
    <2> QED BY <1>0, <1>6, <2>1 DEF ThreadInv, Signalled
  <1>8. TypeOK'
    BY <1>0, <1>3 DEF TypeOK, ApiTypeOK, Handler, Outcome, Code, Detail, InputFile
  <1>9. ThreadInv' /\ HandlerInv'
    BY <1>0 DEF ThreadInv, HandlerInv, None
  <1>10. FileInv'
    BY <1>0, <1>6 DEF FileInv, Signalled
  <1>11. QueueInv'
    BY <1>0, <1>3, <1>4, <1>5, <1>6, <1>7 DEF QueueInv
  <1>12. FlowInv'
    BY <1>0 DEF FlowInv, Received
  <1>13. CollectorInv'
    <2>1. collector = "exited" /\ inBuffer = <<>> /\ replay = <<>>
      BY <1>0 DEF CollectorInv
    <2>2. status' = "OK" => written = offered
      <3> SUFFICES ASSUME status' = "OK" PROVE written = offered
        OBVIOUS
      <3>1. inbound = <<>>
        BY <1>0, <2>1 DEF CollectorInv
      <3>2. Len(written) = Len(offered)
        <4>1. PICK index : AudioIndex(index, Received, inbound, offered)
          BY <1>0 DEF FlowInv, Indexed
        <4>2. index[0] = Received /\ index[0] = Len(offered)
          BY <3>1, <4>1 DEF AudioIndex
        <4>3. Received = Len(written)
          BY <1>0, <2>1 DEF Received, TypeOK
        <4> QED BY <4>2, <4>3
      <3>3. \A i \in 1 .. Len(written) : written[i] = offered[i]
        BY <1>0 DEF FlowInv
      <3>4. written \in Seq(AudioRequest) /\ offered \in Seq(AudioRequest)
        BY <1>0 DEF TypeOK
      <3> QED BY <3>2, <3>3, <3>4, SeqEqual
    <2> QED BY <1>0, <2>1, <2>2 DEF CollectorInv
  <1> QED BY <1>4, <1>5, <1>6, <1>8, <1>9, <1>10, <1>11, <1>12, <1>13 DEF Inv

-----------------------------------------------------------------------------
(* The invariant holds in every state.                                     *)

Safety == Init /\ [][Next]_vars

(* Every step keeps the invariant.                                         *)
LEMMA InvStep == Inv /\ [Next]_vars => Inv'
PROOF
  <1> SUFFICES ASSUME Inv, [Next]_vars PROVE Inv'
    OBVIOUS
  <1>1. CASE ClientSends \/ ClientCloses \/ ClientCancels
    BY <1>1, ClientKeepsInv
  <1>2. CASE Collect
    BY <1>2, CollectorKeepsInv
  <1>3. CASE BackgroundStep
    BY <1>3, ThreadKeepsType, ThreadKeepsThreadInv, ThreadKeepsHandlerInv, ThreadKeepsQueueInv DEF Inv
  <1>4. CASE HandlerStep
    BY <1>4, FirstKeepsInv, WriteKeepsInv, InputFailureKeepsInv, CheckKeepsInv, YieldKeepsInv,
       KeepaliveKeepsInv, SentinelKeepsInv DEF HandlerStep
  <1>5. CASE Finished \/ UNCHANGED vars
    <2>1. UNCHANGED vars
      BY <1>5 DEF Finished
    <2> USE <2>1 DEF vars, apiVars, pollVars, fileVars, outVars, clientVars, inVars, outcomeVars
    <2>2. TypeOK' /\ ThreadInv' /\ FileInv' /\ HandlerInv'
      BY DEF Inv, TypeOK, ApiTypeOK, ThreadInv, FileInv, HandlerInv
    <2>3. QueueInv' /\ FlowInv' /\ CollectorInv'
      BY DEF Inv, QueueInv, SentinelTaken, Signalled, FlowInv, Received, CollectorInv
    <2> QED BY <2>2, <2>3 DEF Inv
  <1> QED BY <1>1, <1>2, <1>3, <1>4, <1>5 DEF Next

(* The invariant holds in every state a call can be in.                    *)
THEOREM Invariance == Safety => []Inv
PROOF
  BY InitInv, InvStep, PTL DEF Safety

(* The variables of a dubbing call keep their types.                       *)
THEOREM TypeCorrect == Spec => []TypeOK
PROOF
  <1>1. Inv => TypeOK
    BY DEF Inv
  <1> QED BY Invariance, <1>1, PTL DEF Spec, Safety

(* A call that ends with OK dubbed all the audio that its client sent, and *)
(* handed out the whole dubbed file in order.                              *)
THEOREM OkIsWholeDub == Spec => []OkMeansWholeDub
PROOF
  <1>1. Inv => OkMeansWholeDub
    <2> SUFFICES ASSUME Inv, status = "OK"
                 PROVE  written = offered /\ cause = None /\ yielded = [i \in 1 .. chunks |-> i]
      BY DEF OkMeansWholeDub
    <2>1. outcome = "returned" /\ written = offered
      BY DEF Inv, CollectorInv
    <2>2. SentinelTaken /\ thread = "exited" /\ cause = None
      BY <2>1 DEF Inv, QueueInv, SentinelTaken
    <2>3. enqueued = chunks
      BY <2>2 DEF Inv, ThreadInv
    <2>4. /\ yielded \in Seq(1 .. MaxChunks) /\ enqueued \in Nat
          /\ Len(yielded) \in Nat /\ Len(audioQueue) \in Nat
      BY ChunksAssumption DEF Inv, TypeOK, ApiTypeOK
    <2>5. Len(yielded) = enqueued
      BY <2>2, <2>4 DEF Inv, QueueInv
    <2>6. yielded = [i \in 1 .. Len(yielded) |-> yielded[i]]
      BY <2>4
    <2>7. \A i \in 1 .. Len(yielded) : yielded[i] = i
      BY DEF Inv, QueueInv
    <2> QED BY <2>1, <2>2, <2>3, <2>5, <2>6, <2>7
  <1> QED BY Invariance, <1>1, PTL DEF Spec, Safety

(* The input file exists while the background thread may have to open it.  *)
THEOREM InputIsThere == Spec => []InputOutlivesUpload
PROOF
  <1>1. Inv => InputOutlivesUpload
    BY DEF Inv, FileInv, InputOutlivesUpload
  <1> QED BY Invariance, <1>1, PTL DEF Spec, Safety

(* A call that has ended leaves no other temporary file than those it is   *)
(* known to leave.                                                         *)
THEOREM NoOtherFileIsLeft == Spec => []OnlyTheseFilesAreLeft
PROOF
  <1>1. Inv => OnlyTheseFilesAreLeft
    BY DEF Inv, FileInv, OnlyTheseFilesAreLeft
  <1> QED BY Invariance, <1>1, PTL DEF Spec, Safety

(* The handler does not wait at the queue of a thread that is gone: when   *)
(* the background thread has exited with the handler still in its loop,    *)
(* there is something left to take.                                        *)
SomethingToTake == handler = "drain" /\ thread = "exited" => audioQueue # <<>>

THEOREM HandlerIsNotLeftWaiting == Spec => []SomethingToTake
PROOF
  <1>1. Inv => SomethingToTake
    <2> SUFFICES ASSUME Inv, handler = "drain", thread = "exited"
                 PROVE  audioQueue # <<>>
      BY DEF SomethingToTake
    <2>1. Len(yielded) \in Nat /\ Len(audioQueue) \in Nat /\ enqueued \in Nat
      BY ChunksAssumption DEF Inv, TypeOK, ApiTypeOK
    <2>2. Signalled /\ ~SentinelTaken
      BY DEF Inv, HandlerInv, Signalled, SentinelTaken, None
    <2> QED BY <2>1, <2>2 DEF Inv, QueueInv
  <1> QED BY Invariance, <1>1, PTL DEF Spec, Safety

-----------------------------------------------------------------------------
(* The queue is a stream.                                                  *)

(* What the background thread does to it: it puts the next chunk, or       *)
(* closes it, or nothing.                                                  *)
LEMMA ThreadWrites ==
  ASSUME Inv, BackgroundStep
  PROVE  /\ UNCHANGED <<outcome, yielded>> /\ thread # "idle" /\ thread' # "idle"
         /\ \/ ~Signalled /\ ~Signalled' /\ enqueued' = enqueued + 1 /\ enqueued < chunks
            \/ UNCHANGED enqueued /\ (Signalled => Signalled')
PROOF
  <1> USE DEF Goto, Raise, CountAttempt, Unreachable, Rejected, Dubbed, JobCreated, Waiting, Signalled, outVars
  <1>1. ThreadStep /\ UNCHANGED <<outcome, yielded>>
    BY DEF BackgroundStep, outcomeVars
  <1> QED
    BY <1>1 DEF ThreadStep, CambStep, ElevenLabsStep, RequestUploadUrl,
           UploadFileToPresignedUrl, ConfirmUpload, RefreshAltFormat, RequestDubAltFormat,
           RequestRaises, SubmitDubTask, CreateDubFromFile, WaitForCompletion,
           WaitForAltFormatCompletion, WaitForDubbingCompletion, CreateTempFile, Download,
           RemoveDubbedFile, LocalFileError, CleanUp, EnqueueAudioChunks, SignalCompletion,
           SignalError

(* The numbers up to n, and one more.                                      *)
LEMMA CountOneMore ==
  ASSUME NEW n \in Nat
  PROVE  /\ [i \in 1 .. n |-> i] \in Seq(Nat) /\ Len([i \in 1 .. n |-> i]) = n
         /\ [i \in 1 .. n + 1 |-> i] = Append([i \in 1 .. n |-> i], n + 1)
PROOF
  OBVIOUS

(* Every step of the call is a step of the stream, or leaves it alone.     *)
LEMMA StepRefinement == Inv /\ [Next]_vars => [Queue!Next]_(Queue!vars)
PROOF
  <1> DEFINE S == [i \in 1 .. enqueued |-> i]
             C == thread \in {"cleanup", "exited"}
             R == [r \in {"handler"} |-> yielded]
             E == IF SentinelTaken THEN {"handler"} ELSE {}
  <1> SUFFICES ASSUME Inv, [Next]_vars
               PROVE  Queue!Next \/ (S' = S /\ C' = C /\ R' = R /\ E' = E)
    BY DEF Queue!vars, SentinelTaken
  <1>1. CASE \/ ClientSends \/ ClientCloses \/ ClientCancels \/ Collect \/ WriteInput
             \/ Finished \/ UNCHANGED vars
    <2>1. UNCHANGED <<enqueued, thread, yielded, outcome>>
      BY <1>1 DEF ClientSends, ClientCloses, ClientCancels, Collect, WriteInput, Finished, vars,
                  apiVars, outVars, outcomeVars
    <2> QED BY <2>1 DEF SentinelTaken
  <1>2. CASE \/ ReadFirst \/ NoFirstMessage \/ WriteInputFails \/ CheckFormatFails
             \/ CheckFormat \/ Keepalive
    <2>1. /\ UNCHANGED <<enqueued, yielded>> /\ outcome = None
          /\ \/ outcome' = "dropped"
             \/ UNCHANGED outcome
             \/ outcome' \in {"aborted", "raised"} /\ thread' = "idle"
          /\ thread = "idle" \/ thread' = thread
          /\ thread' \notin {"cleanup", "exited"} \/ thread' = thread
      BY <1>2 DEF ReadFirst, NoFirstMessage, WriteInputFails, CheckFormatFails, CheckFormat,
                  StartThread, Keepalive, YieldOrDrop, End, Inv, HandlerInv, apiVars, outVars,
                  outcomeVars
    <2> QED BY <2>1 DEF SentinelTaken, None
  <1>3. CASE BackgroundStep
    <2>1. CASE ~Signalled /\ ~Signalled' /\ enqueued' = enqueued + 1 /\ enqueued < chunks
      <3>1. enqueued \in Nat /\ enqueued + 1 \in 1 .. MaxChunks
        BY <2>1, ChunksAssumption DEF Inv, TypeOK, ApiTypeOK
      <3>0. PICK x \in 1 .. MaxChunks : x = enqueued + 1
        BY <3>1
      <3>2. S' = Append(S, x)
        BY <3>0, <3>1, <2>1, CountOneMore
      <3>3. ~C /\ ~C' /\ R' = R /\ E' = E
        BY <1>3, <2>1, ThreadWrites DEF Signalled, SentinelTaken
      <3>4. Queue!Send(x)
        <4>1. UNCHANGED <<C, R, E>>
          BY <3>3
        <4>2. ~C /\ S' = Append(S, x)
          BY <3>2, <3>3
        <4> QED BY <4>1, <4>2, Zenon DEF Queue!Send, SentinelTaken
      <3>5. Queue!Next
        BY <3>4 DEF Queue!Next
      <3> QED BY <3>5
    <2>2. CASE UNCHANGED enqueued /\ (Signalled => Signalled')
      <3>1. S' = S /\ R' = R /\ E' = E
        BY <1>3, <2>2, ThreadWrites DEF SentinelTaken
      <3>2. CASE C' = C
        BY <3>1, <3>2
      <3>3. CASE C' # C
        <4>1. C' = TRUE
          BY <3>3, <2>2 DEF Signalled
        <4>2. Queue!Close
          BY <3>1, <4>1 DEF Queue!Close, SentinelTaken
        <4> QED BY <4>2 DEF Queue!Next
      <3> QED BY <3>2, <3>3
    <2> QED BY <1>3, <2>1, <2>2, ThreadWrites
  <1>4. CASE YieldChunk
    <2>1. yielded' = Append(yielded, Len(yielded) + 1) /\ Len(yielded) + 1 <= enqueued
      BY <1>4, YieldKeepsInv
    <2>2. /\ UNCHANGED <<enqueued, thread>> /\ outcome = None /\ outcome' \in {None, "dropped"}
      BY <1>4 DEF YieldChunk, YieldOrDrop, End, Inv, HandlerInv
    <2>3. S' = S /\ C' = C /\ E = {} /\ E' = E
      BY <2>2 DEF SentinelTaken, None
    <2>4. yielded \in Seq(1 .. MaxChunks) /\ Len(yielded) \in Nat /\ enqueued \in Nat
      BY ChunksAssumption DEF Inv, TypeOK, ApiTypeOK
    <2>5. Len(S) = enqueued /\ S[Len(yielded) + 1] = Len(yielded) + 1
      BY <2>1, <2>4, CountOneMore
    <2>6. R' = [R EXCEPT !["handler"] = Append(@, S[Len(@) + 1])]
      BY <2>1, <2>5
    <2>7. Len(R["handler"]) < Len(S)
      BY <2>1, <2>4, <2>5
    <2>8. Queue!Deliver("handler")
      BY <2>3, <2>6, <2>7 DEF Queue!Deliver, SentinelTaken
    <2> QED BY <2>8 DEF Queue!Next
  <1>5. CASE DubCompleted \/ CambFailed \/ ElevenLabsFailed
    <2>1. Inv' /\ ~SentinelTaken /\ SentinelTaken' /\ Signalled /\ Len(yielded) = enqueued
      BY <1>5, SentinelKeepsInv
    <2>2. UNCHANGED <<enqueued, thread, yielded>>
      BY <1>5 DEF DubCompleted, CambFailed, ElevenLabsFailed, TakeSentinel
    <2>3. yielded = S
      <3>1. yielded \in Seq(1 .. MaxChunks)
        BY DEF Inv, TypeOK
      <3>2. yielded = [i \in 1 .. Len(yielded) |-> yielded[i]]
        BY <3>1
      <3>3. \A i \in 1 .. Len(yielded) : yielded[i] = i
        BY DEF Inv, QueueInv
      <3> QED BY <2>1, <3>2, <3>3
    <2>4. S' = S /\ C' = C /\ R' = R /\ C /\ R["handler"] = S /\ E' = E \cup {"handler"}
      BY <2>1, <2>2, <2>3 DEF Signalled
    <2>5. Queue!End("handler")
      BY <2>4 DEF Queue!End, SentinelTaken
    <2> QED BY <2>5 DEF Queue!Next
  <1> QED BY <1>1, <1>2, <1>3, <1>4, <1>5 DEF Next, HandlerStep

(* What the background thread puts in the queue reaches the handler in     *)
(* order, and the handler ends the call only when it has it all.           *)
THEOREM Implementation == Spec => ImplementsStream
PROOF
  <1>1. Init => Queue!Init
    BY DEF Init, ApiInit, Queue!Init, None
  <1> QED
    BY Invariance, StepRefinement, <1>1, PTL DEF Spec, Safety, ImplementsStream, Queue!Spec

=============================================================================
