----------------------------- MODULE DemoSession -----------------------------
(***************************************************************************)
(* One upload of the demo web application (client/demos/app): the page     *)
(* (components/VideoUploader), the two directions of its web socket, the   *)
(* session of the server (api/socketHandlers/content-localization) and its *)
(* call to the controller, which is external.                              *)
(*                                                                         *)
(* The server runs on one event loop: a callback is one step, up to its    *)
(* first await, together with the promises it resolves; the chunks that    *)
(* GrpcChunkStreamer chains one behind the other are therefore written     *)
(* with the event that brought them.  Left out are the messages that do not*)
(* end an upload: the status, and the error of a chunk that could not be   *)
(* processed, which the page ignores.                                      *)
(***************************************************************************)
EXTENDS Naturals, Sequences

CONSTANTS MaxChunks,    \* chunks of the uploaded file
          MaxReplies    \* bound on the pieces of video that the controller returns

ASSUME BoundsAssumption == MaxChunks \in Nat \ {0} /\ MaxReplies \in Nat

VARIABLES
  option,       \* preprocessing is enabled; voice isolation; the diarization file, if there is one
  page,         \* what the page shows
  config,       \* whether the page has sent its configuration
  sent,         \* the chunks it has serialized
  lost,         \* those of them whose serialization failed
  up, down,     \* the messages on the web socket, in each direction
  preprocess,   \* shouldPreProcessAudio
  custom,       \* whether customDiarizationFile is set
  buffer,       \* audioBuffer and videoBuffer
  doing,        \* what the session does
  call,         \* the call to the controller
  wire,         \* history: the messages written to the call
  replies,      \* the messages of the controller that have not been read
  returned,     \* history: the pieces of video the controller has returned
  file,         \* the pieces written to the output file
  preview,      \* the pieces ffmpeg has been given and has not returned
  ffmpeg,       \* the process that encodes the preview
  outcomes      \* history: the final messages sent to the page

pageVars   == <<option, page, config, sent, lost>>
inputVars  == <<preprocess, custom, buffer, doing>>
callVars   == <<call, wire>>
outputVars == <<file, preview, ffmpeg, outcomes>>
vars == <<pageVars, up, down, inputVars, callVars, replies, returned, outputVars>>

(* A diarization file: the parser makes something of it, or nothing, or it *)
(* throws, at a record that is not what it expects.                        *)
Diarization == {"none", "readable", "useless", "malformed"}

Init ==
  /\ option \in [enabled : BOOLEAN, isolation : BOOLEAN, diarization : Diarization]
  /\ page = "uploading"
  /\ config = FALSE
  /\ sent = 0
  /\ lost = {}
  /\ up = <<>> /\ down = <<>>
  /\ preprocess = TRUE
  /\ custom = FALSE
  /\ buffer = <<>>
  /\ doing = "receiving"
  /\ call = "none"
  /\ wire = <<>>
  /\ replies = <<>> /\ returned = 0
  /\ file = 0 /\ preview = 0
  /\ ffmpeg = "none"
  /\ outcomes = <<>>

-----------------------------------------------------------------------------
(* The page.                                                               *)

(* A page that has stopped on an error of its own goes on like this, as its*)
(* socket stays open.                                                      *)
Connected == page \in {"uploading", "stopped"}

Sends(message) ==
  /\ Connected
  /\ up' = Append(up, message)
  /\ UNCHANGED <<option, page, down, inputVars, callVars, replies, returned, outputVars>>

(* sendLanguageConfig waits until a diarization file has been read; the    *)
(* reader of the video does not wait for it.                               *)
SendConfig ==
  /\ ~config
  /\ config' = TRUE
  /\ Sends(<<"config">>)
  /\ UNCHANGED <<sent, lost>>

ChunkIsNext == sent < MaxChunks /\ (config \/ option.diarization # "none")

SendChunk ==
  /\ ChunkIsNext
  /\ sent' = sent + 1
  /\ Sends(<<"chunk", sent'>>)
  /\ UNCHANGED <<config, lost>>

(* The end is sent when the last chunk has been serialized.                *)
SendEnd ==
  /\ sent = MaxChunks /\ MaxChunks \notin lost
  /\ sent' = sent + 1
  /\ Sends(<<"end">>)
  /\ UNCHANGED <<config, lost>>

(* onSerializerError: the page shows an error, but stays connected, and its*)
(* worker goes on to the next chunk.                                       *)
SerializationFails ==
  /\ Connected
  /\ ChunkIsNext
  /\ sent' = sent + 1
  /\ lost' = lost \cup {sent'}
  /\ page' = "stopped"
  /\ UNCHANGED <<option, config, up, down, inputVars, callVars, replies, returned, outputVars>>

PageUnchanged ==
  UNCHANGED <<option, config, sent, lost, inputVars, callVars, replies, returned, outputVars>>

(* The final message ends the upload, and the page disconnects.            *)
Receive ==
  /\ down # <<>>
  /\ down' = Tail(down)
  /\ IF Connected /\ Head(down) # "preview"
     THEN page' = Head(down) /\ up' = Append(up, <<"close">>)
     ELSE UNCHANGED <<page, up>>
  /\ PageUnchanged

(* The page is left, or reset, or begins another upload.                   *)
Leave ==
  /\ Connected
  /\ page' = "gone"
  /\ up' = Append(up, <<"close">>)
  /\ UNCHANGED down
  /\ PageUnchanged

(* What is under way on the socket is lost.                                *)
ConnectionBreaks ==
  /\ Connected
  /\ page' = "error"
  /\ up' = <<<<"close">>>>
  /\ down' = <<>>
  /\ PageUnchanged

-----------------------------------------------------------------------------
(* The messages of the page: contentLocalization.                          *)

Closed == doing \in {"closed", "closed_preprocessing"}

Arrives(kind) == up # <<>> /\ Head(up)[1] = kind /\ ~Closed /\ up' = Tail(up)

Flat(chunks) == [i \in DOMAIN chunks |-> <<"data", chunks[i]>>]

(* GrpcChunkStreamer.send: the configurations go before the first chunk.   *)
Preamble(diarized) ==
  <<<<"controller_config">>>>
  \o (IF diarized THEN <<<<"asd_config">>>> ELSE <<>>)
  \o <<<<"lipsync_config">>>>
  \o (IF diarized THEN <<<<"diarization_info">>>> ELSE <<>>)
  \o <<<<"s2s_config">>>>

(* streamToUpstream of each chunk: the first one opens the call, unless the*)
(* diarization throws, which leaves everything as it was.                  *)
Upstream(chunks, diarization, more) ==
  LET opens == call = "none" /\ diarization # "malformed"
  IN  /\ call' = IF opens THEN "open" ELSE call
      /\ ffmpeg' = IF opens THEN "up" ELSE ffmpeg
      /\ wire' = IF opens THEN Preamble(diarization = "readable") \o Flat(chunks) \o more
                 ELSE IF call = "open" THEN wire \o Flat(chunks) \o more
                 ELSE wire

HandleConfig ==
  /\ Arrives("config")
  /\ custom' = (option.diarization # "none")
  /\ preprocess' = (option.enabled /\ (option.isolation \/ option.diarization = "none"))
  /\ UNCHANGED <<pageVars, down, buffer, doing, callVars, replies, returned, outputVars>>

HandleChunk ==
  /\ Arrives("chunk")
  /\ IF preprocess THEN buffer' = Append(buffer, Head(up)[2]) /\ UNCHANGED <<callVars, ffmpeg>>
     ELSE /\ Upstream(<<Head(up)[2]>>, IF custom THEN option.diarization ELSE "none", <<>>)
          /\ UNCHANGED buffer
  /\ UNCHANGED <<pageVars, down, preprocess, custom, doing, replies, returned, file, preview, outcomes>>

(* Fault: what is left in the buffer is sent before the end.               *)
FlushesTheBuffer ==
  /\ Arrives("end")
  /\ doing' = IF preprocess THEN "preprocessing" ELSE "waiting"
  /\ IF preprocess THEN UNCHANGED <<callVars, ffmpeg>>
     ELSE Upstream(buffer, IF custom THEN option.diarization ELSE "none", <<<<"end">>>>)
  /\ UNCHANGED <<pageVars, down, preprocess, custom, buffer, replies, returned, file, preview, outcomes>>

(* streamEnd up to its await; without a call, onEnd is null.               *)
HandleEnd ==
  /\ Arrives("end")
  /\ doing' = IF preprocess THEN "preprocessing" ELSE "waiting"
  /\ wire' = IF ~preprocess /\ call = "open" THEN Append(wire, <<"end">>) ELSE wire
  /\ UNCHANGED <<pageVars, down, preprocess, custom, buffer, call, replies, returned, outputVars>>

(* After the await: the processed audio, or the original when the          *)
(* processing failed, goes upstream, with the diarization of the user, or  *)
(* else that of the service, if there is one.  When it throws, the original*)
(* is tried, with the same diarization, which throws again.                *)
Preprocessed ==
  /\ doing \in {"preprocessing", "closed_preprocessing"}
  /\ doing' = IF doing = "preprocessing" THEN "waiting" ELSE "closed"
  /\ \E found \in IF custom THEN {option.diarization} ELSE {"none", "readable", "malformed"} :
       Upstream(buffer, found, <<<<"end">>>>)
  /\ UNCHANGED <<pageVars, up, down, preprocess, custom, buffer, replies, returned, file, preview, outcomes>>

(* Fault: the close of the socket is not passed on.                        *)
CloseTheSocketOnly ==
  /\ Arrives("close")
  /\ doing' = IF doing = "preprocessing" THEN "closed_preprocessing" ELSE "closed"
  /\ UNCHANGED <<pageVars, down, preprocess, custom, buffer, callVars, replies, returned, outputVars>>

(* cancel: a call that is open fails with CANCELLED, ffmpeg is killed.     *)
HandleClose ==
  /\ Arrives("close")
  /\ doing' = IF doing = "preprocessing" THEN "closed_preprocessing" ELSE "closed"
  /\ ffmpeg' = IF ffmpeg = "up" THEN "killed" ELSE ffmpeg
  /\ IF call = "open" THEN call' = "over" /\ replies' = <<"failed">>
     ELSE UNCHANGED <<call, replies>>
  /\ UNCHANGED <<pageVars, down, preprocess, custom, buffer, wire, returned, file, preview, outcomes>>

-----------------------------------------------------------------------------
(* The controller: it returns video and ends the call, well only when it   *)
(* has seen the end of the input.                                          *)

Ended == wire # <<>> /\ wire[Len(wire)] = <<"end">>

Replies(reply) ==
  /\ call = "open"
  /\ replies' = Append(replies, reply)
  /\ UNCHANGED <<pageVars, up, down, inputVars, wire, outputVars>>

ReturnsVideo ==
  /\ returned < MaxReplies
  /\ returned' = returned + 1
  /\ Replies("video")
  /\ UNCHANGED call

EndsTheCall ==
  /\ \/ Ended /\ Replies("ok")
     \/ Replies("failed")
  /\ call' = "over"
  /\ UNCHANGED returned

-----------------------------------------------------------------------------
(* The callbacks of the call and of ffmpeg: createLocalizationStream.      *)

Sent(kind) == down' = IF Closed THEN down ELSE Append(down, kind)

Outcome(kind) == outcomes' = Append(outcomes, kind) /\ Sent(kind)

TakesReply(kind) ==
  /\ replies # <<>> /\ Head(replies) = kind
  /\ replies' = Tail(replies)
  /\ UNCHANGED <<pageVars, up, inputVars, callVars, returned>>

OnData ==
  /\ TakesReply("video")
  /\ file' = file + 1
  /\ preview' = IF ffmpeg = "up" THEN preview + 1 ELSE preview
  /\ UNCHANGED <<down, ffmpeg, outcomes>>

PreviewEncoded ==
  /\ ffmpeg = "up"
  /\ preview > 0
  /\ preview' = preview - 1
  /\ Sent("preview")
  /\ UNCHANGED <<pageVars, up, inputVars, callVars, replies, returned, file, ffmpeg, outcomes>>

FfmpegFails ==
  /\ ffmpeg = "up"
  /\ ffmpeg' = "failed"
  /\ preview' = 0
  /\ UNCHANGED <<pageVars, up, down, inputVars, callVars, replies, returned, file, outcomes>>

(* onEnd: what ffmpeg has not returned by now is not sent any more.        *)
OnEnd ==
  /\ TakesReply("ok")
  /\ IF ffmpeg = "failed" THEN Outcome("error") /\ UNCHANGED ffmpeg
     ELSE ffmpeg' = "finalizing" /\ UNCHANGED <<down, outcomes>>
  /\ preview' = 0
  /\ UNCHANGED file

(* Fault: the end that follows an error is taken for the end of the video. *)
EndAfterError ==
  /\ TakesReply("failed")
  /\ Outcome("error")
  /\ ffmpeg' = "finalizing"
  /\ preview' = 0
  /\ UNCHANGED file

(* Fault: the error is only logged.                                        *)
LogErrorOnly ==
  /\ TakesReply("failed")
  /\ ffmpeg' = "killed"
  /\ preview' = 0
  /\ UNCHANGED <<down, file, outcomes>>

(* onError, and the end event that follows it at once.                     *)
OnError ==
  /\ TakesReply("failed")
  /\ Outcome("error")
  /\ ffmpeg' = "killed"
  /\ preview' = 0
  /\ UNCHANGED file

(* finalizeOutput: the file is flushed and, if asked for, remuxed.         *)
Finalized ==
  /\ ffmpeg = "finalizing"
  /\ ffmpeg' = "done"
  /\ Outcome("result")
  /\ UNCHANGED <<pageVars, up, inputVars, callVars, replies, returned, file, preview>>

(* The file cannot be flushed: the rejection has no handler, and the page  *)
(* is told nothing.  (A server that dies of it is a broken connection.)    *)
FinalizingFails ==
  /\ ffmpeg = "finalizing"
  /\ ffmpeg' = "unwritten"
  /\ UNCHANGED <<pageVars, up, down, inputVars, callVars, replies, returned, file, preview, outcomes>>

-----------------------------------------------------------------------------
PageSends == SendConfig \/ SendChunk \/ SendEnd \/ SerializationFails

(* A diarization file that cannot be read holds the configuration up for   *)
(* good.                                                                   *)
PageGoesOn ==
  \/ option.diarization = "none" /\ SendConfig
  \/ SendChunk \/ SendEnd \/ SerializationFails

SessionStep == HandleConfig \/ HandleChunk \/ HandleEnd \/ HandleClose

CallbackStep == OnData \/ OnEnd \/ OnError \/ Finalized \/ FinalizingFails

Next ==
  \/ PageSends \/ Receive \/ Leave \/ ConnectionBreaks
  \/ SessionStep \/ Preprocessed
  \/ ReturnsVideo \/ EndsTheCall
  \/ CallbackStep \/ PreviewEncoded \/ FfmpegFails

(* The page and the event loop go on, the services that process the audio  *)
(* answer, and the controller ends a call whose input has ended.           *)
Spec ==
  /\ Init /\ [][Next]_vars
  /\ WF_vars(PageGoesOn) /\ WF_vars(Receive)
  /\ WF_vars(SessionStep) /\ WF_vars(Preprocessed)
  /\ WF_vars(Ended /\ EndsTheCall)
  /\ WF_vars(CallbackStep)

-----------------------------------------------------------------------------
(* Whatever the options, and wherever the configuration comes between the  *)
(* chunks, the input of the controller is what it asks for: the preamble,  *)
(* once, then chunks in the order of the file, none of them twice, and the *)
(* end last.                                                               *)
InputIsInOrder ==
  call # "none" =>
    \E diarized \in BOOLEAN :
      LET n == Len(Preamble(diarized)) IN
        /\ n <= Len(wire)
        /\ \A i \in 1 .. n : wire[i] = Preamble(diarized)[i]
        /\ \A i \in n + 1 .. Len(wire) : wire[i][1] = "data" \/ (wire[i] = <<"end">> /\ i = Len(wire))
        /\ \A i, k \in n + 1 .. Len(wire) :
             i < k /\ wire[k][1] = "data" => wire[i][2] < wire[k][2]

(* Preprocessed or not, the controller is sent every chunk of the upload   *)
(* (ContentLocalizationHandler.ts): its input is ended behind all of those *)
(* that the page has sent.                                                 *)
EndedMeansWholeFile ==
  Ended =>
    \A n \in 1 .. MaxChunks : n \in lost \/ \E i \in 1 .. Len(wire) : wire[i] = <<"data", n>>

(* An upload gets one final message, and the message is a result only if   *)
(* the controller has ended the call well and the file holds all the video *)
(* it returned.                                                            *)
OneOutcome ==
  /\ Len(outcomes) <= 1
  /\ outcomes = <<"result">> => Ended /\ file = returned

(* No call to the controller stays open: its input is ended, or it is      *)
(* cancelled when the page has gone, unless the page has lost the last     *)
(* chunk and stays, so that it sends no end.                               *)
CallsEnd == call = "open" ~> call = "over" \/ (page = "stopped" /\ MaxChunks \in lost)

(* An upload that has reached the controller comes to a result or an error,*)
(* or the user leaves, unless the result cannot be written.  (One that has *)
(* not reached it when the input ends is never answered.)                  *)
CallIsReported == page = "uploading" /\ call # "none" ~> page # "uploading" \/ ffmpeg = "unwritten"

=============================================================================
