---------------------------- MODULE Deserializer ----------------------------
(***************************************************************************)
(* src/common/deserializer.py: the background thread that consumes the     *)
(* inbound gRPC stream and fans every request out to the queues of a       *)
(* buffer, and the iterators that drain those queues.                      *)
(*                                                                         *)
(* ContentLocalizationDeserializer routes each request to one of nine such *)
(* buffers; this module follows one of them (the requests routed to the    *)
(* others leave it unchanged).  The thread is the buffer's only producer   *)
(* and puts without a timeout.                                             *)
(***************************************************************************)
EXTENDS Buffer

CONSTANTS MaxRequests,   \* bound on the requests taken from the stream
          MayAbandon     \* whether a consumer may drop its iterator early

ASSUME MaxRequestsAssumption == MaxRequests \in Nat
ASSUME MayAbandonAssumption == MayAbandon \in BOOLEAN

VARIABLES pc,            \* where the worker thread is
          next,          \* put(): the next queue to receive the request
          request,       \* the request in the worker's hands
          sent,          \* history: the requests handed to put()
          stopEvent      \* _stop_event

workerVars == <<pc, next, request, sent>>
vars == <<bufferVars, workerVars, stopEvent>>

(* "read"     blocked in the request iterator                              *)
(* "check"    a request arrived; the stop event is tested next             *)
(* "put"      inside Buffer.put, about to reach queue next                 *)
(* "count"    every queue has the request, _put_count is next              *)
(* "complete" the finally clause: _on_complete                             *)
WorkerState == {"read", "check", "put", "count", "complete", "exited"}

Init ==
  /\ BufferInit
  /\ done = FALSE
  /\ pc = "read"
  /\ next = 0
  /\ request \in Item
  /\ sent = <<>>
  /\ stopEvent = FALSE

-----------------------------------------------------------------------------
(* The worker thread.                                                      *)

Receive(item) ==
  /\ pc = "read"
  /\ Len(sent) < MaxRequests
  /\ request' = item
  /\ pc' = "check"
  /\ UNCHANGED <<bufferVars, next, sent, stopEvent>>

(* The inbound stream ends or raises: the exception is logged and the      *)
(* finally clause runs in both cases.                                      *)
StreamEnds ==
  /\ pc = "read"
  /\ pc' = "complete"
  /\ UNCHANGED <<bufferVars, next, request, sent, stopEvent>>

CheckStopSet ==
  /\ pc = "check"
  /\ stopEvent
  /\ pc' = "complete"
  /\ UNCHANGED <<bufferVars, next, request, sent, stopEvent>>

Distribute ==
  /\ pc = "check"
  /\ ~stopEvent
  /\ pc' = "put"
  /\ next' = 0
  /\ sent' = Append(sent, request)
  /\ UNCHANGED <<bufferVars, request, stopEvent>>

(* One queue of the fan-out loop; it blocks while that queue is full.      *)
PutNext ==
  /\ pc = "put"
  /\ Enqueue(next, request)
  /\ next' = next + 1
  /\ pc' = IF next + 1 = NumQueues THEN "count" ELSE "put"
  /\ UNCHANGED <<done, putCount, iterVars, request, sent, stopEvent>>

PutCounted ==
  /\ pc = "count"
  /\ CountPut
  /\ pc' = "read"
  /\ UNCHANGED <<queues, done, iterVars, next, request, sent, stopEvent>>

(* Fault: an early stop leaves the buffer open.                            *)
CompleteUnlessStopped ==
  /\ pc = "complete"
  /\ IF stopEvent THEN UNCHANGED done ELSE SignalDone
  /\ pc' = "exited"
  /\ UNCHANGED <<queues, putCount, iterVars, next, request, sent, stopEvent>>

(* The finally clause: _on_complete marks the buffer done.                 *)
Complete ==
  /\ pc = "complete"
  /\ SignalDone
  /\ pc' = "exited"
  /\ UNCHANGED <<queues, putCount, iterVars, next, request, sent, stopEvent>>

WorkerStep == CheckStopSet \/ Distribute \/ PutNext \/ PutCounted \/ Complete

-----------------------------------------------------------------------------
(* The request's main thread calls stop(); the wait that follows has a     *)
(* timeout and changes nothing.                                            *)
Stop ==
  /\ ~stopEvent
  /\ stopEvent' = TRUE
  /\ UNCHANGED <<bufferVars, workerVars>>

Consume(q) == IterStep(q) /\ UNCHANGED <<workerVars, stopEvent>>

Drop(q) == MayAbandon /\ Abandon(q) /\ UNCHANGED <<workerVars, stopEvent>>

(* Every thread of the request has finished.                               *)
Finished ==
  /\ pc = "exited"
  /\ stopEvent
  /\ \A q \in QueueId : iter[q] \in {"ended", "abandoned"}
  /\ UNCHANGED vars

Next ==
  \/ \E item \in Item : Receive(item)
  \/ StreamEnds
  \/ WorkerStep
  \/ Stop
  \/ \E q \in QueueId : Consume(q) \/ Drop(q)
  \/ Finished

(* The operating system schedules the worker and the consumers; nothing    *)
(* makes the client send or end its stream, or the main thread call stop().*)
Fairness ==
  /\ WF_vars(WorkerStep)
  /\ \A q \in QueueId : WF_vars(Consume(q))

Safety == Init /\ [][Next]_vars
Spec == Safety /\ Fairness

-----------------------------------------------------------------------------
(* The values of the variables stay in their types.                        *)
TypeOK ==
  /\ BufferTypeOK
  /\ pc \in WorkerState
  /\ next \in 0 .. NumQueues
  /\ request \in Item
  /\ sent \in Seq(Item)
  /\ stopEvent \in BOOLEAN

(* Fan-out keeps order and loses nothing: what went through each queue is  *)
(* exactly what the worker handed to put(), except that while the worker   *)
(* is inside put() the queues it has not reached lack the last request.    *)
FanoutInOrder ==
  \A q \in QueueId :
    IF pc = "put" /\ q >= next
    THEN Append(Through(q), request) = sent
    ELSE Through(q) = sent

(* RequestIteratorFromBuffer stops only when it has returned every request *)
(* that was ever put, although done and empty() are read at two moments.   *)
EndedMeansComplete ==
  \A q \in QueueId : iter[q] = "ended" => done /\ got[q] = sent

(* The docstring of get_count: once everything is consumed, one get per    *)
(* queue per item was counted; and put_count counts items, not copies.     *)
CountersSettle ==
  (/\ pc = "exited"
   /\ \A q \in QueueId : iter[q] = "ended")
  => putCount = Len(sent) /\ getCount = putCount * NumQueues

(* A consumer never observes a done flag that is reset, nor a request that *)
(* is put after done was read as True.                                     *)
NothingAfterDone == [][done => done' /\ sent' = sent /\ putCount' = putCount]_vars

(* Consumers are released: once the worker leaves its loop, for whatever   *)
(* reason, every iterator that is still used comes to its end.             *)
ConsumersAreReleased ==
  \A q \in QueueId : pc = "complete" ~> iter[q] \in {"ended", "abandoned"}

(* The buffer implements a stream that is written once and read in full.   *)
AbstractStream ==
  INSTANCE Stream WITH Reader <- QueueId,
                       closed <- done,
                       received <- got,
                       ended <- {q \in QueueId : iter[q] = "ended"}

ImplementsStream == AbstractStream!Spec

=============================================================================
