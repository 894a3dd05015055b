------------------------------- MODULE Buffer -------------------------------
(***************************************************************************)
(* src/common/buffers.py: the Buffer class, one queue.Queue per consumer,  *)
(* and RequestIteratorFromBuffer, the polling iterator that drains one of  *)
(* the queues until the buffer is exhausted.                               *)
(*                                                                         *)
(* The module holds the shared state and the steps of the buffer and of    *)
(* its iterators.  The modules that extend it (Deserializer, FeederStream) *)
(* add the threads that produce into the buffer.                           *)
(*                                                                         *)
(* Every step is one critical section of the code: queue.Queue.put/get,    *)
(* the done lock and the stats lock are taken one after the other, so      *)
(* other threads run between them.                                         *)
(***************************************************************************)
EXTENDS Integers, Sequences

CONSTANTS Item,        \* the values that travel through the buffer
          NumQueues,   \* num_queues: one queue per consumer
          MaxSize      \* max_size of every queue; 0 stands for None (unbounded)

ASSUME NumQueuesAssumption == NumQueues \in Nat \ {0}
ASSUME MaxSizeAssumption == MaxSize \in Nat

QueueId == 0 .. NumQueues - 1

VARIABLES queues,      \* _queues: the content of each queue
          done,        \* _done
          putCount,    \* _put_count
          getCount,    \* _get_count
          iter,        \* where the iterator of each queue is
          got          \* history: what get() returned to each iterator

bufferVars == <<queues, done, putCount, getCount, iter, got>>
iterVars   == <<iter, got, getCount>>

(* "poll"      waiting in Queue.get(timeout=poll_timeout)                  *)
(* "count"     Queue.get returned, _get_count is not yet incremented       *)
(* "readDone"  queue.Empty was raised; is_exhausted reads done first ...   *)
(* "readEmpty" ... done was read as True; it reads empty() next            *)
(* "ended"     StopIteration                                               *)
(* "abandoned" the generator was dropped before its end                    *)
IterState == {"poll", "count", "readDone", "readEmpty", "ended", "abandoned"}

BufferInit ==
  /\ queues = [q \in QueueId |-> <<>>]
  /\ putCount = 0
  /\ getCount = 0
  /\ iter = [q \in QueueId |-> "poll"]
  /\ got = [q \in QueueId |-> <<>>]

BufferTypeOK ==
  /\ queues \in [QueueId -> Seq(Item)]
  /\ done \in BOOLEAN
  /\ putCount \in Nat
  /\ getCount \in Nat
  /\ iter \in [QueueId -> IterState]
  /\ got \in [QueueId -> Seq(Item)]

-----------------------------------------------------------------------------
(* The producer's side: the steps a put() is made of, and the done flag.   *)

Full(q) == MaxSize > 0 /\ Len(queues[q]) >= MaxSize

(* Queue.put on one of the queues.                                         *)
Enqueue(q, item) ==
  /\ ~Full(q)
  /\ queues' = [queues EXCEPT ![q] = Append(@, item)]

(* Fault: the copies are counted, not the item.                            *)
CountCopies == putCount' = putCount + NumQueues

(* The stats lock, taken once every queue has the item.                    *)
CountPut == putCount' = putCount + 1

SignalDone == done' = TRUE

-----------------------------------------------------------------------------
(* The consumer's side: Buffer.get and the loop of _make_generator.        *)

GetItem(q) ==
  /\ iter[q] = "poll"
  /\ queues[q] # <<>>
  /\ queues' = [queues EXCEPT ![q] = Tail(@)]
  /\ got' = [got EXCEPT ![q] = Append(@, Head(queues[q]))]
  /\ iter' = [iter EXCEPT ![q] = "count"]
  /\ UNCHANGED <<done, putCount, getCount>>

CountGet(q) ==
  /\ iter[q] = "count"
  /\ getCount' = getCount + 1
  /\ iter' = [iter EXCEPT ![q] = "poll"]
  /\ UNCHANGED <<queues, done, putCount, got>>

(* queue.Empty: the queue is still empty when the poll timeout expires.    *)
GetTimesOut(q) ==
  /\ iter[q] = "poll"
  /\ queues[q] = <<>>
  /\ iter' = [iter EXCEPT ![q] = "readDone"]
  /\ UNCHANGED <<queues, done, putCount, getCount, got>>

(* is_exhausted, first operand.                                            *)
ReadDone(q) ==
  /\ iter[q] = "readDone"
  /\ iter' = [iter EXCEPT ![q] = IF done THEN "readEmpty" ELSE "poll"]
  /\ UNCHANGED <<queues, done, putCount, getCount, got>>

(* Fault: empty() is evaluated before done, at the timeout.                *)
ReadEmptyWrongOrder(q) ==
  /\ iter[q] = "readEmpty"
  /\ iter' = [iter EXCEPT ![q] = "ended"]
  /\ UNCHANGED <<queues, done, putCount, getCount, got>>

(* is_exhausted, second operand, evaluated after the first: items that     *)
(* were put between the timeout and done = True are still seen here.       *)
ReadEmpty(q) ==
  /\ iter[q] = "readEmpty"
  /\ iter' = [iter EXCEPT ![q] = IF queues[q] = <<>> THEN "ended" ELSE "poll"]
  /\ UNCHANGED <<queues, done, putCount, getCount, got>>

IterStep(q) ==
  \/ GetItem(q)
  \/ CountGet(q)
  \/ GetTimesOut(q)
  \/ ReadDone(q)
  \/ ReadEmpty(q)

(* The consumer stops iterating, for example because the gRPC call that    *)
(* pulled from the iterator ended: nothing reads this queue any more.      *)
Abandon(q) ==
  /\ iter[q] = "poll"
  /\ iter' = [iter EXCEPT ![q] = "abandoned"]
  /\ UNCHANGED <<queues, done, putCount, getCount, got>>

-----------------------------------------------------------------------------
(* Everything that has gone through queue q so far.                        *)
Through(q) == got[q] \o queues[q]

(* What an iterator that saw done = True may rely on, and what a drained   *)
(* one leaves behind.                                                      *)
EndSeen ==
  \A q \in QueueId :
    /\ iter[q] \in {"readEmpty", "ended"} => done
    /\ iter[q] = "ended" => queues[q] = <<>>

=============================================================================
