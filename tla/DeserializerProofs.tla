------------------------- MODULE DeserializerProofs -------------------------
(***************************************************************************)
(* Deserializer, for any set of items, any number of queues of any size    *)
(* and any number of requests: every queue carries the requests in order,  *)
(* an iterator stops only when it has them all, nothing is put behind the  *)
(* done flag, the statistics settle, and the buffer implements Stream.     *)
(* Then ControllerInputs, for any number of messages: no queue of the nine *)
(* buffers has two readers, none is left unread, and both readers of a     *)
(* fanned-out payload get it.                                              *)
(***************************************************************************)
EXTENDS Deserializer, ControllerInputs, BufferProofs

(* The worker leaves its fan-out loop after the last queue, and done is up *)
(* exactly when the worker has exited.                                     *)
WorkerInv ==
  /\ pc = "put" => next < NumQueues
  /\ done <=> pc = "exited"

(* The inductive invariant.  FanoutInOrder needs the worker's position in  *)
(* its loop, and EndedMeansComplete the evidence that EndSeen carries from *)
(* the read of done to the read of empty().                                *)
Inv == TypeOK /\ FanoutInOrder /\ WorkerInv /\ EndSeen

-----------------------------------------------------------------------------
(* The worker starts with empty queues and nothing sent.                   *)
LEMMA InitInv == Init => Inv
PROOF
  <1> SUFFICES ASSUME Init PROVE Inv
    OBVIOUS
  <1> USE DEF Init, BufferInit
  <1>1. <<>> \in Seq(Item)
    BY EmptySeq
  <1>2. TypeOK
    <2>1. BufferTypeOK
      BY <1>1 DEF BufferTypeOK, IterState
    <2>2. next \in 0 .. NumQueues
      BY NumQueuesAssumption
    <2> QED BY <1>1, <2>1, <2>2 DEF TypeOK, WorkerState
  <1>3. FanoutInOrder
    <2>1. \A q \in QueueId : Through(q) = <<>>
      BY <1>1, ConcatEmptySeq DEF Through
    <2> QED BY <2>1 DEF FanoutInOrder
  <1>4. WorkerInv
    BY DEF WorkerInv
  <1>5. EndSeen
    BY DEF EndSeen
  <1> QED BY <1>2, <1>3, <1>4, <1>5 DEF Inv

(* Every step keeps the types.                                             *)
LEMMA NextKeepsType == Inv /\ [Next]_vars => TypeOK'
PROOF
  <1> SUFFICES ASSUME Inv, [Next]_vars PROVE TypeOK'
    OBVIOUS
  <1> USE DEF Inv, TypeOK, WorkerState, workerVars
  <1>0. NumQueues \in Nat \ {0}
    BY NumQueuesAssumption
  <1>1. CASE UNCHANGED bufferVars /\ (UNCHANGED stopEvent \/ stopEvent' = TRUE)
             /\ (\/ \E item \in Item : Receive(item)
                 \/ StreamEnds
                 \/ CheckStopSet
                 \/ UNCHANGED workerVars)
    <2>1. BufferTypeOK'
      BY <1>1 DEF bufferVars, BufferTypeOK
    <2> QED BY <1>1, <2>1 DEF Receive, StreamEnds, CheckStopSet
  <1>2. CASE Distribute
    <2>1. Append(sent, request) \in Seq(Item)
      BY AppendProperties
    <2> QED BY <1>0, <1>2, <2>1 DEF Distribute, bufferVars, BufferTypeOK
  <1>3. CASE PutNext
    <2>1. next \in QueueId
      BY <1>0, <1>3 DEF PutNext, WorkerInv, QueueId
    <2>2. Append(queues[next], request) \in Seq(Item)
      BY <2>1, AppendProperties DEF BufferTypeOK
    <2>3. BufferTypeOK'
      BY <1>3, <2>1, <2>2 DEF PutNext, Enqueue, BufferTypeOK, iterVars
    <2> QED BY <1>0, <1>3, <2>1, <2>3 DEF PutNext, QueueId
  <1>4. CASE PutCounted
    BY <1>4 DEF PutCounted, CountPut, BufferTypeOK, iterVars
  <1>5. CASE Complete
    BY <1>5 DEF Complete, SignalDone, BufferTypeOK, iterVars
  <1>6. ASSUME NEW q \in QueueId, Consume(q) PROVE TypeOK'
    <2>1. BufferTypeOK'
      BY <1>6, IterStepKeepsType DEF Consume
    <2> QED BY <1>6, <2>1 DEF Consume
  <1>7. ASSUME NEW q \in QueueId, Drop(q) PROVE TypeOK'
    BY <1>7 DEF Drop, Abandon, BufferTypeOK, IterState
  <1> QED
    BY <1>1, <1>2, <1>3, <1>4, <1>5, <1>6, <1>7
       DEF Next, WorkerStep, Receive, StreamEnds, CheckStopSet, Stop, Finished, vars

(* Every step keeps the fan-out in order.                                  *)
LEMMA NextKeepsFanout == Inv /\ [Next]_vars => FanoutInOrder'
PROOF
  <1> SUFFICES ASSUME Inv, [Next]_vars, NEW q \in QueueId
               PROVE  IF pc' = "put" /\ q >= next'
                      THEN Append(Through(q)', request') = sent'
                      ELSE Through(q)' = sent'
    BY DEF FanoutInOrder
  <1> DEFINE Goal == IF pc' = "put" /\ q >= next'
                     THEN Append(Through(q)', request') = sent'
                     ELSE Through(q)' = sent'
  <1> USE DEF Inv, workerVars
  <1>0. /\ NumQueues \in Nat \ {0}
        /\ q \in Nat /\ q < NumQueues
        /\ next \in Nat
    BY NumQueuesAssumption DEF QueueId, TypeOK
  <1>f. IF pc = "put" /\ q >= next THEN Append(Through(q), request) = sent ELSE Through(q) = sent
    BY DEF FanoutInOrder
  <1>1. CASE UNCHANGED <<queues, got, sent>> /\ pc # "put" /\ pc' # "put"
    <2>1. Through(q)' = Through(q)
      BY <1>1 DEF Through
    <2> QED BY <1>1, <2>1, <1>f
  <1>2. CASE Distribute
    <2>1. Through(q)' = Through(q)
      BY <1>2 DEF Distribute, bufferVars, Through
    <2> QED BY <1>0, <1>2, <2>1, <1>f DEF Distribute
  <1>3. CASE PutNext
    <2>1. next \in QueueId /\ next < NumQueues
      BY <1>0, <1>3 DEF PutNext, WorkerInv, QueueId
    <2>2. CASE q = next
      <3>1. queues[q] \in Seq(Item) /\ got[q] \in Seq(Item) /\ request \in Item
        BY DEF TypeOK, BufferTypeOK
      <3>2. got'[q] = got[q] /\ queues'[q] = Append(queues[q], request)
        BY <1>3, <2>2 DEF PutNext, Enqueue, iterVars, TypeOK, BufferTypeOK
      <3>3. got[q] \o Append(queues[q], request) = Append(got[q] \o queues[q], request)
        <4>1. \A s, t \in Seq(Item), e \in Item : s \o Append(t, e) = Append(s \o t, e)
          BY AppendToConcat
        <4> QED BY <3>1, <4>1
      <3>4. Through(q)' = Append(Through(q), request)
        BY <3>2, <3>3 DEF Through
      <3>5. ~(pc' = "put" /\ q >= next')
        BY <1>0, <1>3, <2>2 DEF PutNext
      <3>6. Append(Through(q), request) = sent /\ sent' = sent
        BY <1>0, <1>3, <2>2, <1>f DEF PutNext
      <3> QED BY <3>4, <3>5, <3>6
    <2>3. CASE q # next
      <3>1. got'[q] = got[q] /\ queues'[q] = queues[q]
        BY <1>3, <2>3 DEF PutNext, Enqueue, iterVars, TypeOK, BufferTypeOK
      <3>2. Through(q)' = Through(q)
        BY <3>1 DEF Through
      <3>3. (pc' = "put" /\ q >= next') <=> (pc = "put" /\ q >= next)
        BY <1>0, <1>3, <2>1, <2>3 DEF PutNext
      <3> QED BY <3>2, <3>3, <1>3, <1>f DEF PutNext
    <2> QED BY <2>2, <2>3
  <1>4. ASSUME NEW p \in QueueId, Consume(p) PROVE Goal
    <2>1. Through(q)' = Through(q)
      BY <1>4, IterStepKeepsThrough DEF Consume, TypeOK
    <2> QED BY <1>4, <2>1, <1>f DEF Consume
  <1>5. CASE UNCHANGED <<queues, got, workerVars>>
    <2>1. Through(q)' = Through(q)
      BY <1>5 DEF Through
    <2> QED BY <1>5, <2>1, <1>f
  <1>6. CASE (\E item \in Item : Receive(item)) \/ StreamEnds \/ CheckStopSet \/ PutCounted \/ Complete
    BY <1>6, <1>1 DEF Receive, StreamEnds, CheckStopSet, PutCounted, Complete, bufferVars, iterVars
  <1>7. CASE Stop \/ (\E p \in QueueId : Drop(p)) \/ Finished \/ UNCHANGED vars
    BY <1>7, <1>5 DEF Stop, Drop, Abandon, Finished, vars, bufferVars
  <1> QED BY <1>2, <1>3, <1>4, <1>6, <1>7 DEF Next, WorkerStep

(* Every step keeps the worker's part of the invariant.                    *)
LEMMA NextKeepsWorker == Inv /\ [Next]_vars => WorkerInv'
PROOF
  <1> SUFFICES ASSUME Inv, [Next]_vars PROVE WorkerInv'
    OBVIOUS
  <1> USE DEF Inv, WorkerInv, bufferVars, workerVars, iterVars
  <1>0. NumQueues \in Nat \ {0} /\ next \in 0 .. NumQueues
    BY NumQueuesAssumption DEF TypeOK
  <1>1. CASE \E item \in Item : Receive(item)
    BY <1>1 DEF Receive
  <1>2. CASE StreamEnds
    BY <1>2 DEF StreamEnds
  <1>3. CASE CheckStopSet
    BY <1>3 DEF CheckStopSet
  <1>4. CASE Distribute
    BY <1>0, <1>4 DEF Distribute
  <1>5. CASE PutNext
    BY <1>0, <1>5 DEF PutNext
  <1>6. CASE PutCounted
    BY <1>6 DEF PutCounted
  <1>7. CASE Complete
    BY <1>7 DEF Complete, SignalDone
  <1>8. CASE Stop \/ Finished \/ UNCHANGED vars
    BY <1>8 DEF Stop, Finished, vars
  <1>9. ASSUME NEW q \in QueueId, Consume(q) \/ Drop(q) PROVE WorkerInv'
    BY <1>9 DEF Consume, IterStep, GetItem, CountGet, GetTimesOut, ReadDone, ReadEmpty, Drop, Abandon
  <1> QED
    BY <1>1, <1>2, <1>3, <1>4, <1>5, <1>6, <1>7, <1>8, <1>9 DEF Next, WorkerStep

(* Every step keeps the iterators' evidence: nothing is put once done is   *)
(* up, because the worker has exited by then.                              *)
LEMMA NextKeepsEndSeen == Inv /\ [Next]_vars => EndSeen'
PROOF
  <1> SUFFICES ASSUME Inv, [Next]_vars PROVE EndSeen'
    OBVIOUS
  <1> USE DEF Inv, bufferVars, iterVars
  <1>1. CASE UNCHANGED <<queues, iter>> /\ (done => done')
    BY <1>1 DEF EndSeen
  <1>2. CASE PutNext
    <2>1. ~done
      BY <1>2 DEF PutNext, WorkerInv
    <2> QED BY <1>2, <2>1 DEF PutNext, EndSeen
  <1>3. ASSUME NEW q \in QueueId, Consume(q) PROVE EndSeen'
    BY <1>3, IterStepKeepsEndSeen DEF Consume, TypeOK
  <1>4. ASSUME NEW q \in QueueId, Drop(q) PROVE EndSeen'
    BY <1>4 DEF Drop, Abandon, EndSeen, TypeOK, BufferTypeOK
  <1> QED
    BY <1>1, <1>2, <1>3, <1>4
       DEF Next, WorkerStep, Receive, StreamEnds, CheckStopSet, Distribute, PutCounted, CountPut,
           Complete, SignalDone, Stop, Finished, vars

(* The invariant is inductive.                                             *)
THEOREM Invariance == Safety => []Inv
PROOF
  <1>1. Inv /\ [Next]_vars => Inv'
    BY NextKeepsType, NextKeepsFanout, NextKeepsWorker, NextKeepsEndSeen DEF Inv
  <1> QED BY InitInv, <1>1, PTL DEF Safety

-----------------------------------------------------------------------------
(* Type correctness of the worker, the queues and the iterators            *)
(* (common/deserializer.py, common/buffers.py).                            *)
THEOREM TypeCorrect == Spec => []TypeOK
PROOF
  <1>1. Inv => TypeOK
    BY DEF Inv
  <1> QED BY Invariance, <1>1, PTL DEF Spec

(* Buffer.put's fan-out gives every queue every request, in order.         *)
THEOREM FanoutIsInOrder == Spec => []FanoutInOrder
PROOF
  <1>1. Inv => FanoutInOrder
    BY DEF Inv
  <1> QED BY Invariance, <1>1, PTL DEF Spec

(* In an invariant state an ended iterator has every request.              *)
LEMMA InvEndedMeansComplete == Inv => EndedMeansComplete
PROOF
  <1> SUFFICES ASSUME Inv, NEW q \in QueueId, iter[q] = "ended"
               PROVE  done /\ got[q] = sent
    BY DEF EndedMeansComplete
  <1>1. done /\ got[q] = Through(q)
    BY EndedHasAll DEF Inv, TypeOK
  <1>2. pc # "put"
    BY <1>1 DEF Inv, WorkerInv
  <1> QED BY <1>1, <1>2 DEF Inv, FanoutInOrder

(* RequestIteratorFromBuffer stops only when it has returned every request *)
(* that the worker put, although is_exhausted reads done and empty() at    *)
(* two different moments.                                                  *)
THEOREM EndedIsComplete == Spec => []EndedMeansComplete
PROOF BY Invariance, InvEndedMeansComplete, PTL DEF Spec

(* Once _on_complete has run, no request is put and done stays up.         *)
THEOREM DoneIsFinal == Spec => NothingAfterDone
PROOF
  <1>1. Inv /\ [Next]_vars => [done => done' /\ sent' = sent /\ putCount' = putCount]_vars
    <2> SUFFICES ASSUME Inv, Next, done
                 PROVE  done' /\ sent' = sent /\ putCount' = putCount
      OBVIOUS
    <2>1. pc = "exited"
      BY DEF Inv, WorkerInv
    <2> USE <2>1 DEF bufferVars, workerVars, iterVars
    <2>2. ASSUME NEW q \in QueueId, Consume(q) \/ Drop(q)
          PROVE  done' /\ sent' = sent /\ putCount' = putCount
      BY <2>2 DEF Consume, IterStep, GetItem, CountGet, GetTimesOut, ReadDone, ReadEmpty, Drop, Abandon
    <2>3. ~WorkerStep /\ ~StreamEnds /\ \A item \in Item : ~Receive(item)
      BY DEF WorkerStep, CheckStopSet, Distribute, PutNext, PutCounted, Complete, StreamEnds, Receive
    <2> QED BY <2>2, <2>3 DEF Next, Stop, Finished, vars
  <1> QED BY Invariance, <1>1, PTL DEF Spec, Safety, NothingAfterDone

-----------------------------------------------------------------------------
(* The statistics: a request is counted when every queue has it.           *)
PutCountInv == putCount = IF pc \in {"put", "count"} THEN Len(sent) - 1 ELSE Len(sent)

CountInv == PutCountInv /\ GetCountInv

(* Every step keeps the count of the requests.                             *)
LEMMA NextKeepsPutCount == Inv /\ PutCountInv /\ [Next]_vars => PutCountInv'
PROOF
  <1> SUFFICES ASSUME Inv, PutCountInv, [Next]_vars PROVE PutCountInv'
    OBVIOUS
  <1> USE DEF PutCountInv, bufferVars, workerVars, iterVars
  <1>0. sent \in Seq(Item) /\ request \in Item /\ Len(sent) \in Nat
    BY LenProperties DEF Inv, TypeOK
  <1>1. CASE Distribute
    <2>1. Len(sent') = Len(sent) + 1
      BY <1>0, <1>1, AppendProperties DEF Distribute
    <2> QED BY <1>0, <1>1, <2>1 DEF Distribute
  <1>2. CASE PutNext
    BY <1>2 DEF PutNext
  <1>3. CASE PutCounted
    BY <1>0, <1>3 DEF PutCounted, CountPut
  <1>4. CASE (\E item \in Item : Receive(item)) \/ StreamEnds \/ CheckStopSet \/ Complete
    BY <1>4 DEF Receive, StreamEnds, CheckStopSet, Complete
  <1>5. CASE Stop \/ Finished \/ UNCHANGED vars
    BY <1>5 DEF Stop, Finished, vars
  <1>6. ASSUME NEW q \in QueueId, Consume(q) \/ Drop(q) PROVE PutCountInv'
    BY <1>6 DEF Consume, IterStep, GetItem, CountGet, GetTimesOut, ReadDone, ReadEmpty, Drop, Abandon
  <1> QED BY <1>1, <1>2, <1>3, <1>4, <1>5, <1>6 DEF Next, WorkerStep

(* Every step keeps the count of the gets.                                 *)
LEMMA NextKeepsGetCount == Inv /\ GetCountInv /\ [Next]_vars => GetCountInv'
PROOF
  <1> SUFFICES ASSUME Inv, GetCountInv, [Next]_vars PROVE GetCountInv'
    OBVIOUS
  <1>0. BufferTypeOK
    BY DEF Inv, TypeOK
  <1>1. ASSUME NEW q \in QueueId, Consume(q) PROVE GetCountInv'
    BY <1>0, <1>1, IterStepCounts DEF Consume
  <1>2. ASSUME NEW q \in QueueId, Drop(q) PROVE GetCountInv'
    BY <1>0, <1>2, SameGets DEF Drop, Abandon, BufferTypeOK
  <1>3. CASE UNCHANGED iterVars
    BY <1>3, SameGets DEF iterVars
  <1> QED
    BY <1>1, <1>2, <1>3
       DEF Next, WorkerStep, Receive, StreamEnds, CheckStopSet, Distribute, PutNext, PutCounted,
           Complete, Stop, Finished, vars, bufferVars, iterVars

(* Once the worker has exited and every iterator has ended, put_count is   *)
(* the number of the requests and get_count one get per queue and request, *)
(* although the threads count outside the queues' locks (get_count).       *)
THEOREM StatisticsSettle == Spec => []CountersSettle
PROOF
  <1>1. Init => CountInv
    <2>1. Init => Len(sent) = 0
      BY EmptySeq DEF Init
    <2> QED BY <2>1, NothingIsCounted DEF Init, BufferInit, CountInv, PutCountInv
  <1>2. Inv /\ CountInv /\ [Next]_vars => CountInv'
    BY NextKeepsPutCount, NextKeepsGetCount DEF CountInv
  <1>3. Inv /\ EndedMeansComplete /\ CountInv => CountersSettle
    <2> SUFFICES ASSUME Inv, EndedMeansComplete, CountInv, pc = "exited",
                        \A q \in QueueId : iter[q] = "ended"
                 PROVE  putCount = Len(sent) /\ getCount = putCount * NumQueues
      BY DEF CountersSettle
    <2>1. Len(sent) \in Nat
      BY LenProperties DEF Inv, TypeOK
    <2>2. \A q \in QueueId : GetsOf(q) = Len(sent)
      BY DEF EndedMeansComplete, GetsOf
    <2>3. getCount = Len(sent) * NumQueues
      BY <2>1, <2>2, AllGetsCounted DEF CountInv
    <2>4. putCount = Len(sent)
      BY DEF CountInv, PutCountInv
    <2> QED BY <2>3, <2>4
  <1> QED BY Invariance, EndedIsComplete, <1>1, <1>2, <1>3, PTL DEF Spec, Safety

-----------------------------------------------------------------------------
(* Each queue carries an initial part of the stream, all of it unless the  *)
(* worker is in the middle of its fan-out.                                 *)
LEMMA ThroughIsInitialPart ==
  ASSUME Inv, NEW q \in QueueId
  PROVE  /\ Len(Through(q)) <= Len(sent)
         /\ \A i \in 1 .. Len(Through(q)) : sent[i] = Through(q)[i]
PROOF
  <1> DEFINE thru == Through(q)
  <1>1. thru \in Seq(Item) /\ request \in Item
    BY ConcatProperties DEF Inv, TypeOK, BufferTypeOK, Through
  <1>2. Len(thru) \in Nat
    BY <1>1, LenProperties
  <1>3. thru = sent \/ Append(thru, request) = sent
    BY DEF Inv, FanoutInOrder
  <1> HIDE DEF thru
  <1>4. CASE thru = sent
    BY <1>2, <1>4 DEF thru
  <1>5. CASE Append(thru, request) = sent
    <2>1. /\ Len(sent) = Len(thru) + 1
          /\ \A i \in 1 .. Len(thru) : sent[i] = thru[i]
      BY <1>1, <1>5, AppendProperties
    <2> QED BY <1>2, <2>1 DEF thru
  <1> QED BY <1>3, <1>4, <1>5

(* Every step of the program is a step of the stream or changes nothing of *)
(* it: Distribute sends, GetItem delivers, Complete closes and a ReadEmpty *)
(* that finds the queue empty ends.                                        *)
LEMMA StepRefinement ==
  Inv /\ EndedMeansComplete' /\ [Next]_vars => [AbstractStream!Next]_(AbstractStream!vars)
PROOF
  <1> SUFFICES ASSUME Inv, EndedMeansComplete', [Next]_vars
               PROVE  AbstractStream!Next \/ UNCHANGED <<sent, done, got, Ended>>
    BY DEF AbstractStream!vars, Ended
  <1> USE DEF bufferVars, workerVars, iterVars
  <1>1. CASE UNCHANGED <<sent, done, got, iter>>
    BY <1>1 DEF Ended
  <1>2. CASE Distribute
    <2>1. ~done /\ request \in Item
      BY <1>2 DEF Inv, WorkerInv, TypeOK, Distribute
    <2>2. AbstractStream!Send(request)
      BY <1>2, <2>1 DEF Distribute, AbstractStream!Send
    <2> QED BY <2>1, <2>2 DEF AbstractStream!Next
  <1>3. CASE Complete
    <2>1. AbstractStream!Close
      BY <1>3 DEF Complete, SignalDone, AbstractStream!Close
    <2> QED BY <2>1 DEF AbstractStream!Next
  <1>4. ASSUME NEW q \in QueueId, Consume(q)
        PROVE  AbstractStream!Next \/ UNCHANGED <<sent, done, got, Ended>>
    <2>1. BufferTypeOK /\ sent \in Seq(Item) /\ IterStep(q) /\ sent' = sent
      BY <1>4 DEF Inv, TypeOK, Consume
    <2>2. /\ Len(Through(q)) <= Len(sent)
          /\ \A i \in 1 .. Len(Through(q)) : sent[i] = Through(q)[i]
      BY ThroughIsInitialPart
    <2>3. /\ done' = done
          /\ \/ got' = got /\ Ended' = Ended
             \/ /\ q \notin Ended
                /\ Len(got[q]) < Len(sent)
                /\ got' = [got EXCEPT ![q] = Append(got[q], sent[Len(got[q]) + 1])]
                /\ Ended' = Ended
             \/ /\ iter'[q] = "ended"
                /\ got' = got
                /\ Ended' = Ended \cup {q}
      BY <2>1, <2>2, IterStepDelivers
    <2>4. CASE got' = got /\ Ended' = Ended
      BY <2>1, <2>3, <2>4
    <2>5. CASE /\ q \notin Ended
               /\ Len(got[q]) < Len(sent)
               /\ got' = [got EXCEPT ![q] = Append(got[q], sent[Len(got[q]) + 1])]
               /\ Ended' = Ended
      <3>1. AbstractStream!Deliver(q)
        BY <2>1, <2>3, <2>5 DEF AbstractStream!Deliver, Ended
      <3> QED BY <3>1 DEF AbstractStream!Next
    <2>6. CASE /\ iter'[q] = "ended"
               /\ got' = got
               /\ Ended' = Ended \cup {q}
      <3>1. done' /\ got'[q] = sent'
        BY <2>6 DEF EndedMeansComplete
      <3>2. AbstractStream!End(q)
        BY <2>1, <2>3, <2>6, <3>1 DEF AbstractStream!End, Ended
      <3> QED BY <3>2 DEF AbstractStream!Next
    <2> QED BY <2>3, <2>4, <2>5, <2>6
  <1>5. ASSUME NEW q \in QueueId, Drop(q)
        PROVE  UNCHANGED <<sent, done, got, Ended>>
    <2>1. Ended' = Ended
      BY <1>5, AbandonIsNotEnd DEF Drop, Inv, TypeOK
    <2> QED BY <1>5, <2>1 DEF Drop, Abandon
  <1> QED
    BY <1>1, <1>2, <1>3, <1>4, <1>5
       DEF Next, WorkerStep, Receive, StreamEnds, CheckStopSet, PutNext, PutCounted, Stop,
           Finished, vars

(* The worker, Buffer and its iterators implement a stream that is written *)
(* once and read in full, in order, by every consumer.                     *)
THEOREM Implementation == Spec => ImplementsStream
PROOF
  <1>1. Init => AbstractStream!Init
    BY DEF Init, BufferInit, AbstractStream!Init
  <1> QED
    BY Invariance, EndedIsComplete, StepRefinement, <1>1, PTL DEF Spec, Safety, ImplementsStream, AbstractStream!Spec

-----------------------------------------------------------------------------
(* The rest is about ControllerInputs.                                     *)

(* The queues of which the handler reads one item, and nobody any other.   *)
ReadOnce == {"controller_config", "lipsync_config"}
            \cup (IF AsdActive THEN {"asd_config"} ELSE {})

Configs == {"controller_config", "asd_config", "lipsync_config"}

(* The thread that reads a queue, in the mode the handler has read.        *)
Reader(q) ==
  CASE q \in ReadOnce -> "handler"
    [] q \in {"audio.S2S", "s2s_config"} -> "s2s"
    [] q \in {"video.ASD", "audio.ASD", "diarization"} -> "asd"
    [] q = "asd_config" /\ q \notin ReadOnce -> "asd"
    [] q = "translated" -> IF mode.bypassS2s THEN "lipsync" ELSE "unused"
    [] q = "background" -> IF mode.background THEN "lipsync" ELSE "unused"
    [] OTHER -> "lipsync"

(* Before the launch only the handler takes, and no thread has begun; after*)
(* it each thread takes from queues of its own.                            *)
ReaderInv ==
  /\ handler = "launched" => \A q \in Queue : takenBy[q] \subseteq {"handler", Reader(q)}
  /\ handler # "launched" =>
       /\ \A q \in Queue : takenBy[q] \subseteq {"handler"}
       /\ \A t \in Thread : stage[t] = 1

(* What a thread has drained stays empty: the worker has exited.           *)
DrainedInv ==
  handler = "launched" =>
    \A t \in Thread : \A i \in 1 .. Len(Plan(t)) :
      i < stage[t] /\ Plan(t)[i].kind = "all" => \A q \in Plan(t)[i].queues : Exhausted(q)

(* The two queues of a payload hold the same until one of them is read; and*)
(* then there is something to read in the other.                           *)
SameUntilRead(q, r) ==
  takenBy[q] = {} => IF takenBy[r] = {} THEN size[q] = size[r] ELSE size[q] > 0

FannedInv ==
  /\ SameUntilRead("video.ASD", "video.LIPSYNC") /\ SameUntilRead("video.LIPSYNC", "video.ASD")
  /\ SameUntilRead("audio.S2S", "audio.ASD") /\ SameUntilRead("audio.ASD", "audio.S2S")

(* The handler's poll of a config either took the one item that is missing *)
(* from the queue, or found none.                                          *)
PollInv ==
  /\ handler = "controller_config" => takenBy["controller_config"] = {}
  /\ handler \in {"controller_config", "asd_config"} => takenBy["asd_config"] = {}
  /\ handler \in Configs => takenBy["lipsync_config"] = {}
  /\ \A q \in Configs : /\ takenBy[q] = {} => size[q] = routed[q]
                        /\ takenBy[q] = {"handler"} => size[q] = routed[q] - 1
  /\ handler # "controller_config" =>
       takenBy["controller_config"] # {} \/ "controller_config" \in missed
  /\ handler = "launched" =>
       /\ takenBy["lipsync_config"] # {} \/ "lipsync_config" \in missed
       /\ AsdActive => "handler" \in takenBy["asd_config"]

InputsInv == InputsTypeOK /\ ReaderInv /\ DrainedInv /\ FannedInv /\ PollInv

-----------------------------------------------------------------------------
(* The plans.                                                              *)

StageType == [kind : {"all", "one", "external"}, queues : SUBSET Queue]

(* Every stage of a thread is about queues that this thread reads.         *)
LEMMA StagesOfThread ==
  ASSUME mode \in Flags, NEW t \in Thread, NEW i \in 1 .. Len(Plan(t))
  PROVE  Plan(t)[i] \in StageType /\ \A q \in Plan(t)[i].queues : Reader(q) = t
PROOF
  <1> USE DEF All, One, External, StageType, Queue, Single, Reader, ReadOnce
  <1>1. CASE t = "s2s"
    BY <1>1 DEF Plan, S2sPlan
  <1>2. CASE t = "asd"
    BY <1>2 DEF Plan, AsdPlan
  <1>3. CASE t = "lipsync"
    BY <1>3 DEF Plan, LipsyncPlan
  <1>4. CASE t = "unused"
    BY <1>4 DEF Plan, UnusedPlan
  <1> QED BY <1>1, <1>2, <1>3, <1>4 DEF Thread

(* A running thread is in one of its stages.                               *)
LEMMA StageOfRunning ==
  ASSUME InputsTypeOK, NEW t \in Thread, Running(t)
  PROVE  /\ stage[t] \in 1 .. Len(Plan(t))
         /\ Current(t) \in StageType
         /\ \A q \in Current(t).queues : q \in Queue /\ Reader(q) = t
PROOF
  <1>1. Len(Plan(t)) \in Nat
    BY DEF Plan, S2sPlan, AsdPlan, LipsyncPlan, UnusedPlan, All, One, External, Thread
  <1>2. stage[t] \in 1 .. Len(Plan(t))
    BY <1>1 DEF Running, InputsTypeOK
  <1>3. Plan(t)[stage[t]] \in StageType /\ \A q \in Plan(t)[stage[t]].queues : Reader(q) = t
    BY <1>2, StagesOfThread DEF InputsTypeOK
  <1> QED BY <1>2, <1>3 DEF Current, StageType

(* The plans and the readers change with the mode only.                    *)
LEMMA SameMode ==
  ASSUME UNCHANGED mode
  PROVE  /\ \A t \in Thread : Plan(t)' = Plan(t)
         /\ \A q \in Queue : Reader(q)' = Reader(q)
PROOF
  <1>1. ASSUME NEW t \in Thread PROVE Plan(t)' = Plan(t)
    BY DEF Plan, S2sPlan, AsdPlan, LipsyncPlan, UnusedPlan, AsdActive
  <1>2. ASSUME NEW q \in Queue PROVE Reader(q)' = Reader(q)
    BY DEF Reader, ReadOnce, AsdActive
  <1> QED BY <1>1, <1>2

-----------------------------------------------------------------------------
(* The steps.                                                              *)

(* The queues are empty and nobody has taken anything.                     *)
LEMMA InputsInitInv == InputsInit => InputsInv
PROOF
  <1> SUFFICES ASSUME InputsInit PROVE InputsInv
    OBVIOUS
  <1> USE DEF InputsInit
  <1>1. InputsTypeOK
    BY MaxMessagesAssumption DEF InputsTypeOK, Flags
  <1>2. ReaderInv /\ DrainedInv
    BY DEF ReaderInv, DrainedInv
  <1>3. FannedInv
    BY DEF FannedInv, SameUntilRead, Queue
  <1>4. PollInv
    BY DEF PollInv, Configs, Queue, Single
  <1> QED BY <1>1, <1>2, <1>3, <1>4 DEF InputsInv

(* The worker's steps: a payload reaches all of its queues at once, and    *)
(* nothing has been drained before the worker has exited.                  *)
LEMMA WorkerKeepsInputs ==
  ASSUME InputsInv, InboundEnds \/ \E p \in Payload : DistributePayload(p)
  PROVE  InputsInv'
PROOF
  <1> USE DEF InputsInv
  <1>0. UNCHANGED <<flags, handler, mode, stage, missed, takenBy>>
    BY DEF InboundEnds, DistributePayload
  <1>1. InputsTypeOK'
    BY <1>0, MaxMessagesAssumption DEF InputsTypeOK, InboundEnds, DistributePayload
  <1>2. ReaderInv'
    BY <1>0, SameMode DEF ReaderInv
  <1>3. DrainedInv'
    <2>1. worker = "read"
      BY DEF InboundEnds, DistributePayload
    <2>2. SUFFICES ASSUME handler' = "launched", NEW t \in Thread, NEW i \in 1 .. Len(Plan(t)),
                          i < stage[t], Plan(t)[i].kind = "all", NEW q \in Plan(t)[i].queues
                   PROVE  Exhausted(q)'
      BY <1>0, SameMode DEF DrainedInv
    <2> QED BY <1>0, <2>1, <2>2 DEF DrainedInv, Exhausted
  <1>4. FannedInv'
    <2>1. CASE InboundEnds
      BY <2>1 DEF FannedInv, SameUntilRead, InboundEnds
    <2>2. ASSUME NEW p \in Payload, DistributePayload(p) PROVE FannedInv'
      BY <2>2 DEF FannedInv, SameUntilRead, DistributePayload, Route, Payload, Single, Queue, InputsTypeOK
    <2> QED BY <2>1, <2>2
  <1>5. PollInv'
    <2>1. \A q \in Configs : size'[q] - routed'[q] = size[q] - routed[q]
      BY DEF InboundEnds, DistributePayload, InputsTypeOK, Configs, Queue, Single
    <2>2. \A q \in Configs : {size[q], routed[q], size'[q], routed'[q]} \subseteq Nat
      BY <1>1 DEF InputsTypeOK, Configs, Queue, Single
    <2>3. ASSUME NEW q \in Configs
          PROVE  /\ takenBy[q] = {} => size'[q] = routed'[q]
                 /\ takenBy[q] = {"handler"} => size'[q] = routed'[q] - 1
      <3>1. /\ takenBy[q] = {} => size[q] = routed[q]
            /\ takenBy[q] = {"handler"} => size[q] = routed[q] - 1
        BY DEF PollInv
      <3>2. size'[q] - routed'[q] = size[q] - routed[q]
        BY <2>1
      <3>3. size[q] \in Int /\ routed[q] \in Int /\ size'[q] \in Int /\ routed'[q] \in Int
        BY <2>2
      <3> QED BY <3>1, <3>2, <3>3
    <2>5. takenBy' = takenBy /\ missed' = missed /\ handler' = handler /\ AsdActive' = AsdActive
      BY <1>0 DEF AsdActive
    <2>6. PollInv
      OBVIOUS
    <2> QED BY <2>3, <2>5, <2>6, Zenon DEF PollInv
  <1> QED BY <1>1, <1>2, <1>3, <1>4, <1>5

(* The handler takes from config queues only.                              *)
LEMMA ExtractTakes ==
  ASSUME InputsTypeOK, NEW q \in {"controller_config", "asd_config", "lipsync_config"},
         NEW found \in BOOLEAN, Extract(q, found)
  PROVE  /\ size' \in [Queue -> Nat]
         /\ takenBy' \in [Queue -> SUBSET (Thread \cup {"handler"})]
         /\ \A r \in Queue : takenBy'[r] \subseteq takenBy[r] \cup {"handler"}
         /\ \A r \in {"video.ASD", "video.LIPSYNC", "audio.S2S", "audio.ASD"} :
              size'[r] = size[r] /\ takenBy'[r] = takenBy[r]
         /\ UNCHANGED <<flags, received, worker, stage, routed>>
         /\ missed' \in {missed, missed \cup {q}}
PROOF
  <1> USE DEF Extract, Take, InputsTypeOK, Queue, Single
  <1>1. CASE found
    <2>1. size[q] \in Nat \ {0} /\ q \in Queue
      BY <1>1
    <2> QED BY <1>1, <2>1
  <1>2. CASE ~found
    BY <1>2
  <1> QED BY <1>1, <1>2

(* A poll takes the first item of its queue, or finds the queue empty.     *)
LEMMA ExtractPolls ==
  ASSUME InputsTypeOK, NEW q \in Configs, NEW found \in BOOLEAN, Extract(q, found),
         takenBy[q] = {}, size[q] = routed[q]
  PROVE  /\ \A r \in Configs \ {q} : size'[r] = size[r] /\ takenBy'[r] = takenBy[r]
         /\ \/ takenBy'[q] = {"handler"} /\ size'[q] = routed[q] - 1
            \/ takenBy'[q] = {} /\ size'[q] = routed[q] /\ q \in missed'
         /\ missed \subseteq missed'
         /\ UNCHANGED routed
PROOF
  <1> USE DEF Extract, Take, InputsTypeOK, Queue, Single, Configs
  <1>1. CASE found
    BY <1>1
  <1>2. CASE ~found
    BY <1>2
  <1> QED BY <1>1, <1>2

(* The handler takes configs only, before any thread runs.                 *)
LEMMA HandlerKeepsInputs ==
  ASSUME InputsInv, HandlerStep
  PROVE  InputsInv'
PROOF
  <1> USE DEF InputsInv
  <1>0. handler # "launched" /\ handler \in {"controller_config", "asd_config", "lipsync_config"}
    BY DEF HandlerStep, ExtractControllerConfig, ExtractAsdConfig, ExtractLipsyncConfig
  <1>1. /\ mode' \in Flags
        /\ handler' \in {"asd_config", "lipsync_config", "launched", "rejected"}
    BY DEF HandlerStep, ExtractControllerConfig, ExtractAsdConfig, ExtractLipsyncConfig,
           InputsTypeOK, Flags
  <1>2. /\ size' \in [Queue -> Nat]
        /\ takenBy' \in [Queue -> SUBSET (Thread \cup {"handler"})]
        /\ \A r \in Queue : takenBy'[r] \subseteq takenBy[r] \cup {"handler"}
        /\ \A r \in {"video.ASD", "video.LIPSYNC", "audio.S2S", "audio.ASD"} :
             size'[r] = size[r] /\ takenBy'[r] = takenBy[r]
        /\ UNCHANGED <<flags, received, worker, stage, routed>>
        /\ missed' \subseteq Queue
    <2> USE DEF InputsTypeOK, Queue, Single
    <2>1. CASE ExtractControllerConfig
      BY <2>1, ExtractTakes DEF ExtractControllerConfig
    <2>2. CASE ExtractLipsyncConfig
      BY <2>2, ExtractTakes DEF ExtractLipsyncConfig
    <2>3. CASE ExtractAsdConfig
      <3>1. CASE AsdActive
        BY <2>3, <3>1, ExtractTakes DEF ExtractAsdConfig
      <3>2. CASE ~AsdActive
        BY <2>3, <3>2 DEF ExtractAsdConfig, InputsTypeOK
      <3> QED BY <3>1, <3>2
    <2> QED BY <2>1, <2>2, <2>3 DEF HandlerStep
  <1>3. InputsTypeOK'
    BY <1>1, <1>2 DEF InputsTypeOK
  <1>4. ReaderInv'
    BY <1>0, <1>2 DEF ReaderInv
  <1>5. DrainedInv'
    <2>1. \A t \in Thread : stage'[t] = 1
      BY <1>0, <1>2 DEF ReaderInv
    <2> QED BY <2>1 DEF DrainedInv
  <1>6. FannedInv'
    BY <1>2 DEF FannedInv, SameUntilRead
  <1>7. PollInv'
    <2> USE DEF PollInv, Configs
    <2>1. CASE ExtractControllerConfig
      BY <2>1, ExtractPolls DEF ExtractControllerConfig
    <2>2. CASE ExtractAsdConfig
      <3>1. CASE AsdActive
        BY <2>2, <3>1, ExtractPolls DEF ExtractAsdConfig
      <3>2. CASE ~AsdActive
        BY <2>2, <3>2 DEF ExtractAsdConfig
      <3> QED BY <3>1, <3>2
    <2>3. CASE ExtractLipsyncConfig
      <3>1. handler' = "launched" /\ AsdActive' => "handler" \in takenBy["asd_config"]
        BY <2>3 DEF ExtractLipsyncConfig, Launchable, AsdActive, InputsTypeOK, Flags
      <3> QED BY <2>3, <3>1, ExtractPolls DEF ExtractLipsyncConfig
    <2> QED BY <2>1, <2>2, <2>3 DEF HandlerStep
  <1> QED BY <1>3, <1>4, <1>5, <1>6, <1>7

(* A thread's stage moves on only when it was not a drain or its queues are*)
(* exhausted, and no queue that was drained gets anything again.           *)
LEMMA AdvanceKeepsDrained ==
  ASSUME InputsInv, handler = "launched", NEW t \in Thread,
         stage' = [stage EXCEPT ![t] = @ + 1] \/ UNCHANGED stage,
         stage' # stage /\ Current(t).kind = "all" => \A q \in Current(t).queues : Exhausted(q),
         UNCHANGED <<worker, mode, handler>>,
         \A q \in Queue : Exhausted(q) => size'[q] = 0
  PROVE  DrainedInv'
PROOF
  <1> USE DEF InputsInv
  <1>1. SUFFICES ASSUME NEW u \in Thread, NEW i \in 1 .. Len(Plan(u)),
                        i < stage'[u], Plan(u)[i].kind = "all", NEW q \in Plan(u)[i].queues
                 PROVE  Exhausted(q)'
    BY SameMode DEF DrainedInv
  <1>2. q \in Queue
    BY StagesOfThread DEF InputsTypeOK, StageType
  <1>3. Exhausted(q)
    <2>1. CASE i < stage[u]
      BY <1>1, <2>1 DEF DrainedInv
    <2>2. CASE ~(i < stage[u])
      <3>1. u = t /\ stage' # stage /\ i = stage[t]
        BY <1>1, <2>2 DEF InputsTypeOK
      <3> QED BY <1>1, <3>1 DEF Current
    <2> QED BY <2>1, <2>2
  <1> QED BY <1>2, <1>3 DEF Exhausted

(* A thread takes from a queue of its own that is not exhausted.           *)
LEMMA TakeItemKeepsInputs ==
  ASSUME InputsInv, NEW t \in Thread, TakeItem(t)
  PROVE  InputsInv'
PROOF
  <1> USE DEF InputsInv
  <1>1. /\ Running(t) /\ handler = "launched"
        /\ UNCHANGED <<flags, received, worker, handler, mode, routed, missed>>
    BY DEF TakeItem, Running
  <1>2. PICK q \in Current(t).queues : size[q] > 0 /\ Take(q, t)
    BY DEF TakeItem
  <1>3. q \in Queue /\ Reader(q) = t
    BY <1>1, StageOfRunning
  <1>4. stage' = [stage EXCEPT ![t] = @ + 1] \/ UNCHANGED stage
    BY DEF TakeItem, Advance
  <1>5. InputsTypeOK'
    <2>1. size' \in [Queue -> Nat] /\ takenBy' \in [Queue -> SUBSET (Thread \cup {"handler"})]
      BY <1>2, <1>3 DEF Take, InputsTypeOK
    <2>2. stage' \in [Thread -> Nat \ {0}]
      BY <1>4 DEF InputsTypeOK
    <2> QED BY <1>1, <2>1, <2>2 DEF InputsTypeOK
  <1>6. ReaderInv'
    BY <1>1, <1>2, <1>3, SameMode DEF ReaderInv, Take, InputsTypeOK
  <1>7. DrainedInv'
    <2>1. \A r \in Queue : Exhausted(r) => size'[r] = 0
      BY <1>2, <1>3 DEF Take, Exhausted, InputsTypeOK
    <2>2. stage' # stage => Current(t).kind # "all"
      BY DEF TakeItem
    <2> QED BY <1>1, <1>4, <2>1, <2>2, AdvanceKeepsDrained
  <1>8. FannedInv'
    BY <1>2, <1>3 DEF FannedInv, SameUntilRead, Take, InputsTypeOK, Queue
  <1>9. PollInv'
    <2>1. \A r \in Queue : takenBy[r] \subseteq takenBy'[r]
      BY <1>2, <1>3 DEF Take, InputsTypeOK
    <2>2. t \in takenBy'[q] /\ t # "handler"
      BY <1>2, <1>3 DEF Take, InputsTypeOK, Thread
    <2>3. \A r \in Configs \ {q} : size'[r] = size[r] /\ takenBy'[r] = takenBy[r]
      BY <1>2, <1>3 DEF Take, InputsTypeOK, Configs, Queue, Single
    <2>4. ASSUME NEW r \in Configs
          PROVE  /\ takenBy'[r] = {} => size'[r] = routed'[r]
                 /\ takenBy'[r] = {"handler"} => size'[r] = routed'[r] - 1
      BY <1>1, <2>2, <2>3 DEF PollInv
    <2>5. AsdActive' = AsdActive /\ "lipsync_config" \in Queue /\ "controller_config" \in Queue /\ "asd_config" \in Queue
      BY <1>1 DEF AsdActive, Queue, Single
    <2>6. \A r \in Queue : takenBy[r] # {} => takenBy'[r] # {}
      BY <2>1
    <2>7. handler' = "launched" /\ missed' = missed
      BY <1>1
    <2>8. /\ takenBy'["lipsync_config"] # {} \/ "lipsync_config" \in missed'
          /\ takenBy'["controller_config"] # {} \/ "controller_config" \in missed'
          /\ AsdActive' => "handler" \in takenBy'["asd_config"]
      BY <1>1, <2>1, <2>5, <2>6, <2>7 DEF PollInv
    <2>9. handler' \notin Configs /\ handler' \notin {"controller_config", "asd_config"}
      BY <2>7 DEF Configs
    <2>10. handler' # "controller_config" /\ handler' # "asd_config"
      BY <2>7
    <2> QED BY <2>4, <2>8, <2>9, <2>10, Zenon DEF PollInv
  <1> QED BY <1>5, <1>6, <1>7, <1>8, <1>9

(* A thread leaves a drain only when its queues are exhausted.             *)
LEMMA StageEndsKeepsInputs ==
  ASSUME InputsInv, NEW t \in Thread,
         StageEnds(t) \/ (t = "lipsync" /\ S2sOutputArrives)
  PROVE  InputsInv'
PROOF
  <1> USE DEF InputsInv
  <1>1. /\ Running(t) /\ handler = "launched"
        /\ stage' = [stage EXCEPT ![t] = @ + 1]
        /\ UNCHANGED <<flags, received, worker, size, handler, mode, routed, missed, takenBy>>
    BY DEF StageEnds, S2sOutputArrives, Running, Advance
  <1>2. InputsTypeOK'
    BY <1>1 DEF InputsTypeOK
  <1>3. ReaderInv'
    BY <1>1, SameMode DEF ReaderInv
  <1>4. DrainedInv'
    <2>1. Current(t).kind = "all" => \A q \in Current(t).queues : Exhausted(q)
      BY DEF StageEnds, S2sOutputArrives
    <2> QED BY <1>1, <2>1, AdvanceKeepsDrained DEF Exhausted
  <1>5. FannedInv'
    BY <1>1 DEF FannedInv, SameUntilRead
  <1>6. PollInv'
    BY <1>1 DEF PollInv, AsdActive
  <1> QED BY <1>2, <1>3, <1>4, <1>5, <1>6

(* Every step of the specification keeps the invariant.                    *)
LEMMA InputsStep == InputsInv /\ [InputsNext]_inputVars => InputsInv'
PROOF
  <1> SUFFICES ASSUME InputsInv, [InputsNext]_inputVars PROVE InputsInv'
    OBVIOUS
  <1>1. CASE UNCHANGED inputVars
    <2>1. InputsTypeOK' /\ FannedInv' /\ PollInv'
      BY <1>1 DEF InputsInv, inputVars, InputsTypeOK, FannedInv, SameUntilRead, PollInv, AsdActive
    <2>2. ReaderInv' /\ DrainedInv'
      BY <1>1, SameMode DEF InputsInv, inputVars, ReaderInv, DrainedInv, Exhausted
    <2> QED BY <2>1, <2>2 DEF InputsInv
  <1>2. CASE InboundEnds \/ \E p \in Payload : DistributePayload(p)
    BY <1>2, WorkerKeepsInputs
  <1>3. CASE HandlerStep
    BY <1>3, HandlerKeepsInputs
  <1>4. ASSUME NEW t \in Thread, ThreadStep(t) PROVE InputsInv'
    BY <1>4, TakeItemKeepsInputs, StageEndsKeepsInputs DEF ThreadStep
  <1>5. CASE S2sOutputArrives
    BY <1>5, StageEndsKeepsInputs DEF Thread
  <1>6. CASE InputsFinished
    BY <1>1, <1>6 DEF InputsFinished
  <1> QED BY <1>1, <1>2, <1>3, <1>4, <1>5, <1>6 DEF InputsNext

(* The strengthened invariant holds throughout.                            *)
THEOREM InputsInvariant == InputsSpec => []InputsInv
PROOF
  BY InputsInitInv, InputsStep, PTL DEF InputsSpec

(* The queues, the threads and the handler of a request keep their types;  *)
(* above all, no length falls below zero, whichever thread takes.          *)
THEOREM InputsAreTyped == InputsSpec => []InputsTypeOK
PROOF
  <1>1. InputsInv => InputsTypeOK
    BY DEF InputsInv
  <1> QED BY InputsInvariant, <1>1, PTL

-----------------------------------------------------------------------------
(* What follows from it.                                                   *)

(* In every mode a queue that nobody reads once has a thread that drains   *)
(* it to the end.                                                          *)
LEMMA DrainOfQueue ==
  ASSUME mode \in Flags, NEW q \in Queue \ ReadOnce
  PROVE  \E i \in 1 .. Len(Plan(Reader(q))) :
           Plan(Reader(q))[i].kind = "all" /\ q \in Plan(Reader(q))[i].queues
PROOF
  <1> DEFINE t == Reader(q)
             DrainedBy(plan) == \E i \in 1 .. Len(plan) :
                                  plan[i].kind = "all" /\ q \in plan[i].queues
  <1> USE DEF All, One, External
  <1>1. q \in {"s2s_config", "diarization", "background", "translated", "asd_config",
               "audio.S2S", "audio.ASD", "video.ASD", "video.LIPSYNC"}
    BY DEF Queue, Single, ReadOnce
  <1>2. CASE q \in {"s2s_config", "audio.S2S"}
    <2>1. DrainedBy(S2sPlan)
      BY <1>2 DEF S2sPlan
    <2>2. Plan("s2s") = S2sPlan /\ t = "s2s"
      BY <1>2 DEF Plan, Reader, ReadOnce
    <2> QED BY <2>1, <2>2
  <1>3. CASE q \in {"video.ASD", "audio.ASD", "diarization", "asd_config"}
    <2>1. DrainedBy(AsdPlan)
      BY <1>3 DEF AsdPlan, ReadOnce
    <2>2. Plan("asd") = AsdPlan /\ t = "asd"
      BY <1>3 DEF Plan, Reader
    <2> QED BY <2>1, <2>2
  <1>4. CASE t = "lipsync" /\ q \in {"video.LIPSYNC", "translated", "background"}
    <2>1. DrainedBy(LipsyncPlan)
      BY <1>4 DEF LipsyncPlan, Reader, ReadOnce
    <2>2. Plan("lipsync") = LipsyncPlan
      BY DEF Plan
    <2> QED BY <1>4, <2>1, <2>2
  <1>5. CASE t # "lipsync" /\ q \in {"video.LIPSYNC", "translated", "background"}
    <2>1. /\ t = "unused"
          /\ \/ q = "translated" /\ ~mode.bypassS2s
             \/ q = "background" /\ ~mode.background
      BY <1>5 DEF Reader, ReadOnce
    <2>2. DrainedBy(UnusedPlan)
      BY <2>1 DEF UnusedPlan
    <2>3. Plan("unused") = UnusedPlan
      BY DEF Plan
    <2> QED BY <2>1, <2>2, <2>3
  <1> QED BY <1>1, <1>2, <1>3, <1>4, <1>5

(* OneReaderPerQueue: whatever the mode, no two threads of a request take  *)
(* from one queue.                                                         *)
THEOREM OneReader == InputsSpec => []OneReaderPerQueue
PROOF
  <1>1. InputsInv => OneReaderPerQueue
    <2> SUFFICES ASSUME InputsInv, NEW q \in Queue
                 PROVE  Cardinality(takenBy[q] \ {"handler"}) <= 1
      BY DEF OneReaderPerQueue
    <2>1. takenBy[q] \ {"handler"} \subseteq {Reader(q)}
      BY DEF InputsInv, ReaderInv
    <2>2. IsFiniteSet({Reader(q)}) /\ Cardinality({Reader(q)}) = 1
      BY FS_Singleton
    <2>3. Cardinality(takenBy[q] \ {"handler"}) <= Cardinality({Reader(q)})
      BY <2>1, <2>2, FS_Subset
    <2> QED BY <2>2, <2>3
  <1> QED BY <1>1, InputsInvariant, PTL

(* What the end of all threads means for a queue that is not read once.    *)
LEMMA EndedMeansEmpty ==
  ASSUME InputsInv, \A t \in Thread : ThreadEnded(t), NEW q \in Queue \ ReadOnce
  PROVE  size[q] = 0
PROOF
  <1>1. PICK i \in 1 .. Len(Plan(Reader(q))) :
          Plan(Reader(q))[i].kind = "all" /\ q \in Plan(Reader(q))[i].queues
    BY DrainOfQueue DEF InputsInv, InputsTypeOK
  <1>2. Reader(q) \in Thread
    BY DEF Reader, Thread, ReadOnce
  <1>3. handler = "launched" /\ stage[Reader(q)] > Len(Plan(Reader(q)))
    BY <1>2 DEF ThreadEnded
  <1>4. i < stage[Reader(q)]
    <2>1. Len(Plan(Reader(q))) \in Nat
      BY <1>2 DEF Plan, S2sPlan, AsdPlan, LipsyncPlan, UnusedPlan, All, One, External, Thread
    <2> QED BY <1>2, <1>3, <2>1 DEF InputsInv, InputsTypeOK
  <1> QED BY <1>1, <1>2, <1>3, <1>4 DEF InputsInv, DrainedInv, Exhausted

(* NothingIsLeftBehind: once every thread has ended, every queue is empty  *)
(* but those of which the handler reads one item: there what came behind   *)
(* that item is left, or all of it when the poll had found nothing.        *)
THEOREM NothingIsLeft == InputsSpec => []NothingIsLeftBehind
PROOF
  <1>1. InputsInv => NothingIsLeftBehind
    <2> SUFFICES ASSUME InputsInv, \A t \in Thread : ThreadEnded(t), NEW q \in Queue
                 PROVE  size[q] = 0 \/ SecondCopies(q) \/ LateConfig(q)
      BY DEF NothingIsLeftBehind
    <2>1. handler = "launched"
      BY DEF ThreadEnded, Thread
    <2>2. CASE q \notin ReadOnce
      BY <2>2, EndedMeansEmpty
    <2>3. CASE q \in ReadOnce
      <3>1. q \in Configs /\ takenBy[q] \subseteq {"handler"}
        BY <2>1, <2>3 DEF InputsInv, ReaderInv, Reader, ReadOnce, Configs
      <3>2. CASE takenBy[q] = {"handler"}
        BY <3>1, <3>2 DEF InputsInv, PollInv, SecondCopies
      <3>3. CASE takenBy[q] = {}
        <4>1. q \in missed
          BY <2>1, <2>3, <3>3 DEF InputsInv, PollInv, ReadOnce
        <4> QED BY <3>1, <3>3, <4>1 DEF InputsInv, PollInv, LateConfig
      <3> QED BY <3>1, <3>2, <3>3
    <2> QED BY <2>2, <2>3
  <1> QED BY <1>1, InputsInvariant, PTL

(* FanoutReachesBothReaders: once every thread has ended, either both      *)
(* queues of a media payload have been read, or neither.                   *)
THEOREM FanoutIsComplete == InputsSpec => []FanoutReachesBothReaders
PROOF
  <1>1. InputsInv => FanoutReachesBothReaders
    <2> SUFFICES ASSUME InputsInv, \A t \in Thread : ThreadEnded(t)
                 PROVE  /\ takenBy["video.ASD"] # {} <=> takenBy["video.LIPSYNC"] # {}
                        /\ takenBy["audio.S2S"] # {} <=> takenBy["audio.ASD"] # {}
      BY DEF FanoutReachesBothReaders
    <2>1. \A q \in {"video.ASD", "video.LIPSYNC", "audio.S2S", "audio.ASD"} : size[q] = 0
      <3>1. {"video.ASD", "video.LIPSYNC", "audio.S2S", "audio.ASD"} \subseteq Queue \ ReadOnce
        BY DEF Queue, ReadOnce
      <3> QED BY <3>1, EndedMeansEmpty
    <2> QED BY <2>1 DEF InputsInv, FannedInv, SameUntilRead
  <1> QED BY <1>1, InputsInvariant, PTL

=============================================================================
