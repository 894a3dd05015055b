---------------------------- MODULE BufferProofs ----------------------------
(***************************************************************************)
(* Lemmas about the steps of Buffer that every module extending it needs:  *)
(* what they do to the types, to the sequence of items that has gone       *)
(* through a queue, to the evidence an iterator has when it stops, and to  *)
(* the number of gets.                                                     *)
(***************************************************************************)
EXTENDS Buffer, FiniteSetTheorems, SequenceTheorems, TLAPS

(* Putting behind what was read is putting behind everything.              *)
LEMMA AppendToConcat ==
  ASSUME NEW S, NEW s \in Seq(S), NEW t \in Seq(S), NEW e \in S
  PROVE  s \o Append(t, e) = Append(s \o t, e)
PROOF
  <1>1. /\ Append(t, e) = t \o <<e>>
        /\ Append(s \o t, e) = (s \o t) \o <<e>>
    BY AppendIsConcat, ConcatProperties
  <1>2. (s \o t) \o <<e>> = s \o (t \o <<e>>)
    BY ConcatAssociative
  <1> QED BY <1>1, <1>2

(* Moving the head of a queue to the end of what was read changes nothing. *)
LEMMA MoveHead ==
  ASSUME NEW S, NEW s \in Seq(S), NEW t \in Seq(S), t # <<>>
  PROVE  Append(s, Head(t)) \o Tail(t) = s \o t
PROOF
  <1> DEFINE u == Append(s, Head(t)) \o Tail(t)
             v == s \o t
  <1>1. /\ Head(t) \in S
        /\ Head(t) = t[1]
        /\ Tail(t) \in Seq(S)
        /\ Len(Tail(t)) = Len(t) - 1
        /\ \A i \in 1 .. Len(t) - 1 : Tail(t)[i] = t[i + 1]
    BY HeadTailProperties
  <1>2. /\ Append(s, Head(t)) \in Seq(S)
        /\ Len(Append(s, Head(t))) = Len(s) + 1
        /\ \A i \in 1 .. Len(s) : Append(s, Head(t))[i] = s[i]
        /\ Append(s, Head(t))[Len(s) + 1] = t[1]
    BY <1>1, AppendProperties
  <1>3. /\ Len(s) \in Nat
        /\ Len(t) \in Nat \ {0}
    BY LenProperties, EmptySeq
  <1>4. /\ u \in Seq(S)
        /\ Len(u) = Len(s) + Len(t)
        /\ \A i \in 1 .. Len(s) + Len(t) :
             u[i] = IF i <= Len(s) + 1 THEN Append(s, Head(t))[i] ELSE Tail(t)[i - (Len(s) + 1)]
    BY <1>1, <1>2, <1>3, ConcatProperties
  <1>5. /\ v \in Seq(S)
        /\ Len(v) = Len(s) + Len(t)
        /\ \A i \in 1 .. Len(s) + Len(t) : v[i] = IF i <= Len(s) THEN s[i] ELSE t[i - Len(s)]
    BY ConcatProperties
  <1>6. ASSUME NEW i \in 1 .. Len(u)
        PROVE  u[i] = v[i]
    <2>1. CASE i <= Len(s)
      BY <2>1, <1>2, <1>3, <1>4, <1>5
    <2>2. CASE i = Len(s) + 1
      BY <2>2, <1>2, <1>3, <1>4, <1>5
    <2>3. CASE i > Len(s) + 1
      <3>1. /\ u[i] = Tail(t)[i - (Len(s) + 1)]
            /\ v[i] = t[i - Len(s)]
            /\ i - (Len(s) + 1) \in 1 .. Len(t) - 1
            /\ i - (Len(s) + 1) + 1 = i - Len(s)
        BY <2>3, <1>3, <1>4, <1>5
      <3> QED BY <3>1, <1>1
    <2> QED BY <2>1, <2>2, <2>3, <1>3, <1>4
  <1> HIDE DEF u, v
  <1>7. u = v
    BY <1>4, <1>5, <1>6, SeqEqual
  <1> QED BY <1>7 DEF u, v

(* If what was read and what waits are an initial part of the stream, the  *)
(* next item to read is the stream's next item.                            *)
LEMMA NextOfInitialPart ==
  ASSUME NEW S, NEW u \in Seq(S), NEW v \in Seq(S), NEW w \in Seq(S),
         v # <<>>,
         Len(u \o v) <= Len(w),
         \A i \in 1 .. Len(u \o v) : w[i] = (u \o v)[i]
  PROVE  Len(u) < Len(w) /\ w[Len(u) + 1] = Head(v)
PROOF
  <1> DEFINE uv == u \o v
  <1>1. /\ Len(u) \in Nat
        /\ Len(v) \in Nat \ {0}
        /\ Len(w) \in Nat
    BY LenProperties, EmptySeq
  <1>2. /\ Len(uv) = Len(u) + Len(v)
        /\ \A i \in 1 .. Len(u) + Len(v) : uv[i] = IF i <= Len(u) THEN u[i] ELSE v[i - Len(u)]
    BY ConcatProperties
  <1>3. Len(uv) <= Len(w) /\ \A i \in 1 .. Len(uv) : w[i] = uv[i]
    OBVIOUS
  <1>4. Head(v) = v[1]
    OBVIOUS
  <1> HIDE DEF uv
  <1>5. Len(u) + 1 \in 1 .. Len(u) + Len(v) /\ Len(u) < Len(w)
    BY <1>1, <1>2, <1>3
  <1>6. w[Len(u) + 1] = v[Len(u) + 1 - Len(u)]
    BY <1>1, <1>2, <1>3, <1>5
  <1> QED BY <1>1, <1>4, <1>5, <1>6

-----------------------------------------------------------------------------
(* A step of an iterator keeps the types of the buffer.                    *)
LEMMA IterStepKeepsType ==
  ASSUME BufferTypeOK, NEW q \in QueueId, IterStep(q)
  PROVE  BufferTypeOK'
PROOF
  <1>1. CASE GetItem(q)
    <2>1. queues[q] \in Seq(Item) /\ queues[q] # <<>> /\ got[q] \in Seq(Item)
      BY <1>1 DEF BufferTypeOK, GetItem
    <2>2. Head(queues[q]) \in Item /\ Tail(queues[q]) \in Seq(Item)
      BY <2>1, HeadTailProperties
    <2>3. Append(got[q], Head(queues[q])) \in Seq(Item)
      BY <2>1, <2>2, AppendProperties
    <2> QED BY <1>1, <2>2, <2>3 DEF BufferTypeOK, GetItem, IterState
  <1>2. CASE CountGet(q)
    BY <1>2 DEF BufferTypeOK, CountGet, IterState
  <1>3. CASE GetTimesOut(q)
    BY <1>3 DEF BufferTypeOK, GetTimesOut, IterState
  <1>4. CASE ReadDone(q)
    BY <1>4 DEF BufferTypeOK, ReadDone, IterState
  <1>5. CASE ReadEmpty(q)
    BY <1>5 DEF BufferTypeOK, ReadEmpty, IterState
  <1> QED BY <1>1, <1>2, <1>3, <1>4, <1>5 DEF IterStep

(* A step of an iterator neither adds, drops nor reorders an item of any   *)
(* queue: get() moves the head from the queue to the reader.               *)
LEMMA IterStepKeepsThrough ==
  ASSUME BufferTypeOK, NEW q \in QueueId, IterStep(q), NEW p \in QueueId
  PROVE  Through(p)' = Through(p)
PROOF
  <1>1. CASE GetItem(q)
    <2>1. CASE p = q
      <3>1. queues[q] \in Seq(Item) /\ queues[q] # <<>> /\ got[q] \in Seq(Item)
        BY <1>1 DEF BufferTypeOK, GetItem
      <3>2. Append(got[q], Head(queues[q])) \o Tail(queues[q]) = got[q] \o queues[q]
        BY <3>1, MoveHead
      <3>3. got'[q] = Append(got[q], Head(queues[q])) /\ queues'[q] = Tail(queues[q])
        BY <1>1 DEF BufferTypeOK, GetItem
      <3> QED BY <2>1, <3>2, <3>3 DEF Through
    <2>2. CASE p # q
      <3>1. got'[p] = got[p] /\ queues'[p] = queues[p]
        BY <1>1, <2>2 DEF BufferTypeOK, GetItem
      <3> QED BY <3>1 DEF Through
    <2> QED BY <2>1, <2>2
  <1>2. CASE UNCHANGED <<queues, got>>
    BY <1>2 DEF Through
  <1> QED BY <1>1, <1>2 DEF IterStep, CountGet, GetTimesOut, ReadDone, ReadEmpty

(* A step of an iterator keeps the evidence: it reads done before it reads *)
(* empty(), and a queue that it leaves for good is empty.                  *)
LEMMA IterStepKeepsEndSeen ==
  ASSUME BufferTypeOK, EndSeen, NEW q \in QueueId, IterStep(q)
  PROVE  EndSeen'
PROOF
  <1> SUFFICES ASSUME NEW p \in QueueId
               PROVE  /\ iter'[p] \in {"readEmpty", "ended"} => done'
                      /\ iter'[p] = "ended" => queues'[p] = <<>>
    BY DEF EndSeen
  <1> USE DEF BufferTypeOK, EndSeen
  <1>1. CASE GetItem(q)    BY <1>1 DEF GetItem
  <1>2. CASE CountGet(q)   BY <1>2 DEF CountGet
  <1>3. CASE GetTimesOut(q) BY <1>3 DEF GetTimesOut
  <1>4. CASE ReadDone(q)   BY <1>4 DEF ReadDone
  <1>5. CASE ReadEmpty(q)  BY <1>5 DEF ReadEmpty
  <1> QED BY <1>1, <1>2, <1>3, <1>4, <1>5 DEF IterStep

(* An iterator that has ended has returned everything that went through.   *)
LEMMA EndedHasAll ==
  ASSUME BufferTypeOK, EndSeen, NEW q \in QueueId, iter[q] = "ended"
  PROVE  done /\ got[q] = Through(q)
PROOF
  <1>1. done /\ queues[q] = <<>> /\ got[q] \in Seq(Item)
    BY DEF EndSeen, BufferTypeOK
  <1> QED BY <1>1, ConcatEmptySeq DEF Through

-----------------------------------------------------------------------------
(* The iterators that have stopped.                                        *)
Ended == {q \in QueueId : iter[q] = "ended"}

(* What a step of an iterator is to a reader of the whole stream s, if the *)
(* queue carries an initial part of s: nothing, the delivery of the next   *)
(* item, or the end of the stream.                                         *)
LEMMA IterStepDelivers ==
  ASSUME BufferTypeOK, NEW q \in QueueId, IterStep(q),
         NEW s \in Seq(Item),
         Len(Through(q)) <= Len(s),
         \A i \in 1 .. Len(Through(q)) : s[i] = Through(q)[i]
  PROVE  /\ done' = done
         /\ \/ got' = got /\ Ended' = Ended
            \/ /\ q \notin Ended
               /\ Len(got[q]) < Len(s)
               /\ got' = [got EXCEPT ![q] = Append(got[q], s[Len(got[q]) + 1])]
               /\ Ended' = Ended
            \/ /\ iter'[q] = "ended"
               /\ got' = got
               /\ Ended' = Ended \cup {q}
PROOF
  <1> USE DEF Ended
  <1>1. CASE GetItem(q)
    <2>1. /\ queues[q] \in Seq(Item)
          /\ queues[q] # <<>>
          /\ got[q] \in Seq(Item)
      BY <1>1 DEF BufferTypeOK, GetItem
    <2>2. \A u, v, w \in Seq(Item) :
            (/\ v # <<>>
             /\ Len(u \o v) <= Len(w)
             /\ \A i \in 1 .. Len(u \o v) : w[i] = (u \o v)[i])
            => Len(u) < Len(w) /\ w[Len(u) + 1] = Head(v)
      BY NextOfInitialPart
    <2>3. Head(queues[q]) = s[Len(got[q]) + 1] /\ Len(got[q]) < Len(s)
      BY <2>1, <2>2 DEF Through
    <2>4. got' = [got EXCEPT ![q] = Append(got[q], s[Len(got[q]) + 1])]
      BY <1>1, <2>3 DEF GetItem, BufferTypeOK
    <2>5. iter[q] = "poll" /\ Ended' = Ended
      BY <1>1 DEF GetItem, BufferTypeOK
    <2> QED BY <1>1, <2>3, <2>4, <2>5 DEF GetItem
  <1>2. CASE CountGet(q)
    BY <1>2 DEF CountGet, BufferTypeOK
  <1>3. CASE GetTimesOut(q)
    BY <1>3 DEF GetTimesOut, BufferTypeOK
  <1>4. CASE ReadDone(q)
    BY <1>4 DEF ReadDone, BufferTypeOK
  <1>5. CASE ReadEmpty(q)
    <2>1. CASE queues[q] = <<>>
      BY <1>5, <2>1 DEF ReadEmpty, BufferTypeOK
    <2>2. CASE queues[q] # <<>>
      BY <1>5, <2>2 DEF ReadEmpty, BufferTypeOK
    <2> QED BY <2>1, <2>2
  <1> QED BY <1>1, <1>2, <1>3, <1>4, <1>5 DEF IterStep

(* An iterator that is dropped has not ended.                              *)
LEMMA AbandonIsNotEnd ==
  ASSUME BufferTypeOK, NEW q \in QueueId, Abandon(q)
  PROVE  Ended' = Ended
PROOF BY DEF Abandon, Ended, BufferTypeOK

-----------------------------------------------------------------------------
(* The gets of a queue that are counted: all but the one whose iterator is *)
(* between Queue.get and the stats lock.                                   *)
GetsOf(q) == IF iter[q] = "count" THEN Len(got[q]) - 1 ELSE Len(got[q])

(* The counted gets, by queue and number.                                  *)
CountedGets == UNION {{q} \X (1 .. GetsOf(q)) : q \in QueueId}

(* _get_count is their number, although the iterators count at moments of  *)
(* their own.                                                              *)
GetCountInv ==
  /\ \A q \in QueueId : iter[q] = "count" => got[q] # <<>>
  /\ IsFiniteSet(CountedGets)
  /\ getCount = Cardinality(CountedGets)

(* Nothing has been got yet.                                               *)
LEMMA NothingIsCounted == BufferInit => GetCountInv
PROOF
  <1> SUFFICES ASSUME BufferInit PROVE GetCountInv
    OBVIOUS
  <1>1. \A q \in QueueId : GetsOf(q) = 0 /\ iter[q] = "poll"
    BY DEF BufferInit, GetsOf
  <1>2. CountedGets = {}
    BY <1>1 DEF CountedGets
  <1> QED BY <1>1, <1>2, FS_EmptySet DEF GetCountInv, BufferInit

(* Steps that leave the iterators alone.                                   *)
LEMMA SameGets ==
  ASSUME GetCountInv, UNCHANGED <<got, getCount>>,
         \A q \in QueueId : iter'[q] = "count" <=> iter[q] = "count"
  PROVE  GetCountInv'
PROOF
  <1>1. \A q \in QueueId : GetsOf(q)' = GetsOf(q)
    BY DEF GetsOf
  <1>2. CountedGets' = CountedGets
    BY <1>1 DEF CountedGets
  <1> QED BY <1>2 DEF GetCountInv

(* A get is counted once, after its item was returned.                     *)
LEMMA IterStepCounts ==
  ASSUME BufferTypeOK, GetCountInv, NEW q \in QueueId, IterStep(q)
  PROVE  GetCountInv'
PROOF
  <1> USE DEF BufferTypeOK
  <1>0. got[q] \in Seq(Item) /\ Len(got[q]) \in Nat
    BY LenProperties
  <1>1. CASE GetItem(q)
    <2>1. queues[q] \in Seq(Item) /\ queues[q] # <<>>
      BY <1>1 DEF GetItem
    <2>2. Head(queues[q]) \in Item
      BY <2>1, HeadTailProperties
    <2>3. got'[q] = Append(got[q], Head(queues[q])) /\ iter'[q] = "count" /\ iter[q] = "poll"
      BY <1>1 DEF GetItem
    <2>4. Len(got'[q]) = Len(got[q]) + 1 /\ got'[q] # <<>>
      <3>1. /\ Append(got[q], Head(queues[q])) # <<>>
            /\ Len(Append(got[q], Head(queues[q]))) = Len(got[q]) + 1
        BY <1>0, <2>2, AppendProperties
      <3> QED BY <2>3, <3>1
    <2>5. \A p \in QueueId : p # q => got'[p] = got[p] /\ iter'[p] = iter[p]
      BY <1>1 DEF GetItem
    <2>6. ASSUME NEW p \in QueueId
          PROVE  GetsOf(p)' = GetsOf(p)
      <3>1. CASE p = q
        <4>1. GetsOf(p) = Len(got[q]) /\ GetsOf(p)' = Len(got'[q]) - 1
          BY <2>3, <3>1 DEF GetsOf
        <4> QED BY <1>0, <2>4, <4>1
      <3>2. CASE p # q
        BY <2>5, <3>2 DEF GetsOf
      <3> QED BY <3>1, <3>2
    <2>7. CountedGets' = CountedGets /\ UNCHANGED getCount
      BY <1>1, <2>6 DEF CountedGets, GetItem
    <2>8. \A p \in QueueId : iter'[p] = "count" => got'[p] # <<>>
      BY <2>4, <2>5 DEF GetCountInv
    <2> QED BY <2>7, <2>8 DEF GetCountInv
  <1>2. CASE CountGet(q)
    <2> DEFINE new == <<q, Len(got[q])>>
    <2>1. iter[q] = "count" /\ iter'[q] = "poll" /\ UNCHANGED got /\ getCount' = getCount + 1
      BY <1>2 DEF CountGet
    <2>2. \A p \in QueueId : p # q => iter'[p] = iter[p]
      BY <1>2 DEF CountGet
    <2>3. Len(got[q]) \in Nat \ {0}
      BY <1>0, <2>1, EmptySeq DEF GetCountInv
    <2>4. GetsOf(q) = Len(got[q]) - 1 /\ GetsOf(q)' = Len(got[q])
      BY <2>1 DEF GetsOf
    <2>5. \A p \in QueueId : p # q => GetsOf(p)' = GetsOf(p)
      BY <2>1, <2>2 DEF GetsOf
    <2>6. 1 .. Len(got[q]) = (1 .. Len(got[q]) - 1) \cup {Len(got[q])} /\ Len(got[q]) \notin 1 .. Len(got[q]) - 1
      BY <2>3
    <2>7. {q} \X (1 .. GetsOf(q)') = ({q} \X (1 .. GetsOf(q))) \cup {new}
      BY <2>4, <2>6
    <2>8. CountedGets' = CountedGets \cup {new}
      BY <2>5, <2>7 DEF CountedGets
    <2>9. new \notin CountedGets
      BY <2>4, <2>6 DEF CountedGets
    <2>10. IsFiniteSet(CountedGets') /\ Cardinality(CountedGets') = Cardinality(CountedGets) + 1
      BY <2>8, <2>9, FS_AddElement DEF GetCountInv
    <2>11. \A p \in QueueId : iter'[p] = "count" => got'[p] # <<>>
      BY <2>1, <2>2 DEF GetCountInv
    <2> QED BY <2>1, <2>10, <2>11 DEF GetCountInv
  <1>3. CASE GetTimesOut(q) \/ ReadDone(q) \/ ReadEmpty(q)
    BY <1>3, SameGets DEF GetTimesOut, ReadDone, ReadEmpty
  <1> QED BY <1>1, <1>2, <1>3 DEF IterStep

(* When every iterator has returned n items and counted them, n gets were  *)
(* counted for each queue.                                                 *)
LEMMA AllGetsCounted ==
  ASSUME GetCountInv, NEW n \in Nat, \A q \in QueueId : GetsOf(q) = n
  PROVE  getCount = n * NumQueues
PROOF
  <1>1. CountedGets = QueueId \X (1 .. n)
    BY DEF CountedGets
  <1>2. IsFiniteSet(1 .. n) /\ Cardinality(1 .. n) = n
    BY FS_Interval
  <1>3. IsFiniteSet(QueueId) /\ Cardinality(QueueId) = NumQueues
    BY NumQueuesAssumption, FS_Interval DEF QueueId
  <1>4. Cardinality(CountedGets) = NumQueues * n
    BY <1>1, <1>2, <1>3, FS_Product
  <1> QED BY <1>4, NumQueuesAssumption DEF GetCountInv

=============================================================================
