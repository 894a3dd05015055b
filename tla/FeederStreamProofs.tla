------------------------- MODULE FeederStreamProofs -------------------------
(***************************************************************************)
(* FeederStream, for any finite set of sources and a buffer of any size:   *)
(* the buffer is marked done exactly when every feeder has exited, the     *)
(* merged iterator ends only when it has returned every item that was put, *)
(* each source's items stay in order and complete, errors surface, and the *)
(* merged output implements Stream.                                        *)
(***************************************************************************)
EXTENDS FeederStream, BufferProofs

(* _active_count counts the feeders that have not left.                    *)
CountInv == activeCount = Cardinality(Active)

(* A feeder takes itself for the last one only when no other is counted,   *)
(* so there is at most one of them.                                        *)
LastInv ==
  \A s \in Source : feeder[s] = "last" =>
    /\ Active = {}
    /\ \A t \in Source : feeder[t] = "last" => t = s

(* A feeder on its way to put() carries an item of its source.             *)
CarryInv == \A s \in Source : feeder[s] \in {"check", "loop", "put"} => pulled[s] > 0

(* The single queue carries what the feeders put, in the order of the put. *)
MergeInv == Through(0) = sent

(* The inductive invariant.  That done comes with the exit of all feeders  *)
(* rests on the count under _active_lock; that nothing is left behind by   *)
(* the reader rests on done coming last and on EndSeen.                    *)
Inv == TypeOK /\ CarryInv /\ CountInv /\ LastInv /\ DoneIffAllExited /\ MergeInv /\ EndSeen

-----------------------------------------------------------------------------
(* With one queue, 0 is its only index.                                    *)
LEMMA OneQueue == QueueId = {0}
PROOF BY SingleQueueAssumption DEF QueueId

(* The carried item is an item.                                            *)
LEMMA CarriedType ==
  ASSUME TypeOK, NEW s \in Source, pulled[s] > 0
  PROVE  Carried(s) \in Item
PROOF BY ItemAssumption, MaxItemsAssumption DEF TypeOK, Carried

(* The stream starts with every feeder active and nothing put.             *)
LEMMA InitInv == Init => Inv
PROOF
  <1> SUFFICES ASSUME Init PROVE Inv
    OBVIOUS
  <1> USE DEF Init, BufferInit
  <1>1. <<>> \in Seq(Item)
    BY EmptySeq
  <1>2. Cardinality(Source) \in Nat
    BY SourceAssumption, FS_CardinalityType
  <1>3. TypeOK
    <2>1. BufferTypeOK
      BY <1>1 DEF BufferTypeOK, IterState
    <2>2. activeCount \in 0 .. Cardinality(Source)
      BY <1>2
    <2>3. pulled \in [Source -> 0 .. MaxItems] /\ chunkCounts \in [Source -> Nat]
      BY MaxItemsAssumption
    <2> QED BY <1>1, <2>1, <2>2, <2>3 DEF TypeOK, FeederState, OwnerState
  <1>4. Active = Source
    BY DEF Active
  <1>5. CarryInv /\ CountInv /\ LastInv /\ DoneIffAllExited
    BY <1>4 DEF CarryInv, CountInv, LastInv, DoneIffAllExited
  <1>6. MergeInv
    BY <1>1, OneQueue, ConcatEmptySeq DEF MergeInv, Through
  <1>7. EndSeen
    BY DEF EndSeen
  <1> QED BY <1>3, <1>5, <1>6, <1>7 DEF Inv

-----------------------------------------------------------------------------
(* The steps that move one feeder and neither leave, nor put, nor signal.  *)
Moves(s) ==
  /\ feeder[s] \notin {"finally", "last", "exited"}
  /\ \E state \in FeederState \ {"last", "exited"} : Goto(s, state)
  /\ UNCHANGED <<queues, done, iter, got, sent, activeCount>>

LEMMA MovesSteps ==
  ASSUME NEW s \in Source,
         \/ SourceYields(s) \/ SourceEnds(s) \/ SourceRaises(s) \/ CheckStop(s) \/ TryPut(s)
         \/ PutTimesOut(s) \/ PutCounted(s) \/ RecheckStop(s) \/ Tally(s) \/ RecordError(s)
  PROVE  Moves(s)
PROOF
  BY DEF Moves, FeederState, bufferVars, iterVars, SourceYields, SourceEnds, SourceRaises,
         CheckStop, TryPut, PutTimesOut, PutCounted, RecheckStop, Tally, RecordError, Goto

(* The steps of the owner and of nobody: no feeder moves.                  *)
LEMMA OwnerSteps ==
  ASSUME Iterate \/ OwnerCloses \/ OwnerStops \/ OwnerReturns \/ StopEarly \/ Finished
         \/ UNCHANGED vars
  PROVE  UNCHANGED <<feederVars, done>>
PROOF
  BY DEF Iterate, IterStep, GetItem, CountGet, GetTimesOut, ReadDone, ReadEmpty, OwnerCloses,
         Abandon, OwnerStops, OwnerReturns, StopEarly, Finished, vars, bufferVars, feederVars

-----------------------------------------------------------------------------
(* The feeders that are counted are finitely many.                         *)
LEMMA ActiveIsFinite ==
  /\ IsFiniteSet(Active)
  /\ Cardinality(Active) \in Nat
  /\ Cardinality(Active) <= Cardinality(Source)
  /\ Cardinality(Active) = 0 <=> Active = {}
PROOF
  <1>1. Active \in SUBSET Source
    BY DEF Active
  <1>2. IsFiniteSet(Active) /\ Cardinality(Active) <= Cardinality(Source)
    BY <1>1, SourceAssumption, FS_Subset
  <1> QED BY <1>2, FS_CardinalityType, FS_EmptySet

(* A feeder that leaves is taken out of the count, and out of nothing else.*)
LEMMA LeaveCounts ==
  ASSUME TypeOK, CountInv, NEW s \in Source, Leave(s)
  PROVE  /\ Active' = Active \ {s}
         /\ activeCount' = Cardinality(Active')
         /\ activeCount' \in 0 .. Cardinality(Source)
         /\ activeCount' = 0 <=> Active' = {}
         /\ feeder' = [feeder EXCEPT ![s] = IF Active' = {} THEN "last" ELSE "exited"]
PROOF
  <1>1. Active' = Active \ {s} /\ s \in Active
    BY DEF TypeOK, Active, Leave, Goto
  <1>2. /\ IsFiniteSet(Active)
        /\ Cardinality(Active) \in Nat
        /\ Cardinality(Active) <= Cardinality(Source)
        /\ Cardinality(Source) \in Nat
    BY ActiveIsFinite, SourceAssumption, FS_CardinalityType
  <1>3. /\ IsFiniteSet(Active \ {s})
        /\ Cardinality(Active \ {s}) = Cardinality(Active) - 1
    BY <1>1, <1>2, FS_RemoveElement
  <1>4. /\ Cardinality(Active \ {s}) \in Nat
        /\ Cardinality(Active \ {s}) = 0 <=> Active \ {s} = {}
    BY <1>3, FS_CardinalityType, FS_EmptySet
  <1>5. activeCount' = Cardinality(Active \ {s})
    BY <1>3 DEF CountInv, Leave
  <1>6. activeCount' = Cardinality(Active')
    BY <1>1, <1>5
  <1>7. activeCount' \in 0 .. Cardinality(Source)
    BY <1>2, <1>3, <1>4, <1>5
  <1>8. activeCount' = 0 <=> Active' = {}
    BY <1>1, <1>4, <1>5
  <1>9. feeder' = [feeder EXCEPT ![s] = IF Active' = {} THEN "last" ELSE "exited"]
    BY <1>8 DEF Leave, Goto
  <1> QED BY <1>1, <1>6, <1>7, <1>8, <1>9

(* Every step keeps the types and what a feeder carries.                   *)
LEMMA NextKeepsType == Inv /\ [Next]_vars => TypeOK' /\ CarryInv'
PROOF
  <1> SUFFICES ASSUME Inv, [Next]_vars PROVE TypeOK' /\ CarryInv'
    OBVIOUS
  <1> USE DEF Inv, Goto, bufferVars, iterVars, feederVars
  <1>1. ASSUME NEW s \in Source,
               SourceYields(s) \/ SourceEnds(s) \/ SourceRaises(s) \/ RecordError(s) \/ Tally(s)
        PROVE  TypeOK' /\ CarryInv'
    <2>1. BufferTypeOK'
      BY <1>1 DEF TypeOK, BufferTypeOK, SourceYields, SourceEnds, SourceRaises, RecordError, Tally
    <2>2. CASE SourceYields(s)
      <3>1. pulled[s] \in 0 .. MaxItems /\ pulled[s] < MaxItems
        BY <2>2 DEF TypeOK, SourceYields
      <3>2. pulled' \in [Source -> 0 .. MaxItems] /\ pulled'[s] > 0
        BY <2>2, <3>1, MaxItemsAssumption DEF TypeOK, SourceYields
      <3> QED BY <2>1, <2>2, <3>2 DEF TypeOK, CarryInv, FeederState, SourceYields
    <2>3. CASE SourceEnds(s)
      BY <2>1, <2>3 DEF TypeOK, CarryInv, FeederState, SourceEnds
    <2>4. CASE SourceRaises(s)
      BY <2>1, <2>4 DEF TypeOK, CarryInv, FeederState, SourceRaises
    <2>5. CASE RecordError(s)
      BY <2>1, <2>5 DEF TypeOK, CarryInv, FeederState, RecordError
    <2>6. CASE Tally(s)
      BY <2>1, <2>6 DEF TypeOK, CarryInv, FeederState, Tally
    <2> QED BY <1>1, <2>2, <2>3, <2>4, <2>5, <2>6
  <1>2. ASSUME NEW s \in Source, CheckStop(s) \/ TryPut(s) \/ PutTimesOut(s) \/ RecheckStop(s)
        PROVE  TypeOK' /\ CarryInv'
    <2>1. BufferTypeOK'
      BY <1>2 DEF TypeOK, BufferTypeOK, CheckStop, TryPut, PutTimesOut, RecheckStop
    <2> QED
      BY <1>2, <2>1 DEF TypeOK, CarryInv, FeederState, CheckStop, TryPut, PutTimesOut, RecheckStop
  <1>3. ASSUME NEW s \in Source, PutItem(s)
        PROVE  TypeOK' /\ CarryInv'
    <2>1. Carried(s) \in Item
      BY <1>3, CarriedType DEF CarryInv, PutItem
    <2>2. 0 \in QueueId
      BY OneQueue
    <2>3. Append(sent, Carried(s)) \in Seq(Item) /\ Append(queues[0], Carried(s)) \in Seq(Item)
      BY <2>1, <2>2, AppendProperties DEF TypeOK, BufferTypeOK
    <2>4. BufferTypeOK'
      BY <1>3, <2>2, <2>3 DEF TypeOK, BufferTypeOK, PutItem, Enqueue
    <2> QED BY <1>3, <2>3, <2>4 DEF TypeOK, CarryInv, FeederState, PutItem
  <1>4. ASSUME NEW s \in Source, PutCounted(s)
        PROVE  TypeOK' /\ CarryInv'
    BY <1>4 DEF TypeOK, BufferTypeOK, CarryInv, FeederState, PutCounted, CountPut
  <1>5. ASSUME NEW s \in Source, Leave(s)
        PROVE  TypeOK' /\ CarryInv'
    <2>1. activeCount' \in 0 .. Cardinality(Source)
      BY <1>5, LeaveCounts
    <2> QED BY <1>5, <2>1 DEF TypeOK, BufferTypeOK, CarryInv, FeederState, Leave
  <1>6. ASSUME NEW s \in Source, LastFeederSignals(s)
        PROVE  TypeOK' /\ CarryInv'
    BY <1>6 DEF TypeOK, BufferTypeOK, CarryInv, FeederState, LastFeederSignals, SignalDone
  <1>7. CASE Iterate
    <2>1. BufferTypeOK'
      BY <1>7, OneQueue, IterStepKeepsType DEF Iterate, TypeOK
    <2> QED BY <1>7, <2>1 DEF Iterate, TypeOK, CarryInv
  <1>8. CASE OwnerCloses
    BY <1>8 DEF OwnerCloses, Abandon, TypeOK, BufferTypeOK, CarryInv, IterState
  <1>9. CASE OwnerStops \/ OwnerReturns \/ StopEarly \/ Finished \/ UNCHANGED vars
    <2>1. BufferTypeOK'
      BY <1>9 DEF OwnerStops, OwnerReturns, StopEarly, Finished, vars, TypeOK, BufferTypeOK
    <2> QED
      BY <1>9, <2>1
         DEF OwnerStops, OwnerReturns, StopEarly, Finished, vars, TypeOK, CarryInv, OwnerState
  <1> QED
    BY <1>1, <1>2, <1>3, <1>4, <1>5, <1>6, <1>7, <1>8, <1>9 DEF Next, FeederStep

(* Every step keeps the count, the uniqueness of the last feeder, and the  *)
(* equivalence of done with the exit of all feeders.                       *)
LEMMA NextKeepsLast == Inv /\ [Next]_vars => CountInv' /\ LastInv' /\ DoneIffAllExited'
PROOF
  <1> SUFFICES ASSUME Inv, [Next]_vars PROVE CountInv' /\ LastInv' /\ DoneIffAllExited'
    OBVIOUS
  <1> USE DEF Inv
  <1>1. ASSUME NEW s \in Source, Moves(s)
        PROVE  CountInv' /\ LastInv' /\ DoneIffAllExited'
    <2>1. Active' = Active
      BY <1>1 DEF TypeOK, Active, Moves, Goto
    <2>2. CountInv'
      BY <1>1, <2>1 DEF CountInv, Moves
    <2>3. LastInv'
      BY <1>1, <2>1 DEF TypeOK, LastInv, Moves, Goto
    <2>4. DoneIffAllExited'
      BY <1>1 DEF TypeOK, DoneIffAllExited, Moves, Goto
    <2> QED BY <2>2, <2>3, <2>4
  <1>2. ASSUME NEW s \in Source, PutItem(s)
        PROVE  CountInv' /\ LastInv' /\ DoneIffAllExited'
    <2>1. Active' = Active
      BY <1>2 DEF TypeOK, Active, PutItem, Goto
    <2> QED BY <1>2, <2>1 DEF TypeOK, CountInv, LastInv, DoneIffAllExited, PutItem, Goto
  <1>3. ASSUME NEW s \in Source, Leave(s)
        PROVE  CountInv' /\ LastInv' /\ DoneIffAllExited'
    <2>1. /\ Active' = Active \ {s}
          /\ activeCount' = Cardinality(Active')
          /\ feeder' = [feeder EXCEPT ![s] = IF Active' = {} THEN "last" ELSE "exited"]
      BY <1>3, LeaveCounts
    <2>2. s \in Active /\ done' = done
      BY <1>3 DEF Active, Leave, bufferVars
    <2>3. \A t \in Source : feeder[t] # "last"
      BY <2>2 DEF LastInv
    <2>4. LastInv'
      BY <2>1, <2>3 DEF TypeOK, LastInv
    <2>5. ~done
      BY <2>2 DEF Active, DoneIffAllExited
    <2>6. ~ \A t \in Source : feeder'[t] = "exited"
      <3>1. CASE Active' = {}
        BY <2>1, <3>1 DEF TypeOK
      <3>2. CASE Active' # {}
        BY <3>2 DEF Active
      <3> QED BY <3>1, <3>2
    <2> QED BY <2>1, <2>2, <2>4, <2>5, <2>6 DEF CountInv, DoneIffAllExited
  <1>4. ASSUME NEW s \in Source, LastFeederSignals(s)
        PROVE  CountInv' /\ LastInv' /\ DoneIffAllExited'
    <2>1. /\ feeder[s] = "last"
          /\ feeder' = [feeder EXCEPT ![s] = "exited"]
          /\ done'
          /\ activeCount' = activeCount
      BY <1>4 DEF LastFeederSignals, SignalDone, Goto
    <2>2. Active = {} /\ \A t \in Source \ {s} : feeder[t] # "last"
      BY <2>1 DEF LastInv
    <2>3. \A t \in Source : feeder'[t] = "exited"
      BY <2>1, <2>2 DEF Active, TypeOK
    <2>4. Active' = Active
      BY <2>2, <2>3 DEF Active
    <2> QED BY <2>1, <2>3, <2>4 DEF CountInv, LastInv, DoneIffAllExited
  <1>5. CASE UNCHANGED <<feederVars, done>>
    BY <1>5 DEF feederVars, CountInv, LastInv, DoneIffAllExited, Active
  <1> QED
    BY <1>1, <1>2, <1>3, <1>4, <1>5, MovesSteps, OwnerSteps DEF Next, FeederStep

(* Every step keeps the order of the merge and the reader's evidence.      *)
LEMMA NextKeepsMerge == Inv /\ [Next]_vars => MergeInv' /\ EndSeen'
PROOF
  <1> SUFFICES ASSUME Inv, [Next]_vars PROVE MergeInv' /\ EndSeen'
    OBVIOUS
  <1> USE DEF Inv
  <1>1. CASE UNCHANGED <<queues, got, sent, iter>> /\ (done => done')
    BY <1>1 DEF MergeInv, Through, EndSeen
  <1>2. ASSUME NEW s \in Source, PutItem(s)
        PROVE  MergeInv' /\ EndSeen'
    <2>1. Carried(s) \in Item /\ 0 \in QueueId
      BY <1>2, CarriedType, OneQueue DEF CarryInv, PutItem
    <2>2. \A u, v \in Seq(Item), e \in Item : u \o Append(v, e) = Append(u \o v, e)
      BY AppendToConcat
    <2>3. got[0] \o Append(queues[0], Carried(s)) = Append(got[0] \o queues[0], Carried(s))
      BY <2>1, <2>2 DEF TypeOK, BufferTypeOK
    <2>4. /\ queues'[0] = Append(queues[0], Carried(s))
          /\ got'[0] = got[0]
          /\ sent' = Append(sent, Carried(s))
      BY <1>2, <2>1 DEF PutItem, Enqueue, iterVars, TypeOK, BufferTypeOK
    <2>5. MergeInv'
      BY <2>3, <2>4 DEF MergeInv, Through
    <2>6. ~done
      BY <1>2 DEF PutItem, DoneIffAllExited
    <2> QED BY <1>2, <2>5, <2>6 DEF PutItem, iterVars, EndSeen
  <1>3. CASE Iterate
    <2>1. 0 \in QueueId /\ IterStep(0) /\ BufferTypeOK /\ sent' = sent
      BY <1>3, OneQueue DEF Iterate, feederVars, TypeOK
    <2>2. Through(0)' = Through(0)
      BY <2>1, IterStepKeepsThrough
    <2>3. EndSeen'
      BY <2>1, IterStepKeepsEndSeen
    <2> QED BY <2>1, <2>2, <2>3 DEF MergeInv
  <1>4. CASE OwnerCloses
    BY <1>4 DEF OwnerCloses, Abandon, feederVars, MergeInv, Through, EndSeen, TypeOK, BufferTypeOK
  <1>5. ASSUME NEW s \in Source, Moves(s) \/ Leave(s) \/ LastFeederSignals(s)
        PROVE  MergeInv' /\ EndSeen'
    BY <1>1, <1>5 DEF Moves, Leave, LastFeederSignals, SignalDone, bufferVars, iterVars
  <1>6. CASE OwnerStops \/ OwnerReturns \/ StopEarly \/ Finished \/ UNCHANGED vars
    BY <1>1, <1>6
       DEF OwnerStops, OwnerReturns, StopEarly, Finished, vars, bufferVars, feederVars
  <1> QED
    BY <1>2, <1>3, <1>4, <1>5, <1>6, MovesSteps DEF Next, FeederStep

(* The invariant is inductive.                                             *)
THEOREM Invariance == Safety => []Inv
PROOF
  <1>1. Inv /\ [Next]_vars => Inv'
    BY NextKeepsType, NextKeepsLast, NextKeepsMerge DEF Inv
  <1> QED BY InitInv, <1>1, PTL DEF Safety

-----------------------------------------------------------------------------
(* Type correctness of the feeders, the shared buffer and their owner      *)
(* (common/feeder_stream.py).                                              *)
THEOREM TypeCorrect == Spec => []TypeOK
PROOF
  <1>1. Inv => TypeOK
    BY DEF Inv
  <1> QED BY Invariance, <1>1, PTL DEF Spec

(* _feeder_worker's finally clause: the last feeder to leave, and only it, *)
(* marks the buffer done, whatever the order in which they leave.          *)
THEOREM DoneWhenAllExited == Spec => []DoneIffAllExited
PROOF
  <1>1. Inv => DoneIffAllExited
    BY DEF Inv
  <1> QED BY Invariance, <1>1, PTL DEF Spec

(* The merged iterator ends only after every item that any feeder has put  *)
(* was returned: the race between the last put, done and empty() is lost   *)
(* by nobody.                                                              *)
THEOREM EndedIsDrained == Spec => []EndedMeansDrained
PROOF
  <1>1. Inv => EndedMeansDrained
    <2> SUFFICES ASSUME Inv, iter[0] = "ended" PROVE got[0] = sent
      BY DEF EndedMeansDrained
    <2>1. got[0] = Through(0)
      BY OneQueue, EndedHasAll DEF Inv, TypeOK
    <2> QED BY <2>1 DEF Inv, MergeInv
  <1> QED BY Invariance, <1>1, PTL DEF Spec

-----------------------------------------------------------------------------
(* What the feeders have put, source by source: everything the source has  *)
(* yielded, but for the item its feeder carries or has dropped for a stop. *)
PutInv ==
  \A s \in Source :
    /\ InOrder(s, sent)
    /\ \/ /\ NumbersOf(s, sent) = 1 .. pulled[s]
          /\ feeder[s] \notin {"check", "loop", "put"}
       \/ /\ NumbersOf(s, sent) = 1 .. pulled[s] - 1
          /\ \/ feeder[s] \in {"check", "loop", "put"}
             \/ stopEvent /\ feeder[s] \in {"finally", "last", "exited"}

(* What the feeders have tallied, and how their sources have ended: an     *)
(* error is on its way into errors or there.                               *)
TallyInv ==
  \A s \in Source :
    /\ feeder[s] \in {"check", "loop", "put", "counted", "recheck", "tally"} =>
         chunkCounts[s] = pulled[s] - 1
    /\ feeder[s] \in {"pull", "except"} => chunkCounts[s] = pulled[s]
    /\ feeder[s] \in {"finally", "last", "exited"} /\ ~stopEvent =>
         chunkCounts[s] = pulled[s] /\ outcome[s] # "open"
    /\ feeder[s] = "except" => outcome[s] = "raised"
    /\ outcome[s] = "raised" => feeder[s] = "except" \/ s \in errors

(* The owner goes on only when its iterator is at an end, and looks at the *)
(* errors after that.                                                      *)
OwnerInv ==
  /\ owner # "iterating" => iter[0] \in {"ended", "abandoned"}
  /\ owner = "returned" => iter[0] = "ended" /\ errors = {}

CourseInv == PutInv /\ TallyInv /\ OwnerInv

(* An item that is put is the source's next one.                           *)
LEMMA NextNumber ==
  ASSUME TypeOK, NEW s \in Source, NEW n \in 1 .. MaxItems,
         sent' = Append(sent, <<s, n>>),
         NumbersOf(s, sent) = 1 .. n - 1, InOrder(s, sent)
  PROVE  NumbersOf(s, sent') = 1 .. n /\ InOrder(s, sent')
PROOF
  <1>0. sent \in Seq(Item) /\ Len(sent) \in Nat /\ <<s, n>> \in Item /\ n \in Nat \ {0}
    BY LenProperties, ItemAssumption, MaxItemsAssumption DEF TypeOK
  <1>1. /\ Len(sent') = Len(sent) + 1
        /\ \A i \in 1 .. Len(sent) : sent'[i] = sent[i]
        /\ sent'[Len(sent) + 1] = <<s, n>>
    BY <1>0, AppendProperties
  <1>2. 1 .. Len(sent') = (1 .. Len(sent)) \cup {Len(sent) + 1}
    BY <1>0, <1>1
  <1>3. NumbersOf(s, sent') = NumbersOf(s, sent) \cup {n}
    <2>1. {i \in 1 .. Len(sent') : sent'[i][1] = s}
          = {i \in 1 .. Len(sent) : sent[i][1] = s} \cup {Len(sent) + 1}
      BY <1>1, <1>2
    <2>2. \A i \in {i \in 1 .. Len(sent) : sent[i][1] = s} : sent'[i][2] = sent[i][2]
      BY <1>1
    <2>3. sent'[Len(sent) + 1][2] = n
      BY <1>1
    <2> QED BY <2>1, <2>2, <2>3 DEF NumbersOf
  <1>4. NumbersOf(s, sent') = 1 .. n
    <2>1. (1 .. n - 1) \cup {n} = 1 .. n
      BY <1>0
    <2> QED BY <1>3, <2>1
  <1>5. InOrder(s, sent')
    <2> SUFFICES ASSUME NEW i \in 1 .. Len(sent'), NEW j \in 1 .. Len(sent'),
                        i < j, sent'[i][1] = s, sent'[j][1] = s
                 PROVE  sent'[i][2] < sent'[j][2]
      BY DEF InOrder
    <2>1. i \in 1 .. Len(sent)
      BY <1>0, <1>1
    <2>2. sent[i][1] = s /\ sent'[i][2] = sent[i][2]
      BY <1>1, <2>1
    <2>3. CASE j \in 1 .. Len(sent)
      BY <1>1, <2>1, <2>2, <2>3 DEF InOrder
    <2>4. CASE j = Len(sent) + 1
      <3>1. sent[i][2] \in NumbersOf(s, sent)
        BY <2>1, <2>2 DEF NumbersOf
      <3>2. sent[i][2] \in 1 .. n - 1
        BY <3>1
      <3>3. sent'[j][2] = n
        BY <1>1, <2>4
      <3> QED BY <1>0, <2>2, <3>2, <3>3
    <2> QED BY <1>2, <2>3, <2>4
  <1> QED BY <1>4, <1>5

(* It is not an item of another source.                                    *)
LEMMA OthersNumbers ==
  ASSUME TypeOK, NEW s \in Source, NEW n \in 1 .. MaxItems, NEW t \in Source, t # s,
         sent' = Append(sent, <<s, n>>), InOrder(t, sent)
  PROVE  NumbersOf(t, sent') = NumbersOf(t, sent) /\ InOrder(t, sent')
PROOF
  <1>0. sent \in Seq(Item) /\ Len(sent) \in Nat /\ <<s, n>> \in Item
    BY LenProperties, ItemAssumption DEF TypeOK
  <1>1. /\ Len(sent') = Len(sent) + 1
        /\ \A i \in 1 .. Len(sent) : sent'[i] = sent[i]
        /\ sent'[Len(sent) + 1] = <<s, n>>
    BY <1>0, AppendProperties
  <1>2. 1 .. Len(sent') = (1 .. Len(sent)) \cup {Len(sent) + 1}
    BY <1>0, <1>1
  <1>3. sent'[Len(sent) + 1][1] # t
    BY <1>1
  <1>4. {i \in 1 .. Len(sent') : sent'[i][1] = t} = {i \in 1 .. Len(sent) : sent[i][1] = t}
    BY <1>1, <1>2, <1>3
  <1>5. \A i \in {i \in 1 .. Len(sent) : sent[i][1] = t} : sent'[i][2] = sent[i][2]
    BY <1>1
  <1>6. NumbersOf(t, sent') = NumbersOf(t, sent)
    BY <1>4, <1>5 DEF NumbersOf
  <1>7. InOrder(t, sent')
    <2> SUFFICES ASSUME NEW i \in 1 .. Len(sent'), NEW j \in 1 .. Len(sent'),
                        i < j, sent'[i][1] = t, sent'[j][1] = t
                 PROVE  sent'[i][2] < sent'[j][2]
      BY DEF InOrder
    <2>1. i \in 1 .. Len(sent) /\ j \in 1 .. Len(sent)
      BY <1>2, <1>3
    <2> QED BY <1>1, <2>1 DEF InOrder
  <1> QED BY <1>6, <1>7

(* Every step of a feeder keeps the order and the completeness of the puts.*)
LEMMA NextKeepsPut == Inv /\ PutInv /\ [Next]_vars => PutInv'
PROOF
  <1> SUFFICES ASSUME Inv, PutInv, [Next]_vars PROVE PutInv'
    OBVIOUS
  <1>0. /\ TypeOK /\ feeder \in [Source -> FeederState]
        /\ pulled \in [Source -> 0 .. MaxItems]
    BY DEF Inv, TypeOK
  <1> USE DEF Goto, bufferVars, iterVars, feederVars
  <1>1. ASSUME NEW s \in Source, PutItem(s) PROVE PutInv'
    <2>1. pulled[s] \in 1 .. MaxItems /\ feeder[s] = "put" /\ feeder'[s] = "counted"
      BY <1>0, <1>1, MaxItemsAssumption DEF Inv, CarryInv, PutItem
    <2>2. sent' = Append(sent, <<s, pulled[s]>>) /\ pulled' = pulled /\ stopEvent' = stopEvent
      BY <1>1 DEF PutItem, Carried
    <2>3. NumbersOf(s, sent) = 1 .. pulled[s] - 1 /\ InOrder(s, sent)
      BY <2>1 DEF PutInv
    <2>4. NumbersOf(s, sent') = 1 .. pulled[s] /\ InOrder(s, sent')
      BY <1>0, <2>1, <2>2, <2>3, NextNumber
    <2>5. ASSUME NEW t \in Source, t # s
          PROVE  NumbersOf(t, sent') = NumbersOf(t, sent) /\ InOrder(t, sent')
      <3>1. InOrder(t, sent)
        BY DEF PutInv
      <3> QED BY <1>0, <2>1, <2>2, <2>5, <3>1, OthersNumbers
    <2>6. \A t \in Source : t # s => feeder'[t] = feeder[t]
      BY <1>1 DEF PutItem
    <2> QED BY <2>1, <2>2, <2>4, <2>5, <2>6 DEF PutInv
  <1>2. ASSUME NEW s \in Source, SourceYields(s) PROVE PutInv'
    <2>1. feeder[s] = "pull" /\ feeder'[s] = "check" /\ pulled'[s] = pulled[s] + 1
      BY <1>0, <1>2 DEF SourceYields
    <2>2. UNCHANGED <<sent, stopEvent>>
          /\ \A t \in Source : t # s => feeder'[t] = feeder[t] /\ pulled'[t] = pulled[t]
      BY <1>0, <1>2 DEF SourceYields
    <2>3. NumbersOf(s, sent) = 1 .. pulled'[s] - 1 /\ InOrder(s, sent)
      <3>1. NumbersOf(s, sent) = 1 .. pulled[s] /\ InOrder(s, sent)
        BY <2>1 DEF PutInv
      <3>2. pulled'[s] - 1 = pulled[s]
        BY <1>0, <2>1
      <3> QED BY <3>1, <3>2
    <2> QED BY <2>1, <2>2, <2>3 DEF PutInv
  <1>3. ASSUME NEW s \in Source,
               \/ SourceEnds(s) \/ SourceRaises(s) \/ CheckStop(s) \/ TryPut(s)
               \/ PutTimesOut(s) \/ PutCounted(s) \/ RecheckStop(s) \/ Tally(s) \/ RecordError(s)
               \/ Leave(s) \/ LastFeederSignals(s)
        PROVE  PutInv'
    <2>1. UNCHANGED <<sent, stopEvent, pulled>> /\ \A t \in Source : t # s => feeder'[t] = feeder[t]
      BY <1>0, <1>3 DEF SourceEnds, SourceRaises, CheckStop, TryPut, PutTimesOut, PutCounted,
           RecheckStop, Tally, RecordError, Leave, LastFeederSignals
    <2>2. \/ /\ feeder[s] \in {"check", "loop", "put"}
             /\ \/ feeder'[s] \in {"check", "loop", "put"}
                \/ stopEvent /\ feeder'[s] = "finally"
          \/ /\ feeder[s] \notin {"check", "loop", "put", "finally", "last", "exited"}
             /\ feeder'[s] \notin {"check", "loop", "put"}
          \/ /\ feeder[s] \in {"finally", "last", "exited"}
             /\ feeder'[s] \in {"finally", "last", "exited"}
      BY <1>0, <1>3 DEF SourceEnds, SourceRaises, CheckStop, TryPut, PutTimesOut, PutCounted,
           RecheckStop, Tally, RecordError, Leave, LastFeederSignals
    <2>3. ASSUME NEW t \in Source
          PROVE  \/ /\ NumbersOf(t, sent) = 1 .. pulled[t]
                    /\ feeder'[t] \notin {"check", "loop", "put"}
                 \/ /\ NumbersOf(t, sent) = 1 .. pulled[t] - 1
                    /\ \/ feeder'[t] \in {"check", "loop", "put"}
                       \/ stopEvent /\ feeder'[t] \in {"finally", "last", "exited"}
      <3>1. \/ /\ NumbersOf(t, sent) = 1 .. pulled[t]
               /\ feeder[t] \notin {"check", "loop", "put"}
            \/ /\ NumbersOf(t, sent) = 1 .. pulled[t] - 1
               /\ \/ feeder[t] \in {"check", "loop", "put"}
                  \/ stopEvent /\ feeder[t] \in {"finally", "last", "exited"}
        BY DEF PutInv
      <3>2. CASE t = s
        BY <2>2, <3>1, <3>2
      <3>3. CASE t # s
        BY <2>1, <3>1, <3>3
      <3> QED BY <3>2, <3>3
    <2> QED BY <2>1, <2>3 DEF PutInv
  <1>4. CASE Iterate \/ OwnerCloses \/ OwnerStops \/ OwnerReturns \/ StopEarly \/ Finished
             \/ UNCHANGED vars
    <2>1. UNCHANGED feederVars /\ (stopEvent => stopEvent')
      BY <1>4, OwnerSteps DEF Iterate, OwnerCloses, OwnerStops, OwnerReturns, StopEarly, Finished, vars
    <2> QED BY <2>1 DEF PutInv
  <1> QED BY <1>1, <1>2, <1>3, <1>4 DEF Next, FeederStep

(* Every step keeps the tallies and the errors.                            *)
LEMMA NextKeepsTally == Inv /\ TallyInv /\ [Next]_vars => TallyInv'
PROOF
  <1> SUFFICES ASSUME Inv, TallyInv, [Next]_vars PROVE TallyInv'
    OBVIOUS
  <1>0. /\ feeder \in [Source -> FeederState] /\ pulled \in [Source -> 0 .. MaxItems]
        /\ outcome \in [Source -> {"open", "ended", "raised"}] /\ chunkCounts \in [Source -> Nat]
    BY DEF Inv, TypeOK
  <1> USE DEF Goto, bufferVars, iterVars, feederVars
  <1>1. ASSUME NEW s \in Source,
               \/ SourceYields(s) \/ SourceEnds(s) \/ SourceRaises(s) \/ FeederStep(s)
        PROVE  TallyInv'
    <2>1. /\ stopEvent' = stopEvent /\ errors \subseteq errors'
          /\ \A t \in Source : t # s =>
               /\ feeder'[t] = feeder[t] /\ pulled'[t] = pulled[t]
               /\ outcome'[t] = outcome[t] /\ chunkCounts'[t] = chunkCounts[t]
      BY <1>0, <1>1 DEF SourceYields, SourceEnds, SourceRaises, FeederStep, CheckStop, TryPut,
           PutItem, PutTimesOut, PutCounted, RecheckStop, Tally, RecordError, Leave, LastFeederSignals
    <2> SUFFICES /\ feeder'[s] \in {"check", "loop", "put", "counted", "recheck", "tally"} =>
                      chunkCounts'[s] = pulled'[s] - 1
                 /\ feeder'[s] \in {"pull", "except"} => chunkCounts'[s] = pulled'[s]
                 /\ feeder'[s] \in {"finally", "last", "exited"} /\ ~stopEvent =>
                      chunkCounts'[s] = pulled'[s] /\ outcome'[s] # "open"
                 /\ feeder'[s] = "except" => outcome'[s] = "raised"
                 /\ outcome'[s] = "raised" => feeder'[s] = "except" \/ s \in errors'
      BY <2>1 DEF TallyInv
    <2>2. /\ feeder[s] \in {"check", "loop", "put", "counted", "recheck", "tally"} =>
               chunkCounts[s] = pulled[s] - 1
          /\ feeder[s] \in {"pull", "except"} => chunkCounts[s] = pulled[s]
          /\ feeder[s] \in {"finally", "last", "exited"} /\ ~stopEvent =>
               chunkCounts[s] = pulled[s] /\ outcome[s] # "open"
          /\ feeder[s] = "except" => outcome[s] = "raised"
          /\ outcome[s] = "raised" => feeder[s] = "except" \/ s \in errors
      BY DEF TallyInv
    <2>3. pulled[s] \in Int /\ chunkCounts[s] \in Int
      BY <1>0, MaxItemsAssumption
    <2>4. CASE SourceYields(s)
      BY <1>0, <2>1, <2>2, <2>3, <2>4 DEF SourceYields
    <2>5. CASE SourceEnds(s) \/ SourceRaises(s)
      BY <1>0, <2>1, <2>2, <2>5 DEF SourceEnds, SourceRaises
    <2>6. CASE CheckStop(s) \/ TryPut(s) \/ RecheckStop(s)
      BY <1>0, <2>1, <2>2, <2>6 DEF CheckStop, TryPut, RecheckStop
    <2>7. CASE PutItem(s) \/ PutTimesOut(s) \/ PutCounted(s)
      BY <1>0, <2>1, <2>2, <2>7 DEF PutItem, PutTimesOut, PutCounted
    <2>8. CASE Tally(s)
      BY <1>0, <2>1, <2>2, <2>3, <2>8 DEF Tally
    <2>9. CASE RecordError(s)
      BY <1>0, <2>1, <2>2, <2>9 DEF RecordError
    <2>10. CASE Leave(s) \/ LastFeederSignals(s)
      BY <1>0, <2>1, <2>2, <2>10 DEF Leave, LastFeederSignals
    <2> QED
      BY <1>1, <2>4, <2>5, <2>6, <2>7, <2>8, <2>9, <2>10 DEF FeederStep
  <1>2. CASE Iterate \/ OwnerCloses \/ OwnerStops \/ OwnerReturns \/ StopEarly \/ Finished
             \/ UNCHANGED vars
    <2>1. UNCHANGED feederVars /\ (stopEvent => stopEvent')
      BY <1>2, OwnerSteps DEF Iterate, OwnerCloses, OwnerStops, OwnerReturns, StopEarly, Finished, vars
    <2> QED BY <2>1 DEF TallyInv
  <1> QED BY <1>1, <1>2 DEF Next

(* Every step keeps what the owner has seen: an error that a feeder records*)
(* after the end of the stream would come too late, and there is none.     *)
LEMMA NextKeepsOwner == Inv /\ OwnerInv /\ [Next]_vars => OwnerInv'
PROOF
  <1> SUFFICES ASSUME Inv, OwnerInv, [Next]_vars PROVE OwnerInv'
    OBVIOUS
  <1> USE DEF bufferVars, iterVars, feederVars
  <1>0. 0 \in QueueId
    BY OneQueue
  <1>1. ASSUME NEW s \in Source, RecordError(s) PROVE OwnerInv'
    <2>1. ~done
      BY <1>1 DEF RecordError, Inv, DoneIffAllExited
    <2>2. iter[0] # "ended"
      BY <1>0, <2>1 DEF Inv, EndSeen
    <2> QED BY <1>1, <2>2 DEF OwnerInv, RecordError
  <1>2. ASSUME NEW s \in Source,
               \/ SourceYields(s) \/ SourceEnds(s) \/ SourceRaises(s) \/ CheckStop(s) \/ TryPut(s)
               \/ PutItem(s) \/ PutTimesOut(s) \/ PutCounted(s) \/ RecheckStop(s) \/ Tally(s)
               \/ Leave(s) \/ LastFeederSignals(s)
        PROVE  OwnerInv'
    BY <1>2 DEF OwnerInv, SourceYields, SourceEnds, SourceRaises, CheckStop, TryPut, PutItem,
         PutTimesOut, PutCounted, RecheckStop, Tally, Leave, LastFeederSignals
  <1>3. CASE Iterate \/ OwnerCloses
    <2>1. owner = "iterating" /\ owner' = owner
      BY <1>3 DEF Iterate, OwnerCloses
    <2> QED BY <2>1 DEF OwnerInv
  <1>4. CASE OwnerStops
    BY <1>4 DEF OwnerInv, OwnerStops
  <1>5. CASE OwnerReturns
    BY <1>5 DEF OwnerInv, OwnerReturns
  <1>6. CASE StopEarly \/ Finished \/ UNCHANGED vars
    BY <1>6 DEF OwnerInv, StopEarly, Finished, vars
  <1> QED BY <1>1, <1>2, <1>3, <1>4, <1>5, <1>6 DEF Next, FeederStep

(* The course of the feeders holds in every state.                         *)
THEOREM Course == Safety => []CourseInv
PROOF
  <1>1. Init => CourseInv
    <2> SUFFICES ASSUME Init PROVE CourseInv
      OBVIOUS
    <2> USE DEF Init
    <2>1. Len(sent) = 0
      BY EmptySeq
    <2>2. \A s \in Source : NumbersOf(s, sent) = 1 .. pulled[s] /\ InOrder(s, sent)
      BY <2>1 DEF NumbersOf, InOrder
    <2>3. PutInv
      BY <2>2 DEF PutInv
    <2> QED BY <2>3 DEF CourseInv, TallyInv, OwnerInv
  <1>2. Inv /\ CourseInv /\ [Next]_vars => CourseInv'
    BY NextKeepsPut, NextKeepsTally, NextKeepsOwner DEF CourseInv
  <1> QED BY Invariance, <1>1, <1>2, PTL DEF Safety

(* The merge neither loses, repeats nor reorders an item of a source, with *)
(* any number of feeders, a full queue and a stop at any moment.           *)
THEOREM SourcesStayInOrder == Spec => []PerSourceOrder
PROOF
  <1>1. CourseInv => PerSourceOrder
    BY DEF CourseInv, PutInv, PerSourceOrder
  <1> QED BY Course, <1>1, PTL DEF Spec

(* A merge that ends without a stop has passed on every item of every      *)
(* source, and the owner that returns normally has missed no error: both   *)
(* rest on done coming after the exit of every feeder.                     *)
THEOREM ReturnedIsComplete == Spec => []ReturnedMeansComplete
PROOF
  <1>1. Inv /\ EndedMeansDrained /\ CourseInv => ReturnedMeansComplete
    <2> SUFFICES ASSUME Inv, EndedMeansDrained, CourseInv PROVE ReturnedMeansComplete
      OBVIOUS
    <2>1. iter[0] = "ended" => \A s \in Source : feeder[s] = "exited"
      BY OneQueue DEF Inv, EndSeen, DoneIffAllExited
    <2>2. ASSUME iter[0] = "ended", ~stopEvent, NEW s \in Source
          PROVE  /\ outcome[s] # "open"
                 /\ chunkCounts[s] = pulled[s]
                 /\ InOrder(s, got[0])
                 /\ NumbersOf(s, got[0]) = 1 .. pulled[s]
      <3>1. got[0] = sent /\ feeder[s] = "exited"
        BY <2>1, <2>2 DEF EndedMeansDrained
      <3>2. outcome[s] # "open" /\ chunkCounts[s] = pulled[s]
        BY <2>2, <3>1 DEF CourseInv, TallyInv
      <3>3. InOrder(s, sent) /\ NumbersOf(s, sent) = 1 .. pulled[s]
        BY <2>2, <3>1 DEF CourseInv, PutInv
      <3> QED BY <3>1, <3>2, <3>3
    <2>3. owner = "returned" => \A s \in Source : outcome[s] # "raised"
      BY <2>1 DEF CourseInv, TallyInv, OwnerInv
    <2> QED BY <2>2, <2>3 DEF ReturnedMeansComplete
  <1> QED BY Invariance, EndedIsDrained, Course, <1>1, PTL DEF Spec

-----------------------------------------------------------------------------
(* Every step is a step of the stream or changes nothing of it: PutItem    *)
(* sends, GetItem delivers, LastFeederSignals closes and a ReadEmpty that  *)
(* finds the queue empty ends.                                             *)
LEMMA StepRefinement ==
  Inv /\ EndedMeansDrained' /\ [Next]_vars => [AbstractStream!Next]_(AbstractStream!vars)
PROOF
  <1> SUFFICES ASSUME Inv, EndedMeansDrained', [Next]_vars
               PROVE  AbstractStream!Next \/ UNCHANGED <<sent, done, got, Ended>>
    BY DEF AbstractStream!vars, Ended
  <1>0. 0 \in QueueId /\ \A q \in QueueId : q = 0
    BY OneQueue
  <1>1. CASE UNCHANGED <<sent, done, got, iter>>
    BY <1>1 DEF Ended
  <1>2. ASSUME NEW s \in Source, PutItem(s)
        PROVE  AbstractStream!Next
    <2>1. Carried(s) \in Item
      BY <1>2, CarriedType DEF Inv, CarryInv, PutItem
    <2>2. ~done
      BY <1>2 DEF Inv, DoneIffAllExited, PutItem
    <2>3. AbstractStream!Send(Carried(s))
      BY <1>2, <2>2 DEF PutItem, iterVars, AbstractStream!Send
    <2> QED BY <2>1, <2>3 DEF AbstractStream!Next
  <1>3. ASSUME NEW s \in Source, LastFeederSignals(s)
        PROVE  AbstractStream!Next
    <2>1. AbstractStream!Close
      BY <1>3 DEF LastFeederSignals, SignalDone, iterVars, AbstractStream!Close
    <2> QED BY <2>1 DEF AbstractStream!Next
  <1>4. CASE Iterate
    <2>1. BufferTypeOK /\ sent \in Seq(Item) /\ IterStep(0) /\ sent' = sent
      BY <1>4 DEF Inv, TypeOK, Iterate, feederVars
    <2>2. /\ Len(Through(0)) <= Len(sent)
          /\ \A i \in 1 .. Len(Through(0)) : sent[i] = Through(0)[i]
      BY <2>1, LenProperties DEF Inv, MergeInv
    <2>3. /\ done' = done
          /\ \/ got' = got /\ Ended' = Ended
             \/ /\ 0 \notin Ended
                /\ Len(got[0]) < Len(sent)
                /\ got' = [got EXCEPT ![0] = Append(got[0], sent[Len(got[0]) + 1])]
                /\ Ended' = Ended
             \/ /\ iter'[0] = "ended"
                /\ got' = got
                /\ Ended' = Ended \cup {0}
      BY <1>0, <2>1, <2>2, IterStepDelivers
    <2>4. CASE got' = got /\ Ended' = Ended
      BY <2>1, <2>3, <2>4
    <2>5. CASE /\ 0 \notin Ended
               /\ Len(got[0]) < Len(sent)
               /\ got' = [got EXCEPT ![0] = Append(got[0], sent[Len(got[0]) + 1])]
               /\ Ended' = Ended
      <3>1. AbstractStream!Deliver(0)
        BY <2>1, <2>3, <2>5 DEF AbstractStream!Deliver, Ended
      <3> QED BY <1>0, <3>1 DEF AbstractStream!Next
    <2>6. CASE /\ iter'[0] = "ended"
               /\ got' = got
               /\ Ended' = Ended \cup {0}
      <3>1. got'[0] = sent'
        BY <2>6 DEF EndedMeansDrained
      <3>2. done
        <4>1. EndSeen'
          BY <1>0, <2>1, IterStepKeepsEndSeen DEF Inv
        <4> QED BY <1>0, <2>3, <2>6, <4>1 DEF EndSeen
      <3>3. AbstractStream!End(0)
        BY <2>1, <2>3, <2>6, <3>1, <3>2 DEF AbstractStream!End, Ended
      <3> QED BY <1>0, <3>3 DEF AbstractStream!Next
    <2> QED BY <2>3, <2>4, <2>5, <2>6
  <1>5. CASE OwnerCloses
    <2>1. Ended' = Ended
      BY <1>0, <1>5, AbandonIsNotEnd DEF OwnerCloses, Inv, TypeOK
    <2> QED BY <1>5, <2>1 DEF OwnerCloses, Abandon, feederVars
  <1>6. ASSUME NEW s \in Source, Moves(s) \/ Leave(s)
        PROVE  UNCHANGED <<sent, done, got, iter>>
    BY <1>6 DEF Moves, Leave, bufferVars
  <1>7. CASE OwnerStops \/ OwnerReturns \/ StopEarly \/ Finished \/ UNCHANGED vars
    BY <1>1, <1>7 DEF OwnerStops, OwnerReturns, StopEarly, Finished, vars, bufferVars, feederVars
  <1> QED
    BY <1>1, <1>2, <1>3, <1>4, <1>5, <1>6, <1>7, MovesSteps DEF Next, FeederStep

(* The feeders, the shared buffer and its iterator implement a stream that *)
(* is written once and read in full, in order.                             *)
THEOREM Implementation == Spec => ImplementsStream
PROOF
  <1>1. Init => AbstractStream!Init
    BY DEF Init, BufferInit, AbstractStream!Init
  <1> QED
    BY Invariance, EndedIsDrained, StepRefinement, <1>1, PTL
       DEF Spec, Safety, ImplementsStream, AbstractStream!Spec

=============================================================================
