---------------------------- MODULE FeederStream ----------------------------
(***************************************************************************)
(* src/common/feeder_stream.py: one daemon thread per source drains an     *)
(* iterator into a shared single-queue buffer; the last thread to exit     *)
(* marks the buffer done.  The owner is the request generator that reads   *)
(* the merged stream, calls stop() when it leaves its loop and then        *)
(* re-raises the first feeder error (asd_request_generator and             *)
(* lipsync_request_generator in src/controller_service/stream_adapters.py).*)
(***************************************************************************)
EXTENDS Buffer, FiniteSets

CONSTANTS Source,        \* the feeder sources
          MaxItems,      \* bound on the items one source yields
          EarlyStop      \* whether stop() may be called while the owner iterates

ASSUME SourceAssumption == IsFiniteSet(Source)
ASSUME SingleQueueAssumption == NumQueues = 1
ASSUME MaxItemsAssumption == MaxItems \in Nat
ASSUME ItemAssumption == Item = Source \X (1 .. MaxItems)

VARIABLES feeder,        \* where each feeder thread is
          pulled,        \* how many items each source has yielded
          outcome,       \* how the source ended: "open", "ended" or "raised"
          activeCount,   \* _active_count
          chunkCounts,   \* _chunk_counts
          errors,        \* the keys of _errors
          stopEvent,     \* _stop_event
          sent,          \* history: the items put into the shared buffer
          owner          \* where the owner is

feederVars == <<feeder, pulled, outcome, activeCount, chunkCounts, errors, sent>>
vars == <<bufferVars, feederVars, stopEvent, owner>>

(* "pull"     blocked in the source's __next__ or transform                *)
(* "check"    an item arrived; the stop event is tested                    *)
(* "loop"     the guard of the put loop                                    *)
(* "put"      inside put(timeout)                                          *)
(* "counted"  the item is in the queue, _put_count is next                 *)
(* "recheck"  the stop event is tested again                               *)
(* "tally"    chunk_counts is next                                         *)
(* "except"   the source raised; the error is recorded                     *)
(* "finally"  _active_count is next                                        *)
(* "last"     this was the last feeder; done is next                       *)
FeederState == {"pull", "check", "loop", "put", "counted", "recheck", "tally",
                "except", "finally", "last", "exited"}

OwnerState == {"iterating", "stopping", "closed", "raised", "returned"}

Init ==
  /\ BufferInit
  /\ done = (Source = {})
  /\ feeder = [s \in Source |-> "pull"]
  /\ pulled = [s \in Source |-> 0]
  /\ outcome = [s \in Source |-> "open"]
  /\ activeCount = Cardinality(Source)
  /\ chunkCounts = [s \in Source |-> 0]
  /\ errors = {}
  /\ stopEvent = FALSE
  /\ sent = <<>>
  /\ owner = "iterating"

Goto(s, state) == feeder' = [feeder EXCEPT ![s] = state]

(* The item feeder s is carrying.                                          *)
Carried(s) == <<s, pulled[s]>>

-----------------------------------------------------------------------------
(* The source's side of `for out_item in source.get()`.                    *)

SourceYields(s) ==
  /\ feeder[s] = "pull"
  /\ pulled[s] < MaxItems
  /\ pulled' = [pulled EXCEPT ![s] = @ + 1]
  /\ Goto(s, "check")
  /\ UNCHANGED <<bufferVars, outcome, activeCount, chunkCounts, errors, stopEvent, sent, owner>>

SourceEnds(s) ==
  /\ feeder[s] = "pull"
  /\ outcome' = [outcome EXCEPT ![s] = "ended"]
  /\ Goto(s, "finally")
  /\ UNCHANGED <<bufferVars, pulled, activeCount, chunkCounts, errors, stopEvent, sent, owner>>

SourceRaises(s) ==
  /\ feeder[s] = "pull"
  /\ outcome' = [outcome EXCEPT ![s] = "raised"]
  /\ Goto(s, "except")
  /\ UNCHANGED <<bufferVars, pulled, activeCount, chunkCounts, errors, stopEvent, sent, owner>>

-----------------------------------------------------------------------------
(* The body of the loop.                                                   *)

CheckStop(s) ==
  /\ feeder[s] = "check"
  /\ Goto(s, IF stopEvent THEN "finally" ELSE "loop")
  /\ UNCHANGED <<bufferVars, pulled, outcome, activeCount, chunkCounts, errors, stopEvent, sent, owner>>

(* `while not stop_event.is_set()`; when it is set the second test of the  *)
(* stop event leaves the outer loop too.                                   *)
TryPut(s) ==
  /\ feeder[s] = "loop"
  /\ Goto(s, IF stopEvent THEN "finally" ELSE "put")
  /\ UNCHANGED <<bufferVars, pulled, outcome, activeCount, chunkCounts, errors, stopEvent, sent, owner>>

PutItem(s) ==
  /\ feeder[s] = "put"
  /\ Enqueue(0, Carried(s))
  /\ sent' = Append(sent, Carried(s))
  /\ Goto(s, "counted")
  /\ UNCHANGED <<done, putCount, iterVars, pulled, outcome, activeCount, chunkCounts, errors, stopEvent, owner>>

(* Fault: put() without a timeout.                                         *)
PutBlocks(s) == FALSE

(* Fault: an item that meets a full queue is given up.                     *)
PutGivesUp(s) ==
  /\ feeder[s] = "put"
  /\ Full(0)
  /\ Goto(s, "pull")
  /\ UNCHANGED <<bufferVars, pulled, outcome, activeCount, chunkCounts, errors, stopEvent, sent, owner>>

(* queue.Full: the loop tries again unless a stop was requested.           *)
PutTimesOut(s) ==
  /\ feeder[s] = "put"
  /\ Full(0)
  /\ Goto(s, "loop")
  /\ UNCHANGED <<bufferVars, pulled, outcome, activeCount, chunkCounts, errors, stopEvent, sent, owner>>

PutCounted(s) ==
  /\ feeder[s] = "counted"
  /\ CountPut
  /\ Goto(s, "recheck")
  /\ UNCHANGED <<queues, done, iterVars, pulled, outcome, activeCount, chunkCounts, errors, stopEvent, sent, owner>>

RecheckStop(s) ==
  /\ feeder[s] = "recheck"
  /\ Goto(s, IF stopEvent THEN "finally" ELSE "tally")
  /\ UNCHANGED <<bufferVars, pulled, outcome, activeCount, chunkCounts, errors, stopEvent, sent, owner>>

Tally(s) ==
  /\ feeder[s] = "tally"
  /\ chunkCounts' = [chunkCounts EXCEPT ![s] = @ + 1]
  /\ Goto(s, "pull")
  /\ UNCHANGED <<bufferVars, pulled, outcome, activeCount, errors, stopEvent, sent, owner>>

-----------------------------------------------------------------------------
(* The way out: except, then finally.                                      *)

(* Fault: the error is logged but not kept.                                *)
LogErrorOnly(s) ==
  /\ feeder[s] = "except"
  /\ Goto(s, "finally")
  /\ UNCHANGED <<bufferVars, pulled, outcome, activeCount, chunkCounts, errors, stopEvent, sent, owner>>

RecordError(s) ==
  /\ feeder[s] = "except"
  /\ errors' = errors \cup {s}
  /\ Goto(s, "finally")
  /\ UNCHANGED <<bufferVars, pulled, outcome, activeCount, chunkCounts, stopEvent, sent, owner>>

(* Fault: the first feeder to leave takes itself for the last one.         *)
FirstLeaves(s) ==
  /\ feeder[s] = "finally"
  /\ activeCount' = activeCount - 1
  /\ Goto(s, "last")
  /\ UNCHANGED <<bufferVars, pulled, outcome, chunkCounts, errors, stopEvent, sent, owner>>

(* Fault: no feeder takes itself for the last one.                         *)
NobodyIsLast(s) ==
  /\ feeder[s] = "finally"
  /\ activeCount' = activeCount - 1
  /\ Goto(s, "exited")
  /\ UNCHANGED <<bufferVars, pulled, outcome, chunkCounts, errors, stopEvent, sent, owner>>

(* The active lock covers the decrement and the comparison.                *)
Leave(s) ==
  /\ feeder[s] = "finally"
  /\ activeCount' = activeCount - 1
  /\ Goto(s, IF activeCount' = 0 THEN "last" ELSE "exited")
  /\ UNCHANGED <<bufferVars, pulled, outcome, chunkCounts, errors, stopEvent, sent, owner>>

LastFeederSignals(s) ==
  /\ feeder[s] = "last"
  /\ SignalDone
  /\ Goto(s, "exited")
  /\ UNCHANGED <<queues, putCount, iterVars, pulled, outcome, activeCount, chunkCounts, errors, stopEvent, sent, owner>>

FeederStep(s) ==
  \/ CheckStop(s)
  \/ TryPut(s)
  \/ PutItem(s)
  \/ PutTimesOut(s)
  \/ PutCounted(s)
  \/ RecheckStop(s)
  \/ Tally(s)
  \/ RecordError(s)
  \/ Leave(s)
  \/ LastFeederSignals(s)

-----------------------------------------------------------------------------
(* The owner: `try: yield from stream finally: stream.stop()`, then        *)
(* raise_on_error() unless the generator was closed.                       *)

Iterate == owner = "iterating" /\ IterStep(0) /\ UNCHANGED <<feederVars, stopEvent, owner>>

(* The gRPC call that pulls from the generator ends: GeneratorExit.        *)
OwnerCloses == owner = "iterating" /\ Abandon(0) /\ UNCHANGED <<feederVars, stopEvent, owner>>

OwnerStops ==
  /\ owner = "iterating"
  /\ iter[0] \in {"ended", "abandoned"}
  /\ stopEvent' = TRUE
  /\ owner' = "stopping"
  /\ UNCHANGED <<bufferVars, feederVars>>

(* The joins of stop() have a timeout, so they do not wait for a feeder    *)
(* that is blocked in its source.                                          *)
OwnerReturns ==
  /\ owner = "stopping"
  /\ owner' = IF iter[0] = "abandoned" THEN "closed"
              ELSE IF errors # {} THEN "raised"
              ELSE "returned"
  /\ UNCHANGED <<bufferVars, feederVars, stopEvent>>

(* stop() is public; the tests call it while the stream is being read.     *)
StopEarly ==
  /\ EarlyStop
  /\ ~stopEvent
  /\ owner = "iterating"
  /\ stopEvent' = TRUE
  /\ UNCHANGED <<bufferVars, feederVars, owner>>

Finished ==
  /\ \A s \in Source : feeder[s] = "exited"
  /\ owner \in {"closed", "raised", "returned"}
  /\ UNCHANGED vars

Next ==
  \/ \E s \in Source : SourceYields(s) \/ SourceEnds(s) \/ SourceRaises(s) \/ FeederStep(s)
  \/ Iterate
  \/ OwnerCloses
  \/ OwnerStops
  \/ OwnerReturns
  \/ StopEarly
  \/ Finished

(* The operating system schedules the feeders and the owner; a source may  *)
(* block for ever.                                                         *)
Fairness ==
  /\ \A s \in Source : WF_vars(FeederStep(s))
  /\ WF_vars(Iterate)
  /\ WF_vars(OwnerStops)
  /\ WF_vars(OwnerReturns)

Safety == Init /\ [][Next]_vars
Spec == Safety /\ Fairness

-----------------------------------------------------------------------------
(* The values of the variables stay in their types.                        *)
TypeOK ==
  /\ BufferTypeOK
  /\ feeder \in [Source -> FeederState]
  /\ pulled \in [Source -> 0 .. MaxItems]
  /\ outcome \in [Source -> {"open", "ended", "raised"}]
  /\ activeCount \in 0 .. Cardinality(Source)
  /\ chunkCounts \in [Source -> Nat]
  /\ errors \subseteq Source
  /\ stopEvent \in BOOLEAN
  /\ sent \in Seq(Item)
  /\ owner \in OwnerState

(* The feeders that are still counted in _active_count.                    *)
Active == {s \in Source : feeder[s] \notin {"last", "exited"}}

(* The last feeder to leave, and only it, marks the buffer done: the flag  *)
(* is never up while a feeder may still put, and it is up once all left.   *)
DoneIffAllExited == done <=> (\A s \in Source : feeder[s] = "exited")

(* The merged iterator ends only after every item that was put by any      *)
(* feeder has been read.                                                   *)
EndedMeansDrained == iter[0] = "ended" => got[0] = sent

(* The numbers of the items of a source in a sequence of items, and whether*)
(* the source's items are in the order of their numbers.                   *)
NumbersOf(s, items) == {items[i][2] : i \in {i \in 1 .. Len(items) : items[i][1] = s}}
InOrder(s, items) ==
  \A i, j \in 1 .. Len(items) :
    i < j /\ items[i][1] = s /\ items[j][1] = s => items[i][2] < items[j][2]

(* Items of one source are never reordered, lost or duplicated by the      *)
(* merge: what was put is an initial part of what the source yielded.      *)
PerSourceOrder ==
  \A s \in Source :
    /\ InOrder(s, sent)
    /\ \/ NumbersOf(s, sent) = 1 .. pulled[s]
       \/ /\ NumbersOf(s, sent) = 1 .. pulled[s] - 1
          /\ stopEvent \/ feeder[s] \in {"check", "loop", "put"}

(* A merge that comes to its end without being stopped has passed on every *)
(* item of every source, also of one that failed in the end; and then a    *)
(* failed source surfaces as an exception: a generator returns normally    *)
(* only when no source failed.                                             *)
ReturnedMeansComplete ==
  /\ iter[0] = "ended" /\ ~stopEvent =>
       \A s \in Source :
         /\ outcome[s] # "open"
         /\ chunkCounts[s] = pulled[s]
         /\ InOrder(s, got[0])
         /\ NumbersOf(s, got[0]) = 1 .. pulled[s]
  /\ owner = "returned" => \A s \in Source : outcome[s] # "raised"

(* Once no source is open any more - it ended, raised, or its feeder left  *)
(* because of stop() - the reader comes to its end.                        *)
ReaderIsReleased ==
  (\A s \in Source : outcome[s] # "open" \/ feeder[s] = "exited")
  ~> owner \in {"closed", "raised", "returned"}

(* After a stop a feeder exits unless it is blocked in its source, even    *)
(* when nobody reads the full buffer any more.                             *)
StopReleasesFeeders ==
  \A s \in Source : stopEvent ~> feeder[s] \in {"pull", "exited"}

(* The merged output is a stream that is written once and read in full.    *)
AbstractStream ==
  INSTANCE Stream WITH Reader <- QueueId,
                       closed <- done,
                       received <- got,
                       ended <- {q \in QueueId : iter[q] = "ended"}

ImplementsStream == AbstractStream!Spec

=============================================================================
