----------------------------- MODULE EdgeToCloud -----------------------------
(* The edge publisher, the link and the cloud receiver together: what happens  *)
(* to an event between enqueue() and its row in the cloud.                     *)
EXTENDS EdgePublisher, CloudReceiver

vars == <<edgeVars, linkVars, cloudVars>>

Init == EdgeInit /\ LinkInit /\ CloudInit

Next == \/ EdgeNext /\ UNCHANGED cloudVars
        \/ LinkNext /\ UNCHANGED <<edgeVars, cloudVars>>
        \/ CloudNext /\ UNCHANGED edgeVars

Spec == Init /\ [][Next]_vars

(* The timers of the event loop fire and a crashed process is started again.   *)
(* Of the network and the cloud: an edge that goes on sending is answered, and *)
(* reads the answer, sooner or later.                                          *)
CloudAnswers == \E r \in wire : r.waiting /\ (IngestEvents(r) \/ RejectBatch(r))

Fairness == /\ WF_vars((ReadAndPost \/ ReadMalformed) /\ UNCHANGED cloudVars)
            /\ WF_vars(TransportError /\ UNCHANGED cloudVars)
            /\ WF_vars(Rewrite /\ UNCHANGED cloudVars)
            /\ WF_vars(Resume /\ UNCHANGED cloudVars)
            /\ WF_vars(Restart /\ UNCHANGED cloudVars)
            /\ SF_vars(CloudAnswers /\ UNCHANGED edgeVars)
            /\ SF_vars((ConfirmBatch \/ DropBatch) /\ UNCHANGED cloudVars)

LiveSpec == Spec /\ Fairness
-----------------------------------------------------------------------------
(* The variables hold what the code can put in them.                           *)
TypeOK == LinkTypeOK /\ EdgeTypeOK /\ CloudTypeOK

(* Durability as far as the code has it: an event given to enqueue() is on     *)
(* disk, or its batch was taken as delivered, or its batch was refused, or one *)
(* of the steps that endanger events has touched it: an append during a POST,  *)
(* an append or a rewrite cut short.  Nothing else loses an event, whatever    *)
(* crashes, answers and retries come in between.                               *)
NothingElseIsLost ==
  Range(enqueued) \subseteq Pending \cup acked \cup refused \cup exposed

(* flush_once() takes a batch off the queue as delivered only when the cloud   *)
(* has stored all of it, unless it took a redirect for the receiver's answer.  *)
AckedIsStored == acked \subseteq Stored \cup misread

(* "a durable FIFO": of two events, the later is not stored before the         *)
(* earlier, unless the earlier was refused, misread or endangered.             *)
StoredInOrder ==
  \A i, j \in DOMAIN enqueued :
    LET early == enqueued[i]
        late == enqueued[j]
    IN /\ i < j
       /\ early \in Stored
       /\ late \in Stored
       /\ received[late] < received[early]
       => early \in refused \cup misread \cup exposed

(* The cloud stores only what the edge enqueued, and retries of a batch leave  *)
(* the rows of its first arrival alone: the path implements EventDelivery.     *)
Delivery == INSTANCE EventDelivery
              WITH accepted <- enqueued, delivered <- received, rounds <- commits

DeliverySpec == Delivery!Spec

(* An event that no step endangers is stored or refused in the end: the retry  *)
(* loop never stops trying and no batch blocks the ones behind it.             *)
EventuallySettled ==
  \A e \in Event :
    e \in Range(enqueued) ~> e \in Stored \cup refused \cup misread \cup exposed
-----------------------------------------------------------------------------
(* What edge_publisher.py's comments say and the code does not do.             *)

(* "Write-truncate is safe because we're holding the lock for the whole        *)
(* read-modify-write": without a crash and a torn write no event is lost.      *)
LossNeedsFault ==
  Range(enqueued) \subseteq Pending \cup acked \cup refused

(* "on 2xx, truncate the queue to the remainder": an event is taken off the    *)
(* queue as delivered only when it is stored.                                  *)
TruncatedOnlyWhenStored == acked \subseteq Stored
=============================================================================
