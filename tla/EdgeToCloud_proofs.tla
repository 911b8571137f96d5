-------------------------- MODULE EdgeToCloud_proofs --------------------------
(* What TLAPS proves of the edge-to-cloud path for every set of events, batch  *)
(* size and number of crashes: types, the two durability invariants and the    *)
(* refinement of EventDelivery.                                                *)
EXTENDS EdgeToCloud, SequenceLemmas

(* The inductive strengthening.  A file without a final newline has a line.    *)
FileInv == unterminated => queue # <<>>

(* A request is waited for only by the flush that sent it, and an answer is    *)
(* there only for that flush; "ok" means its batch has been committed.         *)
LinkInv == /\ \A r \in wire : r.waiting => /\ phase = "posting"
                                           /\ reply = "none"
                                           /\ r.batch = batch
           /\ reply # "none" => phase = "posting"
           /\ reply = "ok" => batch \subseteq Stored

Kept == Range(remaining) \cap Event

(* What a flush will not write back is in its batch, or was overtaken.         *)
FlushInv == /\ phase \in {"posting", "rewriting"} =>
                 Pending \subseteq batch \cup Kept \cup exposed
            /\ phase = "rewriting" => batch \subseteq acked \cup refused

(* Only enqueued events are on disk, in a flush or on the wire.                *)
OriginInv == /\ Pending \cup batch \cup Kept \subseteq Range(enqueued)
             /\ \A r \in wire : r.batch \subseteq Range(enqueued)

IInv == /\ TypeOK
        /\ FileInv
        /\ LinkInv
        /\ FlushInv
        /\ OriginInv
        /\ NothingElseIsLost
        /\ AckedIsStored
-----------------------------------------------------------------------------
(* The elements of a list of lines after an append, as AppendLine does it.     *)
LEMMA AppendLineEffect ==
  ASSUME TypeOK, FileInv, NEW line \in Line
  PROVE  LET q == AppendLine(line)
         IN /\ q \in Seq(Line)
            /\ q # <<>>
            /\ Range(q) \subseteq Range(queue) \cup {line, Torn}
            /\ Pending \subseteq Range(q) \cup Mangled
            /\ ~unterminated => line \in Range(q)
<1>1. CASE unterminated
  <2>1. /\ queue \in Seq(Line)
        /\ queue # <<>>
        /\ Torn \in Line
    BY <1>1 DEF TypeOK, EdgeTypeOK, FileInv, Line
  <2> DEFINE q == [queue EXCEPT ![Len(queue)] = Torn]
  <2>2. /\ q \in Seq(Line)
        /\ q # <<>>
        /\ Range(q) \subseteq Range(queue) \cup {Torn}
        /\ Range(queue) \subseteq Range(q) \cup {queue[Len(queue)]}
    BY <2>1, RangeOfReplaceLast
  <2>3. q = AppendLine(line) /\ Mangled = {queue[Len(queue)]} \cap Event
    BY <1>1 DEF AppendLine, Mangled
  <2> HIDE DEF q
  <2> QED
    BY <1>1, <2>2, <2>3 DEF Pending
<1>2. CASE ~unterminated
  <2>1. queue \in Seq(Line)
    BY DEF TypeOK, EdgeTypeOK
  <2>2. /\ Append(queue, line) \in Seq(Line)
        /\ Range(Append(queue, line)) = Range(queue) \cup {line}
    BY <2>1, RangeOfAppend
  <2>3. Len(Append(queue, line)) = Len(queue) + 1 /\ Len(queue) \in Nat
    BY <2>1
  <2> QED
    BY <1>2, <2>2, <2>3 DEF AppendLine, Pending
<1> QED
  BY <1>1, <1>2

(* What flush_once() takes and what it leaves make up the file.                *)
LEMMA CutEffect ==
  ASSUME TypeOK
  PROVE  LET rest == SubSeq(queue, BatchLen + 1, Len(queue))
         IN /\ rest \in Seq(Line)
            /\ ParsedBatch \subseteq Event
            /\ Pending = ParsedBatch \cup (Range(rest) \cap Event)
<1>1. queue \in Seq(Line) /\ BatchSize \in Nat
  BY EdgeAssumption DEF TypeOK, EdgeTypeOK
<1>2. BatchLen \in 0 .. Len(queue)
  BY <1>1 DEF BatchLen
<1>3. /\ SubSeq(queue, BatchLen + 1, Len(queue)) \in Seq(Line)
      /\ Range(queue) = Range(SubSeq(queue, 1, BatchLen))
                          \cup Range(SubSeq(queue, BatchLen + 1, Len(queue)))
  BY <1>1, <1>2, RangeOfSplit
<1> QED
  BY <1>3 DEF ParsedBatch, Pending
-----------------------------------------------------------------------------
(* An append keeps the invariant.                                              *)
LEMMA EnqueueStep ==
  ASSUME IInv, NEW e \in Event, Enqueue(e) \/ EnqueueTorn(e), UNCHANGED cloudVars
  PROVE  IInv'
<1> USE DEF IInv
<1>1. PICK line \in {e, Torn} :
        /\ queue' = AppendLine(line)
        /\ unterminated \/ unterminated' \/ line = e
        /\ Mangled \subseteq exposed'
        /\ exposed \subseteq exposed'
        /\ exposed' \subseteq Event
        /\ (~unterminated /\ ~unterminated') \/ e \in exposed'
        /\ phase = "posting" => e \in exposed'
  BY DEF Enqueue, EnqueueTorn, Overtaken, TypeOK, EdgeTypeOK, Mangled
<1>2. /\ LoopRuns
      /\ enqueued' = Append(enqueued, e)
      /\ unterminated' \in BOOLEAN
      /\ UNCHANGED <<flushVars, crashes, acked, misread, refused, linkVars, cloudVars>>
  BY DEF Enqueue, EnqueueTorn
<1>3. /\ queue' \in Seq(Line)
      /\ queue' # <<>>
      /\ Range(queue') \subseteq Range(queue) \cup {e, Torn}
      /\ Pending \subseteq Range(queue') \cup Mangled
      /\ ~unterminated => line \in Range(queue')
  BY <1>1, AppendLineEffect DEF Line
<1>4. /\ enqueued' \in Seq(Event)
      /\ Range(enqueued') = Range(enqueued) \cup {e}
  BY <1>2, RangeOfAppend DEF TypeOK, EdgeTypeOK
<1>5. TypeOK'
  BY <1>1, <1>2, <1>3, <1>4
     DEF TypeOK, LinkTypeOK, EdgeTypeOK, CloudTypeOK, flushVars, linkVars, cloudVars
<1>6. FileInv'
  BY <1>3 DEF FileInv
<1>7. LinkInv'
  BY <1>2 DEF LinkInv, Stored, flushVars, linkVars, cloudVars
<1>8. Pending' \subseteq Pending \cup {e}
  BY <1>3, EdgeAssumption DEF Pending
<1>9. FlushInv'
  BY <1>1, <1>2, <1>8 DEF FlushInv, Kept, LoopRuns, flushVars
<1>10. OriginInv'
  BY <1>2, <1>4, <1>8 DEF OriginInv, Kept, flushVars, linkVars
<1>11. Pending \cup {e} \subseteq Pending' \cup exposed'
  BY <1>1, <1>3 DEF Pending
<1>12. NothingElseIsLost'
  BY <1>1, <1>2, <1>4, <1>11 DEF NothingElseIsLost
<1>13. AckedIsStored'
  BY <1>2 DEF AckedIsStored, Stored, cloudVars
<1> QED
  BY <1>5, <1>6, <1>7, <1>9, <1>10, <1>12, <1>13

(* Reading the head of the queue keeps the invariant.                          *)
LEMMA ReadStep ==
  ASSUME IInv, ReadAndPost \/ ReadMalformed, UNCHANGED cloudVars
  PROVE  IInv'
<1> USE DEF IInv
<1> DEFINE rest == SubSeq(queue, BatchLen + 1, Len(queue))
<1>1. /\ rest \in Seq(Line)
      /\ ParsedBatch \subseteq Event
      /\ Pending = ParsedBatch \cup (Range(rest) \cap Event)
  BY CutEffect
<1>2. /\ phase = "sleeping"
      /\ batch' = ParsedBatch
      /\ remaining' = rest
      /\ UNCHANGED <<fileVars, delay, crashes, historyVars, reply, cloudVars>>
  BY DEF ReadAndPost, ReadMalformed, Post, linkVars
<1>3. \/ /\ phase' = "posting"
         /\ wire' = wire \cup {[batch |-> ParsedBatch, waiting |-> TRUE]}
      \/ /\ phase' = "rewriting"
         /\ ParsedBatch = {}
         /\ wire' = wire
  BY DEF ReadAndPost, ReadMalformed, Post, linkVars
<1> HIDE DEF rest
<1>4. reply = "none" /\ \A r \in wire : ~r.waiting
  BY <1>2 DEF LinkInv
<1>5. TypeOK'
  <2>1. [batch |-> ParsedBatch, waiting |-> TRUE] \in Request
    BY <1>1 DEF Request
  <2>2. LinkTypeOK'
    BY <2>1, <1>2, <1>3 DEF TypeOK, LinkTypeOK
  <2>3. EdgeTypeOK'
    BY <1>1, <1>2, <1>3 DEF TypeOK, EdgeTypeOK, fileVars, historyVars
  <2>4. CloudTypeOK'
    BY <1>2 DEF TypeOK, CloudTypeOK, cloudVars
  <2> QED
    BY <2>2, <2>3, <2>4 DEF TypeOK
<1>6. FileInv'
  BY <1>2 DEF FileInv, fileVars
<1>7. LinkInv'
  BY <1>2, <1>3, <1>4 DEF LinkInv
<1>8. Pending' = Pending /\ Kept' = Range(rest) \cap Event
  BY <1>2 DEF Pending, Kept, fileVars
<1>9. FlushInv'
  BY <1>1, <1>2, <1>3, <1>8 DEF FlushInv
<1>10. OriginInv'
  BY <1>1, <1>2, <1>3, <1>8 DEF OriginInv, historyVars
<1>11. NothingElseIsLost' /\ AckedIsStored'
  BY <1>2, <1>8 DEF NothingElseIsLost, AckedIsStored, Stored, historyVars, cloudVars
<1> QED
  BY <1>5, <1>6, <1>7, <1>9, <1>10, <1>11

(* After the edge hung up nothing on the wire is waited for.                   *)
LEMMA HangUpEffect ==
  ASSUME LinkTypeOK, HangUp
  PROVE  /\ LinkTypeOK'
         /\ \A r \in wire' : ~r.waiting
         /\ \A r \in wire' : \E q \in wire : r.batch = q.batch
<1>1. ASSUME NEW q \in wire
      PROVE  LET r == [q EXCEPT !.waiting = FALSE]
             IN r \in Request /\ ~r.waiting /\ r.batch = q.batch
  BY DEF LinkTypeOK, Request
<1> QED
  BY <1>1 DEF HangUp, LinkTypeOK, Answer

(* What KeepBatch, TransportError and Crash have in common: the flush ends     *)
(* and leaves the file alone.                                                  *)
LEMMA AbandonStep ==
  ASSUME IInv,
         phase' \in {"backoff", "down"},
         delay' \in 1 .. MaxDelay,
         crashes' \in 0 .. MaxCrashes,
         EndFlush,
         LinkTypeOK',
         reply' = "none",
         \A r \in wire' : ~r.waiting /\ \E q \in wire : r.batch = q.batch,
         UNCHANGED <<fileVars, historyVars, cloudVars>>
  PROVE  IInv'
<1> USE DEF IInv
<1>1. /\ remaining' = <<>>
      /\ batch' = {}
      /\ Kept' = {}
  BY DEF EndFlush, Kept, Range
<1>2. TypeOK'
  BY <1>1 DEF TypeOK, EdgeTypeOK, CloudTypeOK, fileVars, historyVars, cloudVars
<1>3. FileInv' /\ Pending' = Pending
  BY DEF FileInv, Pending, fileVars
<1>4. LinkInv'
  BY DEF LinkInv
<1>5. FlushInv'
  BY DEF FlushInv
<1>6. OriginInv'
  BY <1>1, <1>3 DEF OriginInv, historyVars
<1>7. NothingElseIsLost' /\ AckedIsStored'
  BY <1>3 DEF NothingElseIsLost, AckedIsStored, Stored, historyVars, cloudVars
<1> QED
  BY <1>2, <1>3, <1>4, <1>5, <1>6, <1>7

(* Doubling the delay keeps it within its bounds.                              *)
LEMMA NextDelayBounds ==
  ASSUME TypeOK
  PROVE  NextDelay \in 1 .. MaxDelay /\ 1 \in 1 .. MaxDelay
  BY EdgeAssumption DEF TypeOK, EdgeTypeOK, NextDelay

(* A 5xx, 408 or 429 answer keeps the invariant.                              *)
LEMMA KeepBatchStep ==
  ASSUME IInv, KeepBatch, UNCHANGED cloudVars
  PROVE  IInv'
<1>1. /\ phase' = "backoff"
      /\ delay' = NextDelay
      /\ EndFlush
      /\ reply' = "none"
      /\ reply = "retry"
      /\ wire' = wire
      /\ UNCHANGED <<fileVars, crashes, historyVars>>
  BY DEF KeepBatch, ReadReply
<1>2. LinkTypeOK' /\ crashes' \in 0 .. MaxCrashes
  BY <1>1 DEF IInv, TypeOK, LinkTypeOK, EdgeTypeOK, Answer
<1>3. \A r \in wire' : ~r.waiting
  BY <1>1 DEF IInv, LinkInv
<1> QED
  BY <1>1, <1>2, <1>3, AbandonStep, NextDelayBounds DEF IInv

(* A timeout or a transport error keeps the invariant.                         *)
LEMMA TransportErrorStep ==
  ASSUME IInv, TransportError, UNCHANGED cloudVars
  PROVE  IInv'
<1>1. /\ phase' = "backoff"
      /\ delay' = NextDelay
      /\ EndFlush
      /\ HangUp
      /\ reply' = "none"
      /\ UNCHANGED <<fileVars, crashes, historyVars>>
  BY DEF TransportError, HangUp
<1>2. crashes' \in 0 .. MaxCrashes
  BY <1>1 DEF IInv, TypeOK, EdgeTypeOK
<1> QED
  BY <1>1, <1>2, HangUpEffect, AbandonStep, NextDelayBounds DEF IInv, TypeOK

(* A crash keeps the invariant: the file is all that survives it.              *)
LEMMA CrashStep ==
  ASSUME IInv, Crash, UNCHANGED cloudVars
  PROVE  IInv'
<1>1. /\ phase' = "down"
      /\ delay' = 1
      /\ EndFlush
      /\ HangUp
      /\ reply' = "none"
      /\ UNCHANGED <<fileVars, historyVars>>
  BY DEF Crash, HangUp, EndFlush
<1>2. crashes' \in 0 .. MaxCrashes
  BY EdgeAssumption DEF Crash, IInv, TypeOK, EdgeTypeOK
<1> QED
  BY <1>1, <1>2, HangUpEffect, AbandonStep, NextDelayBounds DEF IInv, TypeOK

(* An answer that ends the batch keeps the invariant: what is about to be      *)
(* overwritten has been acknowledged or refused.                               *)
LEMMA SettleStep ==
  ASSUME IInv, ConfirmBatch \/ DropBatch, UNCHANGED cloudVars
  PROVE  IInv'
<1> USE DEF IInv
<1>1. /\ phase = "posting"
      /\ phase' = "rewriting"
      /\ reply # "none"
      /\ reply' = "none"
      /\ wire' = wire
      /\ UNCHANGED <<fileVars, batch, remaining, crashes, enqueued, exposed, cloudVars>>
  BY DEF ConfirmBatch, DropBatch, ReadReply
<1>2. \/ /\ reply \in {"ok", "redirect"}
         /\ delay' = 1
         /\ acked' = acked \cup batch
         /\ misread' = misread \cup (IF reply = "redirect" THEN batch ELSE {})
         /\ refused' = refused
      \/ /\ refused' = refused \cup batch
         /\ UNCHANGED <<delay, acked, misread>>
  BY DEF ConfirmBatch, DropBatch
<1>3. TypeOK'
  BY <1>1, <1>2, NextDelayBounds
     DEF TypeOK, LinkTypeOK, Answer, EdgeTypeOK, CloudTypeOK, fileVars, cloudVars
<1>4. FileInv' /\ Pending' = Pending /\ Kept' = Kept
  BY <1>1 DEF FileInv, Pending, Kept, fileVars
<1>5. LinkInv'
  BY <1>1 DEF LinkInv
<1>6. FlushInv'
  BY <1>1, <1>2, <1>4 DEF FlushInv
<1>7. OriginInv'
  BY <1>1, <1>4 DEF OriginInv
<1>8. NothingElseIsLost'
  BY <1>1, <1>2, <1>4 DEF NothingElseIsLost
<1>9. AckedIsStored'
  BY <1>1, <1>2 DEF AckedIsStored, LinkInv, Stored, cloudVars
<1> QED
  BY <1>3, <1>4, <1>5, <1>6, <1>7, <1>8, <1>9

(* A rewrite that ends, or is cut short, keeps the invariant.                  *)
LEMMA RewriteStep ==
  ASSUME IInv, Rewrite \/ RewriteTorn, UNCHANGED cloudVars
  PROVE  IInv'
<1> USE DEF IInv
<1>1. /\ phase = "rewriting"
      /\ phase' \in {"sleeping", "backoff"}
      /\ delay' \in {delay, NextDelay}
      /\ EndFlush
      /\ UNCHANGED <<crashes, enqueued, acked, misread, refused, linkVars, cloudVars>>
  BY DEF Rewrite, RewriteTorn, historyVars
<1>2. /\ queue' \in Seq(Line)
      /\ unterminated' \in BOOLEAN
      /\ exposed \subseteq exposed' /\ exposed' \subseteq Event
      /\ FileInv'
      /\ Pending' \subseteq Kept
      /\ Kept \subseteq Pending' \cup exposed'
  <2>0. /\ remaining \in Seq(Line)
        /\ Torn \in Line
        /\ exposed \subseteq Event
    BY DEF TypeOK, EdgeTypeOK, Line
  <2>1. CASE Rewrite
    BY <2>0, <2>1 DEF Rewrite, Pending, Kept, FileInv, historyVars
  <2>2. CASE RewriteTorn
    <3>1. PICK kept \in 0 .. Len(remaining), cut \in BOOLEAN :
            /\ queue' = SubSeq(remaining, 1, kept) \o (IF cut THEN <<Torn>> ELSE <<>>)
            /\ unterminated' = cut
            /\ exposed' = exposed \cup
                 (Range(SubSeq(remaining, kept + 1, Len(remaining))) \cap Event)
      BY <2>2 DEF RewriteTorn
    <3> DEFINE head == SubSeq(remaining, 1, kept)
               rest == SubSeq(remaining, kept + 1, Len(remaining))
               tail == IF cut THEN <<Torn>> ELSE <<>>
    <3>2. /\ head \in Seq(Line)
          /\ Range(remaining) = Range(head) \cup Range(rest)
      BY <2>0, RangeOfSplit
    <3>3. /\ tail \in Seq(Line)
          /\ Range(tail) \subseteq {Torn}
          /\ cut => Len(tail) = 1
      BY <2>0 DEF Range
    <3> HIDE DEF head, rest, tail
    <3>4. /\ queue' = head \o tail
          /\ exposed' = exposed \cup (Range(rest) \cap Event)
      BY <3>1 DEF head, rest, tail
    <3>5. /\ head \o tail \in Seq(Line)
          /\ Range(head \o tail) = Range(head) \cup Range(tail)
      BY <3>2, <3>3, RangeOfConcat
    <3>6. cut => head \o tail # <<>>
      <4>1. /\ Len(head \o tail) = Len(head) + Len(tail)
            /\ Len(head) \in Nat
            /\ Len(head \o tail) # 0 => head \o tail # <<>>
        BY <3>2, <3>3
      <4> QED
        BY <4>1, <3>3
    <3>7. Pending' = Range(head) \cap Event
      BY <3>3, <3>4, <3>5, EdgeAssumption DEF Pending
    <3>8. Kept = (Range(head) \cap Event) \cup (Range(rest) \cap Event)
      BY <3>2 DEF Kept
    <3> QED
      BY <2>0, <3>1, <3>4, <3>5, <3>6, <3>7, <3>8 DEF FileInv
  <2> QED
    BY <2>1, <2>2
<1>3. remaining' = <<>> /\ batch' = {} /\ Kept' = {}
  BY <1>1 DEF EndFlush, Kept, Range
<1>4. TypeOK'
  BY <1>1, <1>2, <1>3, NextDelayBounds
     DEF TypeOK, LinkTypeOK, EdgeTypeOK, CloudTypeOK, linkVars, cloudVars
<1>5. LinkInv'
  BY <1>1 DEF LinkInv, linkVars
<1>6. FlushInv'
  BY <1>1 DEF FlushInv
<1>7. OriginInv'
  BY <1>1, <1>2, <1>3 DEF OriginInv, linkVars
<1>8. NothingElseIsLost'
  BY <1>1, <1>2 DEF NothingElseIsLost, FlushInv
<1>9. AckedIsStored'
  BY <1>1 DEF AckedIsStored, Stored, cloudVars
<1> QED
  BY <1>2, <1>4, <1>5, <1>6, <1>7, <1>8, <1>9

(* The end of a back-off and a restart keep the invariant.                     *)
LEMMA WakeStep ==
  ASSUME IInv, Resume \/ Restart, UNCHANGED cloudVars
  PROVE  IInv'
<1> USE DEF IInv
<1>1. /\ phase \in {"backoff", "down"}
      /\ phase' = "sleeping"
      /\ UNCHANGED <<fileVars, batch, remaining, delay, crashes, historyVars, linkVars, cloudVars>>
  BY DEF Resume, Restart
<1>2. TypeOK'
  BY <1>1 DEF TypeOK, LinkTypeOK, EdgeTypeOK, CloudTypeOK, fileVars, historyVars,
              linkVars, cloudVars
<1>3. FileInv' /\ LinkInv' /\ FlushInv'
  BY <1>1 DEF FileInv, LinkInv, FlushInv, Stored, fileVars, linkVars, cloudVars
<1>4. Pending' = Pending /\ Kept' = Kept
  BY <1>1 DEF Pending, Kept, fileVars
<1>5. OriginInv' /\ NothingElseIsLost' /\ AckedIsStored'
  BY <1>1, <1>4 DEF OriginInv, NothingElseIsLost, AckedIsStored, Stored, historyVars,
                    linkVars, cloudVars
<1> QED
  BY <1>2, <1>3, <1>5
-----------------------------------------------------------------------------
(* Whatever becomes of a request, the invariant is kept as long as rows only   *)
(* appear and "ok" is said of a stored batch.                                  *)
LEMMA RequestGoneStep ==
  ASSUME IInv,
         NEW r \in wire,
         wire' = wire \ {r},
         reply' \in Answer,
         reply' = reply \/ r.waiting,
         reply' = "ok" => reply = "ok" \/ r.batch \subseteq Stored',
         CloudTypeOK',
         Stored \subseteq Stored',
         UNCHANGED edgeVars
  PROVE  IInv'
<1> USE DEF IInv
<1>1. UNCHANGED <<queue, unterminated, phase, batch, remaining, delay, crashes,
                  enqueued, acked, misread, refused, exposed>>
  BY DEF edgeVars, fileVars, flushVars, historyVars
<1>2. TypeOK'
  BY <1>1 DEF TypeOK, LinkTypeOK, EdgeTypeOK
<1>3. FileInv' /\ Pending' = Pending /\ Kept' = Kept
  BY <1>1 DEF FileInv, Pending, Kept
<1>4. LinkInv'
  <2>1. ASSUME NEW q \in wire', q.waiting
        PROVE  ~r.waiting
    <3>1. q \in Request /\ r \in Request /\ q \in wire /\ q # r
      BY <2>1 DEF TypeOK, LinkTypeOK
    <3>2. r.waiting => q.batch = r.batch /\ q.waiting = r.waiting
      BY <2>1, <3>1 DEF LinkInv, Request
    <3> QED
      BY <3>1, <3>2 DEF Request
  <2>2. ASSUME NEW q \in wire', q.waiting
        PROVE  phase' = "posting" /\ reply' = "none" /\ q.batch = batch'
    BY <2>1, <2>2, <1>1 DEF LinkInv
  <2>3. reply' # "none" => phase' = "posting"
    BY <1>1 DEF LinkInv
  <2>4. reply' = "ok" => batch' \subseteq Stored'
    BY <1>1 DEF LinkInv
  <2> QED
    BY <2>2, <2>3, <2>4 DEF LinkInv
<1>5. FlushInv' /\ OriginInv' /\ NothingElseIsLost'
  BY <1>1, <1>3 DEF FlushInv, OriginInv, NothingElseIsLost
<1>6. AckedIsStored'
  BY <1>1 DEF AckedIsStored
<1> QED
  BY <1>2, <1>3, <1>4, <1>5, <1>6

(* A lost request and an answer from an intermediary keep the invariant.       *)
LEMMA LinkStep ==
  ASSUME IInv, LinkNext, UNCHANGED <<edgeVars, cloudVars>>
  PROVE  IInv'
<1>1. PICK r \in wire : LoseRequest(r) \/ AnswerRetry(r) \/ AnswerRedirect(r)
  BY DEF LinkNext
<1>2. /\ wire' = wire \ {r}
      /\ reply' \in Answer
      /\ reply' = reply \/ r.waiting
      /\ reply' = "ok" => reply = "ok"
  BY <1>1 DEF LoseRequest, AnswerRetry, AnswerRedirect, AnswerWith, Answer,
              IInv, TypeOK, LinkTypeOK
<1>3. CloudTypeOK' /\ Stored' = Stored
  BY DEF IInv, TypeOK, CloudTypeOK, Stored, cloudVars
<1> QED
  BY <1>2, <1>3, RequestGoneStep

(* A commit stores the whole batch and takes no row away.                      *)
LEMMA InsertEffect ==
  ASSUME CloudTypeOK, LinkTypeOK, NEW r \in wire, IngestEvents(r)
  PROVE  /\ CloudTypeOK'
         /\ Stored \subseteq Stored'
         /\ r.batch \subseteq Stored'
<1>1. /\ received' = [e \in Event |-> IF e \in r.batch /\ received[e] = 0
                                        THEN commits + 1 ELSE received[e]]
      /\ commits' \in {commits, commits + 1}
      /\ skewed' = skewed
  BY DEF IngestEvents, InsertOrIgnore
<1>2. CloudTypeOK'
  BY <1>1 DEF CloudTypeOK
<1>3. r.batch \subseteq Event
  BY DEF LinkTypeOK, Request
<1> QED
  BY <1>1, <1>2, <1>3 DEF CloudTypeOK, Stored

(* Ingesting, rejecting and a clock step keep the invariant.                   *)
LEMMA CloudStep ==
  ASSUME IInv, CloudNext, UNCHANGED edgeVars
  PROVE  IInv'
<1>1. CASE ClockStep
  <2>1. TypeOK'
    BY <1>1 DEF ClockStep, IInv, TypeOK, LinkTypeOK, EdgeTypeOK, CloudTypeOK, linkVars,
                edgeVars, fileVars, flushVars, historyVars
  <2>2. UNCHANGED <<received, wire, reply>>
    BY <1>1 DEF ClockStep, linkVars
  <2> QED
    BY <2>1, <2>2
       DEF IInv, FileInv, LinkInv, FlushInv, OriginInv, NothingElseIsLost, AckedIsStored,
           Stored, Pending, Kept, edgeVars, fileVars, flushVars, historyVars
<1>2. ASSUME NEW r \in wire, IngestEvents(r)
      PROVE  IInv'
  <2>1. /\ CloudTypeOK'
        /\ Stored \subseteq Stored'
        /\ r.batch \subseteq Stored'
    BY <1>2, InsertEffect DEF IInv, TypeOK
  <2>2. /\ wire' = wire \ {r}
        /\ reply' \in Answer
        /\ reply' = reply \/ r.waiting
    BY <1>2 DEF IngestEvents, AnswerWith, Answer, IInv, TypeOK, LinkTypeOK
  <2> QED
    BY <2>1, <2>2, RequestGoneStep
<1>3. ASSUME NEW r \in wire, RejectBatch(r)
      PROVE  IInv'
  <2>1. /\ wire' = wire \ {r}
        /\ reply' \in Answer
        /\ reply' = reply \/ r.waiting
        /\ reply' = "ok" => reply = "ok"
    BY <1>3 DEF RejectBatch, AnswerWith, Answer, IInv, TypeOK, LinkTypeOK
  <2>2. CloudTypeOK' /\ Stored' = Stored
    BY <1>3 DEF RejectBatch, IInv, TypeOK, CloudTypeOK, Stored, cloudVars
  <2> QED
    BY <2>1, <2>2, RequestGoneStep
<1> QED
  BY <1>1, <1>2, <1>3 DEF CloudNext
-----------------------------------------------------------------------------
(* The invariant holds at the start.                                           *)
LEMMA InitIInv == Init => IInv
<1> SUFFICES ASSUME Init PROVE IInv
  OBVIOUS
<1>1. /\ wire = {}
      /\ reply = "none"
      /\ queue = <<>> /\ unterminated = FALSE /\ phase = "sleeping"
      /\ batch = {} /\ remaining = <<>> /\ delay = 1 /\ crashes = 0
      /\ enqueued = <<>> /\ acked = {} /\ misread = {} /\ refused = {} /\ exposed = {}
      /\ received = [e \in Event |-> 0] /\ commits = 0 /\ skewed \in BOOLEAN
  BY DEF Init, EdgeInit, LinkInit, CloudInit
<1>2. TypeOK
  <2>1. LinkTypeOK /\ CloudTypeOK
    BY <1>1 DEF LinkTypeOK, Answer, CloudTypeOK
  <2>2. EdgeTypeOK
    <3>1. delay \in 1 .. MaxDelay /\ crashes \in 0 .. MaxCrashes
      BY <1>1, EdgeAssumption
    <3>2. queue \in Seq(Line) /\ remaining \in Seq(Line) /\ enqueued \in Seq(Event)
      BY <1>1
    <3> QED
      BY <1>1, <3>1, <3>2 DEF EdgeTypeOK
  <2> QED
    BY <2>1, <2>2 DEF TypeOK
<1>3. Range(queue) = {} /\ Range(remaining) = {} /\ Range(enqueued) = {}
  BY <1>1 DEF Range
<1> QED
  BY <1>1, <1>2, <1>3
     DEF IInv, FileInv, LinkInv, FlushInv, OriginInv, NothingElseIsLost, AckedIsStored,
         Pending, Kept

(* Every step keeps the invariant.                                             *)
LEMMA NextIInv == IInv /\ [Next]_vars => IInv'
<1> SUFFICES ASSUME IInv, [Next]_vars PROVE IInv'
  OBVIOUS
<1>1. CASE EdgeNext /\ UNCHANGED cloudVars
  BY <1>1, EnqueueStep, ReadStep, KeepBatchStep, TransportErrorStep, SettleStep,
     RewriteStep, WakeStep, CrashStep DEF EdgeNext
<1>2. CASE LinkNext /\ UNCHANGED <<edgeVars, cloudVars>>
  BY <1>2, LinkStep
<1>3. CASE CloudNext /\ UNCHANGED edgeVars
  BY <1>3, CloudStep
<1>4. CASE UNCHANGED vars
  <2>1. TypeOK'
    BY <1>4 DEF IInv, TypeOK, LinkTypeOK, EdgeTypeOK, CloudTypeOK, vars, linkVars, cloudVars,
                edgeVars, fileVars, flushVars, historyVars
  <2> QED
    BY <1>4, <2>1
       DEF IInv, FileInv, LinkInv, FlushInv, OriginInv, NothingElseIsLost, AckedIsStored,
           Stored, Pending, Kept, vars, linkVars, cloudVars, edgeVars, fileVars,
           flushVars, historyVars
<1> QED
  BY <1>1, <1>2, <1>3, <1>4 DEF Next

(* The variables keep their types, for every set of events and every bound.    *)
THEOREM TypeCorrect == Spec => []TypeOK
<1>1. IInv => TypeOK
  BY DEF IInv
<1> QED
  BY <1>1, InitIInv, NextIInv, PTL DEF Spec

(* An enqueued event that has left the file was taken as delivered, was        *)
(* refused, or was touched by an append during a POST or by a torn write.      *)
THEOREM Durable == Spec => []NothingElseIsLost
<1>1. IInv => NothingElseIsLost
  BY DEF IInv
<1> QED
  BY <1>1, InitIInv, NextIInv, PTL DEF Spec

(* What flush_once() takes as delivered has been stored, redirects apart.      *)
THEOREM AckSound == Spec => []AckedIsStored
<1>1. IInv => AckedIsStored
  BY DEF IInv
<1> QED
  BY <1>1, InitIInv, NextIInv, PTL DEF Spec
-----------------------------------------------------------------------------
(* The events whose order is not kept.                                         *)
Waived == refused \cup misread \cup exposed

(* Storing B lets no event overtake an earlier one that is not waived.         *)
Closed(B) ==
  \A i, j \in DOMAIN enqueued :
    i < j /\ enqueued[j] \in B /\ enqueued[i] \notin Waived => enqueued[i] \in B \cup Stored

Sorted(lines) ==
  \A a, b \in DOMAIN lines : \A i, j \in DOMAIN enqueued :
    a < b /\ lines[a] = enqueued[i] /\ lines[b] = enqueued[j] => i < j

EnqueuedOnce == \A i, j \in DOMAIN enqueued : enqueued[i] = enqueued[j] => i = j

(* The files are in order, and so is what is on its way: a batch, the stored   *)
(* events, and the commits they were stored by.                                *)
OrderInv ==
  /\ EnqueuedOnce
  /\ Sorted(queue) /\ Sorted(remaining)
  /\ \A r \in wire : Closed(r.batch)
  /\ Closed(Stored)
  /\ Stored \subseteq Range(enqueued)
  /\ \A e \in Event : received[e] <= commits
  /\ StoredInOrder
-----------------------------------------------------------------------------
(* Part of a sorted list of lines, with another line at its end or without.    *)
LEMMA SortedPart ==
  ASSUME IInv, NEW lines \in Seq(Line), Sorted(lines), NEW m \in 0 .. Len(lines),
         NEW n \in 0 .. Len(lines)
  PROVE  Sorted(SubSeq(lines, m + 1, n))
<1> DEFINE part == SubSeq(lines, m + 1, n)
<1>1. \A a \in DOMAIN part : a \in Nat /\ m + a \in DOMAIN lines /\ part[a] = lines[m + a]
  OBVIOUS
<1> HIDE DEF part
<1>2. Sorted(part)
  BY <1>1 DEF Sorted
<1> QED
  BY <1>2 DEF part

(* A torn line belongs nowhere, so it may stand anywhere.                      *)
LEMMA SortedTorn ==
  ASSUME IInv, NEW lines \in Seq(Line), Sorted(lines)
  PROVE  /\ Sorted(Append(lines, Torn))
         /\ lines # <<>> => Sorted([lines EXCEPT ![Len(lines)] = Torn])
<1>1. \A i \in DOMAIN enqueued : enqueued[i] # Torn
  BY EdgeAssumption DEF IInv, TypeOK, EdgeTypeOK
<1>2. Sorted(Append(lines, Torn))
  <2> DEFINE t == Append(lines, Torn)
  <2>1. \A a \in DOMAIN t : t[a] = Torn \/ (a \in DOMAIN lines /\ t[a] = lines[a])
    OBVIOUS
  <2> HIDE DEF t
  <2>2. Sorted(t)
    BY <1>1, <2>1 DEF Sorted
  <2> QED
    BY <2>2 DEF t
<1>3. lines # <<>> => Sorted([lines EXCEPT ![Len(lines)] = Torn])
  <2> DEFINE t == [lines EXCEPT ![Len(lines)] = Torn]
  <2>1. \A a \in DOMAIN t : t[a] = Torn \/ (a \in DOMAIN lines /\ t[a] = lines[a])
    OBVIOUS
  <2> HIDE DEF t
  <2>2. Sorted(t)
    BY <1>1, <2>1 DEF Sorted
  <2> QED
    BY <2>2 DEF t
<1> QED
  BY <1>2, <1>3

(* A step that leaves the stored events alone and sends nothing of its own.    *)
LEMMA OrderKept ==
  ASSUME OrderInv, UNCHANGED <<enqueued, received>>, commits' = commits,
         refused \subseteq refused', misread \subseteq misread', exposed \subseteq exposed',
         \A r \in wire' : \E q \in wire : r.batch = q.batch,
         Sorted(queue)', Sorted(remaining)'
  PROVE  OrderInv'
<1>1. Waived \subseteq Waived'
  BY DEF Waived
<1>2. Stored' = Stored
  BY DEF Stored
<1>3. EnqueuedOnce' /\ Stored' \subseteq Range(enqueued') /\ (\A e \in Event : received'[e] <= commits')
  BY <1>2 DEF OrderInv, EnqueuedOnce
<1>4. Closed(Stored)'
  BY <1>1, <1>2 DEF OrderInv, Closed, Waived
<1>5. \A r \in wire' : Closed(r.batch)'
  BY <1>1, <1>2 DEF OrderInv, Closed, Waived
<1>6. StoredInOrder'
  BY <1>1, <1>2 DEF OrderInv, StoredInOrder, Waived
<1> QED
  BY <1>3, <1>4, <1>5, <1>6 DEF OrderInv

(* An append goes to the end of the file and of the history.                   *)
LEMMA EnqueueOrder ==
  ASSUME IInv, OrderInv, NEW e \in Event, Enqueue(e) \/ EnqueueTorn(e), UNCHANGED cloudVars
  PROVE  OrderInv'
<1>1. PICK line \in {e, Torn} : queue' = AppendLine(line)
  BY DEF Enqueue, EnqueueTorn
<1>2. /\ e \notin Range(enqueued)
      /\ enqueued' = Append(enqueued, e)
      /\ exposed \subseteq exposed'
      /\ UNCHANGED <<remaining, misread, refused, wire, received, commits>>
  BY DEF Enqueue, EnqueueTorn, flushVars, linkVars, cloudVars
<1>3. /\ enqueued \in Seq(Event) /\ queue \in Seq(Line) /\ remaining \in Seq(Line)
      /\ wire \subseteq Request /\ received \in [Event -> Nat] /\ Torn \notin Event
  BY EdgeAssumption DEF IInv, TypeOK, EdgeTypeOK, LinkTypeOK, CloudTypeOK
<1> DEFINE n == Len(enqueued) + 1
<1>4. /\ n \in Nat /\ DOMAIN enqueued = 1 .. n - 1 /\ DOMAIN enqueued' = 1 .. n
      /\ \A i \in DOMAIN enqueued : enqueued'[i] = enqueued[i] /\ i < n
      /\ enqueued'[n] = e
  BY <1>2, <1>3
<1> HIDE DEF n
<1>5. \A i \in DOMAIN enqueued' : i \in DOMAIN enqueued \/ i = n
  BY <1>4
<1>6. \A i \in DOMAIN enqueued : enqueued[i] # e
  BY <1>2 DEF Range
<1>7. Stored' = Stored /\ e \notin Stored /\ \A r \in wire : e \notin r.batch
  BY <1>2 DEF Stored, IInv, OriginInv, OrderInv
<1>8. Waived \subseteq Waived'
  BY <1>2 DEF Waived
<1>9. EnqueuedOnce'
  BY <1>4, <1>5, <1>6 DEF OrderInv, EnqueuedOnce
<1>10. ASSUME NEW B, Closed(B), e \notin B
       PROVE  \A i, j \in DOMAIN enqueued' :
                i < j /\ enqueued'[j] \in B /\ enqueued'[i] \notin Waived' => enqueued'[i] \in B \cup Stored'
  BY <1>4, <1>5, <1>7, <1>8, <1>10 DEF Closed
<1>11. Closed(Stored)' /\ \A r \in wire' : Closed(r.batch)'
  <2>1. Closed(Stored)'
    BY <1>7, <1>10 DEF OrderInv, Closed
  <2>2. ASSUME NEW r \in wire
        PROVE  Closed(r.batch)'
    BY <1>7, <1>10 DEF OrderInv, Closed
  <2> QED
    BY <1>2, <2>1, <2>2
<1>12. StoredInOrder'
  BY <1>2, <1>4, <1>5, <1>7, <1>8 DEF OrderInv, StoredInOrder, Waived
<1>13. ASSUME NEW lines \in Seq(Line), Sorted(lines), Range(lines) \cap Event \subseteq Range(enqueued)
       PROVE  \A a, b \in DOMAIN lines : \A i, j \in DOMAIN enqueued' :
                a < b /\ lines[a] = enqueued'[i] /\ lines[b] = enqueued'[j] => i < j
  <2>1. \A a \in DOMAIN lines : lines[a] # e
    BY <1>2, <1>13 DEF Range
  <2> QED
    BY <1>4, <1>5, <1>13, <2>1 DEF Sorted
<1>14. Sorted(remaining)'
  <2>1. \A a, b \in DOMAIN remaining : \A i, j \in DOMAIN enqueued' :
          a < b /\ remaining[a] = enqueued'[i] /\ remaining[b] = enqueued'[j] => i < j
    BY <1>3, <1>13 DEF OrderInv, IInv, OriginInv, Kept
  <2> QED
    BY <1>2, <2>1 DEF Sorted
<1>15. Sorted(queue)'
  <2>1. \A a, b \in DOMAIN queue : \A i, j \in DOMAIN enqueued' :
          a < b /\ queue[a] = enqueued'[i] /\ queue[b] = enqueued'[j] => i < j
    BY <1>3, <1>13 DEF OrderInv, IInv, OriginInv, Pending
  <2>2. \A i \in DOMAIN enqueued' : enqueued'[i] # Torn
    BY <1>3, <1>4, <1>5
  <2>3. CASE unterminated
    <3>1. queue' = [queue EXCEPT ![Len(queue)] = Torn]
      BY <1>1, <2>3 DEF AppendLine
    <3>2. \A a \in DOMAIN queue' : queue'[a] = Torn \/ (a \in DOMAIN queue /\ queue'[a] = queue[a])
      BY <1>3, <3>1
    <3> QED
      BY <2>1, <2>2, <3>2 DEF Sorted
  <2>4. CASE ~unterminated
    <3>1. queue' = Append(queue, line)
      BY <1>1, <2>4 DEF AppendLine
    <3>2. /\ Len(queue) + 1 \in Nat
          /\ \A a \in DOMAIN queue : a < Len(queue) + 1 /\ queue'[a] = queue[a]
          /\ queue'[Len(queue) + 1] \in {e, Torn}
          /\ \A a \in DOMAIN queue' : a \in DOMAIN queue \/ a = Len(queue) + 1
      BY <1>1, <1>3, <3>1
    <3>3. \A a \in DOMAIN queue : queue[a] # e
      BY <1>2 DEF IInv, OriginInv, Pending, Range
    <3>4. ASSUME NEW a \in DOMAIN queue', NEW b \in DOMAIN queue', NEW i \in DOMAIN enqueued',
                 NEW j \in DOMAIN enqueued', a < b, queue'[a] = enqueued'[i], queue'[b] = enqueued'[j]
          PROVE  i < j
      <4>1. a \in DOMAIN queue /\ queue[a] = enqueued'[i]
        <5>1. a # Len(queue) + 1
          BY <3>2, <3>4, <1>3
        <5> QED
          BY <5>1, <3>2, <3>4
      <4>2. i # n /\ i \in DOMAIN enqueued
        BY <4>1, <3>3, <1>4, <1>5
      <4>3. CASE b \in DOMAIN queue
        BY <2>1, <3>2, <3>4, <4>1, <4>3
      <4>4. CASE b = Len(queue) + 1
        <5>1. enqueued'[j] = e
          BY <2>2, <3>2, <3>4, <4>4
        <5>2. j = n
          BY <5>1, <1>4, <1>5, <1>6
        <5> QED
          BY <5>2, <4>2, <1>4
      <4> QED
        BY <3>2, <4>3, <4>4
    <3> QED
      BY <3>4 DEF Sorted
  <2> QED
    BY <2>3, <2>4
<1>16. Stored' \subseteq Range(enqueued') /\ \A f \in Event : received'[f] <= commits'
  BY <1>2, <1>3, <1>7, RangeOfAppend DEF OrderInv
<1> QED
  BY <1>9, <1>11, <1>12, <1>14, <1>15, <1>16 DEF OrderInv

(* A batch is the head of a sorted file, and what is no longer in the file has *)
(* been stored or is not spared: no spared event is left behind the batch.     *)
LEMMA BatchClosed ==
  ASSUME IInv, OrderInv
  PROVE  Closed(ParsedBatch)
<1> DEFINE m == BatchLen
           head == SubSeq(queue, 1, m)
<1>1. /\ queue \in Seq(Line) /\ BatchSize \in Nat /\ enqueued \in Seq(Event)
  BY EdgeAssumption DEF IInv, TypeOK, EdgeTypeOK
<1>2. m \in 0 .. Len(queue)
  BY <1>1 DEF BatchLen
<1>3. /\ DOMAIN head = 1 .. m
      /\ \A a \in 1 .. m : head[a] = queue[a] /\ a \in DOMAIN queue
  BY <1>1, <1>2
<1> HIDE DEF m, head
<1>4. \A e \in Event : e \in ParsedBatch <=> \E a \in 1 .. m : queue[a] = e
  BY <1>3 DEF ParsedBatch, Range, head, m
<1>5. ASSUME NEW i \in DOMAIN enqueued, NEW j \in DOMAIN enqueued, i < j,
             enqueued[j] \in ParsedBatch, enqueued[i] \notin Waived
      PROVE  enqueued[i] \in ParsedBatch \cup Stored
  <2>1. enqueued[i] \in Event /\ enqueued[j] \in Event /\ i \in Nat /\ j \in Nat
    BY <1>1
  <2>2. enqueued[i] \in Pending \cup Stored
    BY <1>5 DEF Waived, IInv, NothingElseIsLost, AckedIsStored, Range
  <2>3. CASE enqueued[i] \in Pending
    <3>1. PICK a \in DOMAIN queue : queue[a] = enqueued[i]
      BY <2>3 DEF Pending, Range
    <3>2. PICK b \in 1 .. m : queue[b] = enqueued[j]
      BY <1>4, <1>5, <2>1
    <3>3. a \in Nat /\ b \in Nat /\ b \in DOMAIN queue
      BY <1>1, <1>3, <3>2
    <3>4. ~(b < a)
      BY <1>5, <2>1, <3>1, <3>2, <3>3 DEF OrderInv, Sorted
    <3>5. a \in 1 .. m
      BY <1>1, <1>2, <3>2, <3>3, <3>4
    <3> QED
      BY <1>4, <2>1, <3>1, <3>5
  <2> QED
    BY <2>2, <2>3
<1> QED
  BY <1>5 DEF Closed

(* Reading a batch takes the oldest lines and leaves the rest in order.     *)
LEMMA ReadOrder ==
  ASSUME IInv, OrderInv, ReadAndPost \/ ReadMalformed, UNCHANGED cloudVars
  PROVE  OrderInv'
<1>1. /\ remaining' = SubSeq(queue, BatchLen + 1, Len(queue))
      /\ wire' \subseteq wire \cup {[batch |-> ParsedBatch, waiting |-> TRUE]}
      /\ UNCHANGED <<queue, enqueued, misread, refused, exposed, received, commits>>
  BY DEF ReadAndPost, ReadMalformed, Post, fileVars, historyVars, linkVars, cloudVars
<1>2. Sorted(remaining)'
  <2>1. queue \in Seq(Line) /\ BatchLen \in 0 .. Len(queue)
    BY EdgeAssumption DEF IInv, TypeOK, EdgeTypeOK, BatchLen
  <2>2. Sorted(SubSeq(queue, BatchLen + 1, Len(queue)))
    BY <2>1, SortedPart DEF OrderInv
  <2> QED
    BY <1>1, <2>2 DEF Sorted
<1>3. \A r \in wire' : Closed(r.batch)
  BY <1>1, BatchClosed DEF OrderInv
<1>4. Stored' = Stored
  BY <1>1 DEF Stored
<1>5. Sorted(queue)' /\ EnqueuedOnce' /\ Closed(Stored)' /\ StoredInOrder'
  BY <1>1, <1>4 DEF OrderInv, EnqueuedOnce, Sorted, Closed, Waived, StoredInOrder
<1>6. \A r \in wire' : Closed(r.batch)'
  BY <1>1, <1>3, <1>4 DEF Closed, Waived
<1> QED
  BY <1>1, <1>2, <1>4, <1>5, <1>6 DEF OrderInv

(* Every other step of the edge empties the list of lines it would write back, *)
(* or keeps it, or writes it to the file, in part perhaps.                     *)
LEMMA FlushOrder ==
  ASSUME IInv, OrderInv, UNCHANGED cloudVars,
         \/ KeepBatch \/ TransportError \/ DropBatch \/ ConfirmBatch
         \/ Rewrite \/ RewriteTorn \/ Resume \/ Crash \/ Restart
  PROVE  OrderInv'
<1>1. /\ UNCHANGED <<enqueued, received, commits>>
      /\ refused \subseteq refused' /\ misread \subseteq misread' /\ exposed \subseteq exposed'
  BY DEF KeepBatch, TransportError, DropBatch, ConfirmBatch, Rewrite, RewriteTorn, Resume,
         Crash, Restart, historyVars, cloudVars
<1>2. \A r \in wire' : \E q \in wire : r.batch = q.batch
  <2>1. wire' = wire \/ HangUp
    BY DEF KeepBatch, TransportError, DropBatch, ConfirmBatch, Rewrite, RewriteTorn, Resume,
           Crash, Restart, ReadReply, linkVars
  <2> QED
    BY <2>1, HangUpEffect DEF IInv, TypeOK
<1>3. queue \in Seq(Line) /\ remaining \in Seq(Line) /\ Torn \in Line
  BY DEF IInv, TypeOK, EdgeTypeOK, Line
<1>4. Sorted(remaining)'
  <2>1. remaining' \in {<<>>, remaining}
    BY DEF KeepBatch, TransportError, DropBatch, ConfirmBatch, Rewrite, RewriteTorn, Resume,
           Crash, Restart, EndFlush
  <2> QED
    BY <1>1, <2>1 DEF OrderInv, Sorted
<1>5. Sorted(queue)'
  <2>1. CASE queue' = queue
    BY <1>1, <2>1 DEF OrderInv, Sorted
  <2>2. CASE Rewrite
    BY <1>1, <2>2 DEF Rewrite, OrderInv, Sorted
  <2>3. CASE RewriteTorn
    <3>1. PICK kept \in 0 .. Len(remaining), cut \in BOOLEAN :
            queue' = SubSeq(remaining, 1, kept) \o (IF cut THEN <<Torn>> ELSE <<>>)
      BY <2>3 DEF RewriteTorn
    <3> DEFINE head == SubSeq(remaining, 1, kept)
    <3>2. head \in Seq(Line) /\ 0 \in 0 .. Len(remaining)
      BY <1>3
    <3>3. Sorted(head)
      BY <1>3, <3>2, SortedPart DEF OrderInv
    <3>4. queue' = head \/ queue' = Append(head, Torn)
      <4> HIDE DEF head
      <4>1. head \o <<Torn>> = Append(head, Torn) /\ head \o <<>> = head
        BY <1>3, <3>2
      <4> QED
        BY <3>1, <4>1 DEF head
    <3> HIDE DEF head
    <3>5. Sorted(Append(head, Torn))
      BY <3>2, <3>3, SortedTorn
    <3> QED
      BY <1>1, <3>3, <3>4, <3>5 DEF Sorted
  <2> QED
    BY <2>1, <2>2, <2>3
       DEF KeepBatch, TransportError, DropBatch, ConfirmBatch, Resume, Crash, Restart, fileVars
<1> QED
  BY <1>1, <1>2, <1>4, <1>5, OrderKept

(* A request that is lost or answered by something else changes no order.      *)
LEMMA LinkOrder ==
  ASSUME OrderInv, wire' \subseteq wire, UNCHANGED <<edgeVars, received, commits>>
  PROVE  OrderInv'
<1>1. UNCHANGED <<queue, remaining, enqueued, refused, misread, exposed>>
  BY DEF edgeVars, fileVars, flushVars, historyVars
<1>2. Sorted(queue)' /\ Sorted(remaining)'
  BY <1>1 DEF OrderInv, Sorted
<1> QED
  BY <1>1, <1>2, OrderKept

(* A commit stores the whole batch at once, and what it depends on is stored.  *)
LEMMA IngestOrder ==
  ASSUME IInv, OrderInv, NEW r \in wire, IngestEvents(r), UNCHANGED edgeVars
  PROVE  OrderInv'
<1>1. /\ received' = [e \in Event |-> IF e \in r.batch /\ received[e] = 0
                                        THEN commits + 1 ELSE received[e]]
      /\ commits' = IF r.batch \subseteq Stored THEN commits ELSE commits + 1
      /\ wire' \subseteq wire
  BY DEF IngestEvents, InsertOrIgnore, AnswerWith
<1>2. /\ received \in [Event -> Nat] /\ commits \in Nat /\ enqueued \in Seq(Event)
      /\ r.batch \subseteq Event /\ r.batch \subseteq Range(enqueued)
  BY DEF IInv, TypeOK, CloudTypeOK, LinkTypeOK, EdgeTypeOK, Request, OriginInv
<1>3. UNCHANGED <<queue, remaining, enqueued, refused, misread, exposed>>
  BY DEF edgeVars, fileVars, flushVars, historyVars
<1>4. Stored' = Stored \cup r.batch
  BY <1>1, <1>2 DEF Stored
<1>5. ASSUME NEW B, Closed(B)
      PROVE  Closed(B)'
  BY <1>3, <1>4, <1>5 DEF Closed, Waived
<1>6. \A q \in wire' : Closed(q.batch)'
  BY <1>1, <1>3, <1>4 DEF OrderInv, Closed, Waived
<1>7. Closed(Stored)'
  <2>1. Closed(Stored) /\ Closed(r.batch)
    BY DEF OrderInv
  <2> QED
    BY <1>3, <1>4, <2>1 DEF Closed, Waived
<1>8. \A e \in Event : /\ received'[e] <= commits'
                       /\ e \in Stored => received'[e] = received[e] /\ received[e] <= commits
                       /\ e \in r.batch \ Stored => received'[e] = commits + 1
  BY <1>1, <1>2 DEF OrderInv, Stored
<1>9. StoredInOrder'
  <2>1. ASSUME NEW i \in DOMAIN enqueued, NEW j \in DOMAIN enqueued, i < j,
               enqueued[i] \in Stored', enqueued[j] \in Stored', enqueued[i] \notin Waived
        PROVE  ~(received'[enqueued[j]] < received'[enqueued[i]])
    <3>1. enqueued[i] \in Event /\ enqueued[j] \in Event
      BY <1>2
    <3>2. CASE enqueued[j] \in Stored
      <4>1. enqueued[i] \in Stored
        BY <2>1, <3>2 DEF OrderInv, Closed
      <4>2. ~(received[enqueued[j]] < received[enqueued[i]])
        BY <2>1, <3>2, <4>1 DEF OrderInv, StoredInOrder, Waived
      <4> QED
        BY <1>8, <3>1, <3>2, <4>1, <4>2
    <3>3. CASE enqueued[j] \notin Stored
      <4>1. received'[enqueued[j]] = commits + 1
        BY <1>4, <1>8, <2>1, <3>1, <3>3
      <4>2. received'[enqueued[i]] \in Nat /\ received'[enqueued[i]] <= commits + 1
        BY <1>1, <1>2, <1>8, <3>1
      <4> QED
        BY <1>2, <4>1, <4>2
    <3> QED
      BY <3>2, <3>3
  <2> QED
    BY <1>3, <2>1 DEF StoredInOrder, Waived
<1>10. EnqueuedOnce' /\ Sorted(queue)' /\ Sorted(remaining)' /\ Stored' \subseteq Range(enqueued')
  BY <1>2, <1>3, <1>4 DEF OrderInv, EnqueuedOnce, Sorted
<1> QED
  BY <1>6, <1>7, <1>8, <1>9, <1>10 DEF OrderInv

(* Nothing is queued, sent or stored at first.                              *)
LEMMA InitOrder == Init => OrderInv
BY DEF Init, EdgeInit, LinkInit, CloudInit, OrderInv, EnqueuedOnce, Sorted, Closed, Stored,
       StoredInOrder, Range

(* Every step keeps what is queued, sent and stored in order.               *)
LEMMA NextOrder == IInv /\ OrderInv /\ [Next]_vars => OrderInv'
<1> SUFFICES ASSUME IInv, OrderInv, [Next]_vars PROVE OrderInv'
  OBVIOUS
<1>1. CASE EdgeNext /\ UNCHANGED cloudVars
  BY <1>1, EnqueueOrder, ReadOrder, FlushOrder DEF EdgeNext
<1>2. CASE LinkNext /\ UNCHANGED <<edgeVars, cloudVars>>
  BY <1>2, LinkOrder DEF LinkNext, LoseRequest, AnswerRetry, AnswerRedirect, AnswerWith, cloudVars
<1>3. CASE CloudNext /\ UNCHANGED edgeVars
  <2>1. CASE \E r \in wire : IngestEvents(r)
    BY <1>3, <2>1, IngestOrder
  <2>2. CASE ClockStep \/ \E r \in wire : RejectBatch(r)
    BY <1>3, <2>2, LinkOrder DEF ClockStep, RejectBatch, AnswerWith, linkVars, cloudVars
  <2> QED
    BY <1>3, <2>1, <2>2 DEF CloudNext
<1>4. CASE UNCHANGED vars
  BY <1>4, LinkOrder DEF vars, linkVars, cloudVars
<1> QED
  BY <1>1, <1>2, <1>3, <1>4 DEF Next

(* Of two events, the one enqueued first is not stored after the other, unless *)
(* it was refused, misread or exposed: however batches are retried, delayed,   *)
(* repeated or answered twice, the cloud's table follows the order of          *)
(* enqueue().                                                                  *)
THEOREM OrderKeptEndToEnd == Spec => []StoredInOrder
<1>1. OrderInv => StoredInOrder
  BY DEF OrderInv
<1> QED
  BY <1>1, InitIInv, NextIInv, InitOrder, NextOrder, PTL DEF Spec
-----------------------------------------------------------------------------
(* An append is the abstract Accept.                                           *)
LEMMA EnqueueAccepts ==
  ASSUME NEW e \in Event, Enqueue(e) \/ EnqueueTorn(e), UNCHANGED cloudVars
  PROVE  Delivery!Accept(e)
  BY DEF Enqueue, EnqueueTorn, Delivery!Accept, Delivery!Range, Range, cloudVars

(* A commit is the abstract Deliver of the events it stores, or a stutter when *)
(* the whole batch is a duplicate.                                             *)
LEMMA IngestDelivers ==
  ASSUME IInv, NEW r \in wire, IngestEvents(r), UNCHANGED edgeVars
  PROVE  Delivery!Next \/ UNCHANGED Delivery!vars
<1>1. /\ received' = [e \in Event |-> IF e \in r.batch /\ received[e] = 0
                                        THEN commits + 1 ELSE received[e]]
      /\ commits' = IF r.batch \subseteq Stored THEN commits ELSE commits + 1
      /\ enqueued' = enqueued
      /\ received \in [Event -> Nat]
      /\ r.batch \subseteq Event
      /\ r.batch \subseteq Range(enqueued)
  BY DEF IngestEvents, InsertOrIgnore, IInv, TypeOK, CloudTypeOK, LinkTypeOK, Request,
         OriginInv, edgeVars, historyVars
<1>2. CASE r.batch \subseteq Stored
  <2>1. received' = received
    BY <1>1, <1>2 DEF Stored
  <2> QED
    BY <1>1, <1>2, <2>1 DEF Delivery!vars
<1>3. CASE ~(r.batch \subseteq Stored)
  <2> DEFINE new == {e \in r.batch : received[e] = 0}
  <2>1. new # {} /\ new \in SUBSET Delivery!Undelivered
    BY <1>1, <1>3 DEF Stored, Delivery!Undelivered, Delivery!Range, Range
  <2>2. received' = [e \in Event |-> IF e \in new THEN commits + 1 ELSE received[e]]
    BY <1>1
  <2>3. Delivery!Deliver(new)
    BY <1>1, <1>3, <2>1, <2>2 DEF Delivery!Deliver
  <2> QED
    BY <2>1, <2>3 DEF Delivery!Next
<1> QED
  BY <1>2, <1>3

(* The path implements EventDelivery: only enqueued events are stored, and     *)
(* retries, late requests and duplicates leave stored rows alone.              *)
THEOREM DeliveryRefined == Spec => DeliverySpec
<1>1. Init => Delivery!Init
  BY DEF Init, EdgeInit, CloudInit, Delivery!Init
<1>2. IInv /\ [Next]_vars => [Delivery!Next]_(Delivery!vars)
  <2> SUFFICES ASSUME IInv, [Next]_vars
               PROVE  Delivery!Next \/ UNCHANGED Delivery!vars
    OBVIOUS
  <2>1. CASE EdgeNext /\ UNCHANGED cloudVars
    <3>1. CASE \E e \in Event : Enqueue(e) \/ EnqueueTorn(e)
      BY <2>1, <3>1, EnqueueAccepts DEF Delivery!Next
    <3>2. CASE enqueued' = enqueued
      BY <2>1, <3>2 DEF Delivery!vars, cloudVars
    <3> QED
      BY <2>1, <3>1, <3>2
         DEF EdgeNext, ReadAndPost, ReadMalformed, KeepBatch, TransportError, DropBatch,
             ConfirmBatch, Rewrite, RewriteTorn, Resume, Crash, Restart, historyVars
  <2>2. CASE LinkNext /\ UNCHANGED <<edgeVars, cloudVars>>
    BY <2>2 DEF Delivery!vars, edgeVars, historyVars, cloudVars
  <2>3. CASE CloudNext /\ UNCHANGED edgeVars
    BY <2>3, IngestDelivers
       DEF CloudNext, RejectBatch, ClockStep, Delivery!vars, edgeVars, historyVars, cloudVars
  <2>4. CASE UNCHANGED vars
    BY <2>4 DEF vars, Delivery!vars, edgeVars, historyVars, cloudVars
  <2> QED
    BY <2>1, <2>2, <2>3, <2>4 DEF Next
<1> QED
  BY <1>1, <1>2, InitIInv, NextIInv, PTL DEF Spec, DeliverySpec, Delivery!Spec
=============================================================================
