---------------------------- MODULE EdgePublisher ----------------------------
(* integrations/edge_publisher.py: the outbound queue file, enqueue(),         *)
(* flush_once() and run_forever(), with crashes of the edge process.  All of   *)
(* it runs on one asyncio event loop, so the state changes only between        *)
(* awaits; the two awaits that matter are the POST and the sleeps.             *)
EXTENDS CloudLink, Sequences, Functions

CONSTANTS Torn,        \* a line of the file that is not JSON
          BatchSize,   \* batch_size
          MaxDelay,    \* _BackoffState.max_delay
          DiskFaults,  \* whether a write to the queue file can be cut short
          MaxCrashes   \* bound: crashes in one behaviour

ASSUME EdgeAssumption == /\ Torn \notin Event
                         /\ BatchSize \in Nat \ {0}
                         /\ MaxDelay \in Nat \ {0}
                         /\ DiskFaults \in BOOLEAN
                         /\ MaxCrashes \in Nat

VARIABLES queue,         \* the lines of data/outbound_queue.jsonl
          unterminated,  \* its last line lacks the newline
          phase,         \* where run_forever() stands
          batch,         \* flush_once(): the events parsed from the first lines
          remaining,     \* flush_once(): remaining_raw, the lines after them
          delay,         \* _backoff.delay, in seconds
          crashes,       \* crashes so far
          enqueued,      \* history: the events given to enqueue(), in order
          acked,         \* history: the events whose batch was taken as delivered
          misread,       \* history: those of them whose answer was a redirect
          refused,       \* history: the events dropped as a poison batch
          exposed        \* history: the events a step put in harm's way

fileVars == <<queue, unterminated>>
flushVars == <<phase, batch, remaining, delay>>
historyVars == <<enqueued, acked, misread, refused, exposed>>
edgeVars == <<fileVars, flushVars, crashes, historyVars>>

Line == Event \cup {Torn}

EdgeTypeOK ==
  /\ queue \in Seq(Line)
  /\ unterminated \in BOOLEAN
  /\ phase \in {"sleeping", "posting", "rewriting", "backoff", "down"}
  /\ batch \in SUBSET Event
  /\ remaining \in Seq(Line)
  /\ delay \in 1 .. MaxDelay
  /\ crashes \in 0 .. MaxCrashes
  /\ enqueued \in Seq(Event)
  /\ acked \subseteq Event
  /\ misread \subseteq acked
  /\ refused \subseteq Event
  /\ exposed \subseteq Event

EdgeInit ==
  /\ queue = <<>>
  /\ unterminated = FALSE
  /\ phase = "sleeping"
  /\ batch = {}
  /\ remaining = <<>>
  /\ delay = 1
  /\ crashes = 0
  /\ enqueued = <<>>
  /\ acked = {}
  /\ misread = {}
  /\ refused = {}
  /\ exposed = {}

Pending == Range(queue) \cap Event
-----------------------------------------------------------------------------
(* enqueue() *)

(* The line an append lands on when the file does not end with a newline.      *)
Mangled == IF unterminated THEN {queue[Len(queue)]} \cap Event ELSE {}

(* Mistake: the newest line first.                                             *)
AppendFirst(line) == IF unterminated
                       THEN [queue EXCEPT ![Len(queue)] = Torn]
                       ELSE <<line>> \o queue

AppendLine(line) == IF unterminated
                      THEN [queue EXCEPT ![Len(queue)] = Torn]
                      ELSE Append(queue, line)

(* An event appended while a flush waits for its answer is not in the lines    *)
(* that flush will write back.                                                 *)
Overtaken(e) == IF phase = "posting" THEN {e} ELSE {}

LoopRuns == phase \notin {"rewriting", "down"}

Enqueue(e) ==
  /\ LoopRuns
  /\ e \notin Range(enqueued)
  /\ queue' = AppendLine(e)
  /\ unterminated' = FALSE
  /\ enqueued' = Append(enqueued, e)
  /\ exposed' = exposed \cup Overtaken(e) \cup Mangled
                        \cup (IF unterminated THEN {e} ELSE {})
  /\ UNCHANGED <<flushVars, crashes, acked, misread, refused, linkVars>>

(* A full disk or a kill in the middle of the append leaves part of the line:  *)
(* at best all of it but the newline.  The exception is swallowed.             *)
EnqueueTorn(e) ==
  /\ DiskFaults
  /\ LoopRuns
  /\ e \notin Range(enqueued)
  /\ \E fragment \in {e, Torn} : queue' = AppendLine(fragment)
  /\ unterminated' = TRUE
  /\ enqueued' = Append(enqueued, e)
  /\ exposed' = exposed \cup {e} \cup Mangled
  /\ UNCHANGED <<flushVars, crashes, acked, misread, refused, linkVars>>
-----------------------------------------------------------------------------
(* flush_once() *)

BatchLen == IF Len(queue) < BatchSize THEN Len(queue) ELSE BatchSize

(* The lines that parse; the others are dropped with a warning.                *)
ParsedBatch == Range(SubSeq(queue, 1, BatchLen)) \cap Event

(* The file is read under the lock, the lock is released, the batch is sent.   *)
ReadAndPost ==
  /\ phase = "sleeping"
  /\ queue # <<>>
  /\ ParsedBatch # {}
  /\ batch' = ParsedBatch
  /\ remaining' = SubSeq(queue, BatchLen + 1, Len(queue))
  /\ phase' = "posting"
  /\ Post(ParsedBatch)
  /\ UNCHANGED <<fileVars, delay, crashes, historyVars>>

(* Every line of the batch is malformed: nothing is sent.                      *)
ReadMalformed ==
  /\ phase = "sleeping"
  /\ queue # <<>>
  /\ ParsedBatch = {}
  /\ batch' = {}
  /\ remaining' = SubSeq(queue, BatchLen + 1, Len(queue))
  /\ phase' = "rewriting"
  /\ UNCHANGED <<fileVars, delay, crashes, historyVars, linkVars>>

(* flush_once() returns: its locals are gone.                                  *)
EndFlush == /\ batch' = {}
            /\ remaining' = <<>>

(* Mistake: the delay is not capped.                                           *)
NextDelayUncapped == 2 * delay

NextDelay == IF 2 * delay < MaxDelay THEN 2 * delay ELSE MaxDelay

(* Mistake: the retry branch does not return and runs into the truncation.     *)
KeepBatchNot ==
  /\ phase = "posting"
  /\ reply = "retry"
  /\ phase' = "rewriting"
  /\ delay' = NextDelay
  /\ ReadReply
  /\ UNCHANGED <<fileVars, batch, remaining, crashes, historyVars>>

(* A 5xx, 408 or 429 answer: keep the batch and back off.                      *)
KeepBatch ==
  /\ phase = "posting"
  /\ reply = "retry"
  /\ phase' = "backoff"
  /\ delay' = NextDelay
  /\ ReadReply
  /\ EndFlush
  /\ UNCHANGED <<fileVars, crashes, historyVars>>

(* A timeout or a transport error, whatever the cloud did with the request.    *)
TransportError ==
  /\ phase = "posting"
  /\ phase' = "backoff"
  /\ delay' = NextDelay
  /\ HangUp
  /\ EndFlush
  /\ UNCHANGED <<fileVars, crashes, historyVars>>

(* Mistake: a refused batch is kept and tried again.                           *)
DropBatchNot ==
  /\ phase = "posting"
  /\ reply = "refused"
  /\ phase' = "backoff"
  /\ delay' = NextDelay
  /\ ReadReply
  /\ EndFlush
  /\ UNCHANGED <<fileVars, crashes, historyVars>>

(* Any other 4xx: the batch is taken for a poison pill and dropped.            *)
DropBatch ==
  /\ phase = "posting"
  /\ reply = "refused"
  /\ phase' = "rewriting"
  /\ refused' = refused \cup batch
  /\ ReadReply
  /\ UNCHANGED <<fileVars, batch, remaining, delay, crashes, enqueued, acked, misread, exposed>>

(* Mistake: the status of the answer is not looked at for 5xx.                 *)
ConfirmAny ==
  /\ phase = "posting"
  /\ reply \in {"ok", "redirect", "retry"}
  /\ phase' = "rewriting"
  /\ delay' = 1
  /\ acked' = acked \cup batch
  /\ misread' = misread \cup (IF reply = "redirect" THEN batch ELSE {})
  /\ ReadReply
  /\ UNCHANGED <<fileVars, batch, remaining, crashes, enqueued, refused, exposed>>

(* Every status below 400 falls through to the success path.                   *)
ConfirmBatch ==
  /\ phase = "posting"
  /\ reply \in {"ok", "redirect"}
  /\ phase' = "rewriting"
  /\ delay' = 1
  /\ acked' = acked \cup batch
  /\ misread' = misread \cup (IF reply = "redirect" THEN batch ELSE {})
  /\ ReadReply
  /\ UNCHANGED <<fileVars, batch, remaining, crashes, enqueued, refused, exposed>>

(* write_text(remaining_raw) replaces whatever the file holds now.             *)
Rewrite ==
  /\ phase = "rewriting"
  /\ queue' = remaining
  /\ unterminated' = FALSE
  /\ phase' = "sleeping"
  /\ EndFlush
  /\ UNCHANGED <<delay, crashes, historyVars, linkVars>>

(* write_text truncates first: a write that fails leaves a prefix.  The        *)
(* exception ends in a back-off, in flush_once() or in run_forever().          *)
RewriteTorn ==
  /\ DiskFaults
  /\ phase = "rewriting"
  /\ \E kept \in 0 .. Len(remaining), cut \in BOOLEAN :
       /\ cut => kept < Len(remaining)
       /\ queue' = SubSeq(remaining, 1, kept) \o (IF cut THEN <<Torn>> ELSE <<>>)
       /\ unterminated' = cut
       /\ exposed' = exposed \cup
            (Range(SubSeq(remaining, kept + 1, Len(remaining))) \cap Event)
  /\ phase' = "backoff"
  /\ delay' = NextDelay
  /\ EndFlush
  /\ UNCHANGED <<crashes, enqueued, acked, misread, refused, linkVars>>

(* The sleep of the back-off ends; run_forever() goes on.                      *)
Resume ==
  /\ phase = "backoff"
  /\ phase' = "sleeping"
  /\ UNCHANGED <<fileVars, batch, remaining, delay, crashes, historyVars, linkVars>>
-----------------------------------------------------------------------------
(* The process *)

(* A crash, or the cancellation of run_forever() at shutdown.                  *)
Crash ==
  /\ phase # "down"
  /\ crashes < MaxCrashes
  /\ crashes' = crashes + 1
  /\ phase' = "down"
  /\ EndFlush
  /\ delay' = 1
  /\ HangUp
  /\ UNCHANGED <<fileVars, historyVars>>

(* The constructor finds the file of the last run.                             *)
Restart ==
  /\ phase = "down"
  /\ phase' = "sleeping"
  /\ UNCHANGED <<fileVars, batch, remaining, delay, crashes, historyVars, linkVars>>

EdgeNext ==
  \/ \E e \in Event : Enqueue(e) \/ EnqueueTorn(e)
  \/ ReadAndPost \/ ReadMalformed
  \/ KeepBatch \/ TransportError \/ DropBatch \/ ConfirmBatch
  \/ Rewrite \/ RewriteTorn \/ Resume
  \/ Crash \/ Restart
=============================================================================
