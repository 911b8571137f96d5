--------------------------- MODULE ValidatorQueue ---------------------------
(* core/validator.py: capture threads hand sampled frames and the peak frames  *)
(* of events to a worker on the event loop, which asks a second detector about *)
(* them and writes down where it disagrees.                                    *)
EXTENDS Clock, ShadowStore

CONSTANTS Slots,
          JobsMax,         \* VALIDATOR_QUEUE_MAX
          SampleEvery,     \* VALIDATOR_SAMPLE_SEC
          Window,          \* the two seconds of rule B
          Retain,          \* how long the retention loop leaves a picture
          MaxHanded,       \* bound: callbacks the loop has yet to run
          MaxEpisodes,     \* bound: events of the primary detector
          ValidatorEnd,    \* bound: the last tick
          NoJob

ASSUME ValidatorAssumption ==
  /\ JobsMax \in Nat \ {0} /\ SampleEvery \in Nat \ {0} /\ Window \in Nat /\ Retain \in Nat
  /\ MaxHanded \in Nat /\ MaxEpisodes \in Nat /\ ValidatorEnd \in Nat

VARIABLES paused,          \* _paused
          handed,          \* callbacks given to the loop, oldest first
          queue, overflow, \* queue, _priority_overflow
          worker,          \* where run_forever() is
          job,             \* what it works on
          lastSample,      \* _last_sample_ts
          lastEvent,       \* _last_primary_event_ts
          accepted,        \* history: jobs enqueue() took, in order
          taken,           \* history: jobs the worker took
          events,          \* history: episodes of the primary detector
          flagged          \* history: frames reported as missed

jobs == <<handed, queue, overflow, job, accepted, taken>>
stamps == <<lastSample, lastEvent, events>>
validatorVars == <<paused, worker, jobs, stamps, flagged, shadowVars>>

Never == 0 - SampleEvery - Window

Job == [kind : {"episode", "sampled"}, slot : Slots, ts : 0 .. ValidatorEnd]

ASSUME NoJobAssumption == NoJob \notin Job

ValidatorTypeOK ==
  /\ paused \in BOOLEAN
  /\ queue \in Seq(Job) /\ Len(queue) <= JobsMax
  /\ overflow \in Seq([kind : {"episode"}, slot : Slots, ts : 0 .. now])
  /\ handed \in Seq(Job) /\ job \in Job \cup {NoJob}
  /\ worker \in {"loading", "asking", "waiting", "busy", "ended"}
  /\ job # NoJob <=> worker = "busy"
  /\ pictures \subseteq flagged
  /\ records \in [lines : Seq(SUBSET flagged), ended : BOOLEAN]

ValidatorInit ==
  /\ paused = FALSE /\ worker = "loading" /\ job = NoJob
  /\ handed = <<>> /\ queue = <<>> /\ overflow = <<>>
  /\ lastSample = [s \in Slots |-> Never] /\ lastEvent = [s \in Slots |-> Never]
  /\ accepted = <<>> /\ taken = {} /\ events = {} /\ flagged = {}
  /\ ShadowInit
-----------------------------------------------------------------------------
(* The capture thread of a slot *)

Hand(kind, s) ==
  /\ Len(handed) < MaxHanded
  /\ handed' = Append(handed, [kind |-> kind, slot |-> s, ts |-> now])

(* should_sample() takes the stamp whether or not the job is then taken.       *)
SampleFrame(s) ==
  /\ now - lastSample[s] >= SampleEvery
  /\ lastSample' = [lastSample EXCEPT ![s] = now]
  /\ Hand("sampled", s)
  /\ UNCHANGED <<paused, worker, queue, overflow, job, accepted, taken, lastEvent, events,
                 flagged, shadowVars, now>>

(* Mistake: the event is marked only while the validator is on.                *)
MarkWhenOn(s) == lastEvent' = IF paused THEN lastEvent ELSE [lastEvent EXCEPT ![s] = now]

(* mark_primary_event() *)
MarkPrimaryEvent(s) == lastEvent' = [lastEvent EXCEPT ![s] = now]

(* An episode has been flushed.                                                *)
EmitEpisode(s) ==
  /\ Cardinality(events) < MaxEpisodes
  /\ [slot |-> s, ts |-> now] \notin events
  /\ events' = events \cup {[slot |-> s, ts |-> now]}
  /\ MarkPrimaryEvent(s)
  /\ Hand("episode", s)
  /\ UNCHANGED <<paused, worker, queue, overflow, job, accepted, taken, lastSample,
                 flagged, shadowVars, now>>
-----------------------------------------------------------------------------
(* The event loop *)

SetPaused ==
  /\ paused' = ~paused
  /\ UNCHANGED <<worker, jobs, stamps, flagged, shadowVars, now>>

Accept(j) == accepted' = Append(accepted, j)

(* enqueue(): when the queue is full an episode spills over, a sample is lost. *)
Enqueue ==
  /\ handed # <<>>
  /\ handed' = Tail(handed)
  /\ LET j == Head(handed)
         full == Len(queue) = JobsMax
     IN \/ paused /\ UNCHANGED <<queue, overflow, accepted>>
        \/ ~paused /\ ~full /\ Accept(j) /\ queue' = Append(queue, j) /\ UNCHANGED overflow
        \/ /\ ~paused /\ full /\ j.kind = "episode"
           /\ Accept(j) /\ overflow' = Append(overflow, j) /\ UNCHANGED queue
        \/ /\ ~paused /\ full /\ j.kind = "sampled"
           /\ UNCHANGED <<queue, overflow, accepted>>
  /\ UNCHANGED <<paused, worker, job, taken, stamps, flagged, shadowVars, now>>
-----------------------------------------------------------------------------
(* run_forever() *)

LoadModel ==
  /\ worker = "loading"
  /\ worker' \in {"asking", "ended"}
  /\ UNCHANGED <<paused, jobs, stamps, flagged, shadowVars, now>>

Take(j) == worker' = "busy" /\ job' = j /\ taken' = taken \cup {j}

TakeQueued == Take(Head(queue)) /\ queue' = Tail(queue) /\ UNCHANGED overflow

TakeOverflow == Take(Head(overflow)) /\ overflow' = Tail(overflow) /\ UNCHANGED queue

(* Mistake: the overflow is looked at when the queue is empty.                 *)
AskQueueFirst ==
  /\ worker = "asking"
  /\ \/ queue # <<>> /\ TakeQueued
     \/ queue = <<>> /\ overflow # <<>> /\ TakeOverflow
     \/ /\ queue = <<>> /\ overflow = <<>> /\ worker' = "waiting"
        /\ UNCHANGED <<queue, overflow, job, taken>>
  /\ UNCHANGED <<paused, handed, accepted, stamps, flagged, shadowVars, now>>

Ask ==
  /\ worker = "asking"
  /\ \/ overflow # <<>> /\ TakeOverflow
     \/ overflow = <<>> /\ queue # <<>> /\ TakeQueued
     \/ /\ queue = <<>> /\ overflow = <<>> /\ worker' = "waiting"
        /\ UNCHANGED <<queue, overflow, job, taken>>
  /\ UNCHANGED <<paused, handed, accepted, stamps, flagged, shadowVars, now>>

(* queue.get() returns; the overflow may have filled since it was looked at.   *)
Wake ==
  /\ worker = "waiting" /\ queue # <<>>
  /\ TakeQueued
  /\ UNCHANGED <<paused, handed, accepted, stamps, flagged, shadowVars, now>>

Recently(j) == j.ts - lastEvent[j.slot] < Window

(* Rule B, where the second detector found a risky pair or not, and the first  *)
(* had seen both of its members or not.                                        *)
CheckFalseNegative(recent, risky, known) == ~recent /\ risky /\ ~known

(* _process(), _emit(): the second detector has answered, or failed.  What it  *)
(* says of an episode is written down and changes nothing else.                *)
Process ==
  /\ worker = "busy"
  /\ worker' = "asking" /\ job' = NoJob
  /\ LET id == [slot |-> job.slot, ts |-> job.ts]
     IN \/ UNCHANGED <<flagged, shadowVars>>
        \/ /\ job.kind = "sampled"
           /\ \E risky, known \in BOOLEAN : CheckFalseNegative(Recently(job), risky, known)
           /\ flagged' = flagged \cup {id}
           /\ Save(id)
  /\ UNCHANGED <<paused, handed, queue, overflow, accepted, taken, stamps, now>>

Sweep ==
  /\ \E id \in pictures : now - id.ts >= Retain /\ SweepPicture(id)
  /\ UNCHANGED <<paused, worker, jobs, stamps, flagged, now>>
-----------------------------------------------------------------------------
ValidatorTick == Tick(ValidatorEnd) /\ UNCHANGED validatorVars

ValidatorNext ==
  \/ ValidatorTick
  \/ SetPaused \/ Enqueue \/ LoadModel \/ Ask \/ Wake \/ Process \/ Sweep
  \/ \E s \in Slots : SampleFrame(s) \/ EmitEpisode(s)

ValidatorSpec == ValidatorInit /\ ClockInit /\ [][ValidatorNext]_<<validatorVars, now>>
-----------------------------------------------------------------------------
(* No job that was taken in is lost or worked on twice, and no frame sampled   *)
(* later is looked at while the episode of an event waits.                     *)
EpisodesGoFirst ==
  LET waiting == queue \o overflow
  IN /\ ToSet(accepted) = taken \cup ToSet(waiting)
     /\ Len(accepted) = Cardinality(taken) + Len(waiting)
     /\ \A i, k \in 1 .. Len(accepted) :
          /\ i < k
          /\ accepted[i].kind = "episode"
          /\ accepted[k] \in taken
          => accepted[k].kind = "episode" \/ accepted[i] \in taken

(* A frame reported as missed had no event in the seconds before it, nor one   *)
(* between it and the moment the second detector was asked.                    *)
MissedFramesAreQuiet ==
  [][\A id \in flagged' \ flagged : \A e \in events :
       e.slot = id.slot => id.ts - e.ts >= Window]_validatorVars
-----------------------------------------------------------------------------
(* What docstrings say and the code does not do.                               *)

(* "the validator sees at least one re-check per primary event".               *)
EveryEventIsTaken ==
  (handed = <<>>) => \A e \in events : \E j \in ToSet(accepted) :
     j.kind = "episode" /\ j.slot = e.slot /\ j.ts = e.ts

(* "Returns the record on success, None on any I/O error".                     *)
SavedIsFound == [][\A id \in flagged' \ flagged : id \in pictures' => Load(id)']_validatorVars
=============================================================================
