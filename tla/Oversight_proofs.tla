--------------------------- MODULE Oversight_proofs ---------------------------
(* Theorems about the services that look at what the others did.  Of the       *)
(* validator: its types, that no frame near an event is reported as missed,    *)
(* that pictures and records of the shadow store keep together, and that no    *)
(* job is lost and the episodes go first.  Of the watchdog: that an incident   *)
(* is what its lines of the file add up to.  Of the agents and the observer of *)
(* their calls: that each call is accounted for.                               *)
EXTENDS ValidatorQueue, Watchdog, Agents, SequenceLemmas, FiniteSetTheorems, TLAPS

Name == [slot : Slots, ts : 0 .. ValidatorEnd]

(* Two jobs of one slot that may be reported, the first of which comes first.  *)
Before(a, b) ==
  (a.kind = "sampled" /\ b.kind = "sampled" /\ a.slot = b.slot) => a.ts < b.ts

(* A job that may yet be reported is newer than what was reported of its slot. *)
Unreported(j) ==
  j.kind = "sampled" =>
    /\ j.ts <= lastSample[j.slot]
    /\ \A id \in flagged : id.slot = j.slot => id.ts < j.ts

TimesInv ==
  /\ now \in 0 .. ValidatorEnd
  /\ lastSample \in [Slots -> Int] /\ lastEvent \in [Slots -> Int]
  /\ events \subseteq Name
  /\ \A e \in events : e.ts <= now /\ e.ts <= lastEvent[e.slot]

JobsInv ==
  /\ paused \in BOOLEAN
  /\ worker \in {"loading", "asking", "waiting", "busy", "ended"}
  /\ job \in Job \cup {NoJob} /\ (job # NoJob <=> worker = "busy")
  /\ handed \in Seq(Job) /\ queue \in Seq(Job) /\ overflow \in Seq(Job)
  /\ Len(queue) <= JobsMax
  /\ \A i \in 1 .. Len(handed) : handed[i].ts <= now
  /\ \A i \in 1 .. Len(overflow) : overflow[i].kind = "episode" /\ overflow[i].ts <= now

OrderInv ==
  /\ \A i \in 1 .. Len(handed) : Unreported(handed[i])
  /\ \A i \in 1 .. Len(queue) : Unreported(queue[i])
  /\ job # NoJob => Unreported(job)
  /\ \A i, k \in 1 .. Len(handed) : i < k => Before(handed[i], handed[k])
  /\ \A i, k \in 1 .. Len(queue) : i < k => Before(queue[i], queue[k])
  /\ \A i \in 1 .. Len(queue), k \in 1 .. Len(handed) : Before(queue[i], handed[k])
  /\ job # NoJob => /\ \A i \in 1 .. Len(queue) : Before(job, queue[i])
                    /\ \A k \in 1 .. Len(handed) : Before(job, handed[k])

FlaggedInv ==
  /\ flagged \subseteq Name
  /\ \A id \in flagged : id.ts <= lastSample[id.slot]

(* No two lines of the records file yield the same id.                         *)
PicturesApart(lines) ==
  \A i, k \in 1 .. Len(lines) : i # k => lines[i] \cap lines[k] = {}

StoreInv ==
  /\ records \in [lines : Seq(SUBSET Name), ended : BOOLEAN]
  /\ records.ended \/ records.lines # <<>>
  /\ PicturesApart(records.lines)
  /\ Listed \subseteq flagged /\ pictures \subseteq flagged
  /\ pictures \ excused \subseteq Listed
  /\ Listed \ excused \subseteq pictures

QueueInv == TimesInv /\ JobsInv /\ OrderInv /\ FlaggedInv
-----------------------------------------------------------------------------
(* Two names of the values of a sequence.                                      *)
LEMMA RangeIsToSet ==
  ASSUME NEW s
  PROVE  ToSet(s) = Range(s)
BY DEF ToSet, Range

(* The head of a queue and what is left.                                       *)
LEMMA HeadAndTail ==
  ASSUME NEW S, NEW s \in Seq(S), s # <<>>
  PROVE  /\ Len(s) \in Nat \ {0}
         /\ Head(s) = s[1] /\ Head(s) \in S
         /\ Tail(s) \in Seq(S)
         /\ Len(Tail(s)) = Len(s) - 1
         /\ \A i \in 1 .. Len(Tail(s)) : Tail(s)[i] = s[i + 1] /\ i + 1 \in 1 .. Len(s)
OBVIOUS

(* A sequence is one of any set that holds its elements.                       *)
LEMMA ElementsOf ==
  ASSUME NEW S, NEW T, NEW s \in Seq(S), \A i \in 1 .. Len(s) : s[i] \in T
  PROVE  s \in Seq(T)
OBVIOUS
-----------------------------------------------------------------------------
(* What holds at the start, and is kept by each step.                          *)
LEMMA InitQueue == ValidatorInit /\ ClockInit => QueueInv
<1> SUFFICES ASSUME ValidatorInit, ClockInit
             PROVE  QueueInv
  OBVIOUS
<1> USE DEF ValidatorInit, ClockInit
<1>1. SampleEvery \in Nat /\ Window \in Nat /\ ValidatorEnd \in Nat /\ JobsMax \in Nat
  BY ValidatorAssumption
<1>2. TimesInv
  BY <1>1 DEF TimesInv, Never
<1>3. JobsInv
  <2>1. <<>> \in Seq(Job) /\ Len(<<>>) = 0
    OBVIOUS
  <2>2. job # NoJob <=> worker = "busy"
    OBVIOUS
  <2>3. /\ handed \in Seq(Job) /\ queue \in Seq(Job) /\ overflow \in Seq(Job)
        /\ Len(queue) <= JobsMax /\ 1 .. Len(handed) = {} /\ 1 .. Len(overflow) = {}
    BY <1>1, <2>1
  <2>4. paused \in BOOLEAN /\ worker = "loading" /\ job = NoJob
    OBVIOUS
  <2> QED
    BY <2>2, <2>3, <2>4 DEF JobsInv
<1>4. OrderInv
  BY DEF OrderInv
<1>5. FlaggedInv
  BY DEF FlaggedInv
<1> QED
  BY <1>2, <1>3, <1>4, <1>5 DEF QueueInv

(* Time passes: what was dated by now is dated by then.                        *)
LEMMA TickQueue == QueueInv /\ ValidatorTick => QueueInv'
<1> SUFFICES ASSUME QueueInv, ValidatorTick
             PROVE  QueueInv'
  OBVIOUS
<1> USE DEF ValidatorTick, Tick, validatorVars, jobs, stamps, QueueInv
<1>1. now' \in 0 .. ValidatorEnd /\ now' = now + 1 /\ now \in Int
  BY ValidatorAssumption DEF TimesInv
<1>2. TimesInv'
  <2>1. \A e \in events : e.ts \in Int
    BY DEF TimesInv, Name
  <2> QED
    BY <1>1, <2>1 DEF TimesInv
<1>3. JobsInv'
  <2>1. \A j \in Job : j.ts \in Int
    BY DEF Job
  <2>2. \A i \in 1 .. Len(handed) : handed[i].ts <= now'
    BY <1>1, <2>1 DEF JobsInv
  <2>3. \A i \in 1 .. Len(overflow) : overflow[i].kind = "episode" /\ overflow[i].ts <= now'
    BY <1>1, <2>1 DEF JobsInv
  <2> QED
    BY <2>2, <2>3 DEF JobsInv
<1>4. OrderInv' /\ FlaggedInv'
  BY DEF OrderInv, FlaggedInv, Unreported, Before
<1> QED
  BY <1>2, <1>3, <1>4

(* Pausing, loading the model and the sweep leave jobs and stamps alone.       *)
LEMMA AsideQueue ==
  QueueInv /\ (SetPaused \/ LoadModel \/ Sweep) => QueueInv'
<1> SUFFICES ASSUME QueueInv, SetPaused \/ LoadModel \/ Sweep
             PROVE  QueueInv'
  OBVIOUS
<1>1. UNCHANGED <<handed, queue, overflow, job, lastSample, lastEvent, events, flagged, now>>
  BY DEF SetPaused, LoadModel, Sweep, jobs, stamps
<1>2. /\ paused' \in BOOLEAN
      /\ worker' \in {"loading", "asking", "waiting", "busy", "ended"}
      /\ worker' = "busy" <=> worker = "busy"
  <2>1. CASE SetPaused
    BY <2>1 DEF SetPaused, QueueInv, JobsInv
  <2>2. CASE LoadModel
    BY <2>2 DEF LoadModel, QueueInv, JobsInv
  <2>3. CASE Sweep
    BY <2>3 DEF Sweep, QueueInv, JobsInv
  <2> QED
    BY <2>1, <2>2, <2>3
<1>3. TimesInv'
  BY <1>1 DEF QueueInv, TimesInv
<1>4. JobsInv'
  BY <1>1, <1>2 DEF QueueInv, JobsInv
<1>5. OrderInv' /\ FlaggedInv'
  BY <1>1 DEF QueueInv, OrderInv, FlaggedInv, Unreported, Before
<1> QED
  BY <1>3, <1>4, <1>5 DEF QueueInv

(* What a capture thread hands over is newer than all samples of its slot.     *)
LEMMA HandQueue ==
  ASSUME QueueInv, NEW s \in Slots, NEW kind \in {"episode", "sampled"},
         Hand(kind, s),
         UNCHANGED <<paused, worker, queue, overflow, job, flagged, now>>,
         \/ lastSample' = lastSample /\ kind = "episode"
         \/ /\ lastSample' = [lastSample EXCEPT ![s] = now]
            /\ lastSample[s] < now /\ kind = "sampled"
  PROVE  JobsInv' /\ OrderInv' /\ FlaggedInv'
<1> DEFINE j == [kind |-> kind, slot |-> s, ts |-> now]
<1>1. j \in Job /\ now \in Int /\ handed' = Append(handed, j) /\ handed \in Seq(Job)
      /\ queue \in Seq(Job) /\ lastSample \in [Slots -> Int]
  BY DEF Job, Hand, QueueInv, TimesInv, JobsInv
<1>2. /\ handed' \in Seq(Job)
      /\ Len(handed) \in Nat /\ Len(handed') = Len(handed) + 1
      /\ \A i \in 1 .. Len(handed) : handed'[i] = handed[i]
      /\ handed'[Len(handed) + 1] = j
      /\ \A i \in 1 .. Len(handed') : i \in 1 .. Len(handed) \/ i = Len(handed) + 1
  <2> HIDE DEF j
  <2> QED
    BY <1>1, Appended
<1>3. JobsInv'
  <2>1. \A i \in 1 .. Len(handed') : handed'[i].ts <= now
    BY <1>1, <1>2 DEF QueueInv, JobsInv
  <2> QED
    BY <1>2, <2>1 DEF QueueInv, JobsInv
<1>4. \A t \in Slots : lastSample'[t] \in Int /\ lastSample[t] <= lastSample'[t]
  <2>1. CASE lastSample' = lastSample
    BY <1>1, <2>1
  <2>2. CASE lastSample' = [lastSample EXCEPT ![s] = now] /\ lastSample[s] < now
    BY <1>1, <2>2
  <2> QED
    BY <2>1, <2>2
<1> DEFINE Still(a) ==
             a.kind = "sampled" =>
               /\ a.ts <= lastSample'[a.slot]
               /\ \A id \in flagged : id.slot = a.slot => id.ts < a.ts
<1>5. ASSUME NEW a \in Job, Unreported(a)
      PROVE  Still(a)
  <2>1. a.ts \in Int /\ a.slot \in Slots
    BY DEF Job
  <2>2. lastSample[a.slot] \in Int
    BY <1>1, <2>1
  <2> QED
    BY <1>4, <1>5, <2>1, <2>2 DEF Unreported
<1>6. ASSUME NEW a \in Job, Unreported(a)
      PROVE  Before(a, j)
  <2>1. a.ts \in Int /\ a.slot \in Slots
    BY DEF Job
  <2> QED
    BY <1>1, <1>6, <2>1 DEF Unreported, Before
<1>7. Still(j)
  <2>1. ASSUME NEW id \in flagged, id.slot = s, kind = "sampled"
        PROVE  id.ts < now
    BY <1>1, <2>1 DEF QueueInv, FlaggedInv, Name
  <2>2. kind = "sampled" => lastSample'[s] = now
    BY <1>1
  <2> QED
    BY <1>1, <2>1, <2>2
<1>8. OrderInv'
  <2> USE DEF QueueInv, OrderInv
  <2>1. \A i \in 1 .. Len(handed) : handed[i] \in Job /\ Unreported(handed[i])
    BY <1>1
  <2>2. \A i \in 1 .. Len(queue) : queue[i] \in Job /\ Unreported(queue[i])
    BY <1>1
  <2>3. job # NoJob => job \in Job /\ Unreported(job)
    BY DEF JobsInv
  <2> HIDE DEF Still, j
  <2>4. \A i \in 1 .. Len(handed') : Still(handed'[i])
    BY <1>2, <1>5, <1>7, <2>1
  <2>5. /\ \A i \in 1 .. Len(queue) : Still(queue[i])
        /\ job # NoJob => Still(job)
    BY <1>5, <2>2, <2>3
  <2>6. \A i, k \in 1 .. Len(handed') : i < k => Before(handed'[i], handed'[k])
    BY <1>2, <1>6, <2>1
  <2>7. \A i \in 1 .. Len(queue), k \in 1 .. Len(handed') : Before(queue[i], handed'[k])
    BY <1>2, <1>6, <2>2
  <2>8. job # NoJob => \A k \in 1 .. Len(handed') : Before(job, handed'[k])
    BY <1>2, <1>6, <2>3
  <2> QED
    BY <2>4, <2>5, <2>6, <2>7, <2>8 DEF Before, Unreported, Still
<1>9. FlaggedInv'
  <2>1. \A id \in flagged : id.slot \in Slots /\ id.ts \in Int
    BY DEF QueueInv, FlaggedInv, Name
  <2> QED
    BY <1>1, <1>4, <2>1 DEF QueueInv, FlaggedInv
<1> QED
  BY <1>3, <1>8, <1>9

(* A sampled frame is newer than every one of its slot before it.              *)
LEMMA SampleQueue ==
  ASSUME QueueInv, NEW s \in Slots, SampleFrame(s)
  PROVE  QueueInv'
<1> USE DEF SampleFrame
<1>1. /\ now \in 0 .. ValidatorEnd /\ now' = now
      /\ lastSample \in [Slots -> Int] /\ lastSample' = [lastSample EXCEPT ![s] = now]
      /\ lastSample[s] \in Int /\ now \in Int
  BY DEF QueueInv, TimesInv
<1>2. lastSample[s] < now
  BY <1>1, ValidatorAssumption
<1>3. JobsInv' /\ OrderInv' /\ FlaggedInv'
  <2>1. UNCHANGED <<paused, worker, queue, overflow, job, flagged, now>>
    OBVIOUS
  <2>2. Hand("sampled", s)
    OBVIOUS
  <2> QED
    BY <1>1, <1>2, <2>1, <2>2, HandQueue
<1>4. TimesInv'
  <2>1. lastSample' \in [Slots -> Int]
    BY <1>1
  <2> QED
    BY <1>1, <2>1 DEF QueueInv, TimesInv
<1> QED
  BY <1>3, <1>4 DEF QueueInv

(* An episode brings the newest event of its slot.                             *)
LEMMA EpisodeQueue ==
  ASSUME QueueInv, NEW s \in Slots, EmitEpisode(s)
  PROVE  QueueInv'
<1> USE DEF EmitEpisode, MarkPrimaryEvent
<1>1. /\ now \in 0 .. ValidatorEnd /\ now' = now /\ now \in Int
      /\ lastEvent \in [Slots -> Int] /\ lastEvent' = [lastEvent EXCEPT ![s] = now]
      /\ events \subseteq Name /\ events' = events \cup {[slot |-> s, ts |-> now]}
      /\ lastSample' = lastSample
  BY DEF QueueInv, TimesInv
<1>2. JobsInv' /\ OrderInv' /\ FlaggedInv'
  <2>1. UNCHANGED <<paused, worker, queue, overflow, job, flagged, now>>
    OBVIOUS
  <2>2. Hand("episode", s)
    OBVIOUS
  <2> QED
    BY <1>1, <2>1, <2>2, HandQueue
<1>3. TimesInv'
  <2>1. lastEvent' \in [Slots -> Int] /\ events' \subseteq Name
    BY <1>1 DEF Name
  <2>2. \A e \in events : e.slot \in Slots /\ e.ts \in Int /\ e.ts <= now
                        /\ e.ts <= lastEvent[e.slot]
    BY <1>1 DEF QueueInv, TimesInv, Name
  <2>3. ASSUME NEW e \in events'
        PROVE  e.ts <= now /\ e.ts <= lastEvent'[e.slot]
    <3>1. CASE e = [slot |-> s, ts |-> now]
      <4>1. e.slot = s /\ e.ts = now
        BY <3>1
      <4>2. lastEvent'[s] = now
        BY <1>1
      <4> QED
        BY <1>1, <4>1, <4>2
    <3>2. CASE e \in events /\ e.slot = s
      BY <1>1, <2>2, <3>2
    <3>3. CASE e \in events /\ e.slot # s
      BY <1>1, <2>2, <3>3
    <3> QED
      BY <1>1, <3>1, <3>2, <3>3
  <2> QED
    BY <1>1, <2>1, <2>3 DEF QueueInv, TimesInv
<1> QED
  BY <1>2, <1>3 DEF QueueInv

(* A callback of the loop takes its job in, makes room for it or drops it.     *)
LEMMA EnqueueQueue == QueueInv /\ Enqueue => QueueInv'
<1> SUFFICES ASSUME QueueInv, Enqueue
             PROVE  QueueInv'
  OBVIOUS
<1> DEFINE j == Head(handed)
<1>1. /\ handed # <<>> /\ handed' = Tail(handed)
      /\ handed \in Seq(Job) /\ queue \in Seq(Job) /\ overflow \in Seq(Job)
      /\ UNCHANGED <<paused, worker, job, lastSample, lastEvent, events, flagged, now>>
  BY DEF Enqueue, QueueInv, JobsInv, stamps
<1>2. \/ UNCHANGED <<queue, overflow>>
      \/ Len(queue) # JobsMax /\ queue' = Append(queue, j) /\ overflow' = overflow
      \/ j.kind = "episode" /\ overflow' = Append(overflow, j) /\ queue' = queue
  BY DEF Enqueue
<1>3. /\ Len(handed) \in Nat \ {0} /\ j = handed[1] /\ j \in Job
      /\ handed' \in Seq(Job) /\ Len(handed') = Len(handed) - 1
      /\ \A i \in 1 .. Len(handed') : handed'[i] = handed[i + 1] /\ i + 1 \in 1 .. Len(handed)
  BY <1>1, HeadAndTail
<1>4. 1 \in 1 .. Len(handed) /\ j.ts <= now /\ Unreported(j)
  BY <1>3 DEF QueueInv, JobsInv, OrderInv
<1>5. /\ \A i \in 1 .. Len(handed') : handed'[i].ts <= now
      /\ \A i \in 1 .. Len(handed') : Unreported(handed'[i]) /\ Before(j, handed'[i])
      /\ \A i, k \in 1 .. Len(handed') : i < k => Before(handed'[i], handed'[k])
      /\ job # NoJob => \A k \in 1 .. Len(handed') : Before(job, handed'[k])
      /\ \A i \in 1 .. Len(queue), k \in 1 .. Len(handed') : Before(queue[i], handed'[k])
      /\ \A i \in 1 .. Len(queue) : Before(queue[i], j)
      /\ job # NoJob => Before(job, j)
  <2> USE DEF QueueInv, OrderInv
  <2>1. \A i \in 1 .. Len(handed') : handed'[i].ts <= now /\ Unreported(handed'[i])
    BY <1>3 DEF JobsInv
  <2>2. \A i \in 1 .. Len(handed') : 1 < i + 1 /\ Before(j, handed'[i])
    BY <1>3, <1>4
  <2>3. \A i, k \in 1 .. Len(handed') : i < k => i + 1 < k + 1
    BY <1>3
  <2>4. \A i, k \in 1 .. Len(handed') : i < k => Before(handed'[i], handed'[k])
    BY <1>3, <2>3
  <2>5. /\ job # NoJob => \A k \in 1 .. Len(handed') : Before(job, handed'[k])
        /\ \A i \in 1 .. Len(queue), k \in 1 .. Len(handed') : Before(queue[i], handed'[k])
    BY <1>3
  <2>6. /\ \A i \in 1 .. Len(queue) : Before(queue[i], j)
        /\ job # NoJob => Before(job, j)
    BY <1>3, <1>4
  <2> QED
    BY <2>1, <2>2, <2>4, <2>5, <2>6
<1> HIDE DEF j
<1>6. TimesInv' /\ FlaggedInv'
  BY <1>1 DEF QueueInv, TimesInv, FlaggedInv
<1>7. CASE UNCHANGED <<queue, overflow>>
  <2>1. JobsInv'
    BY <1>1, <1>3, <1>5, <1>7 DEF QueueInv, JobsInv
  <2>2. OrderInv'
    BY <1>1, <1>5, <1>7 DEF QueueInv, OrderInv, Unreported, Before
  <2> QED
    BY <1>6, <2>1, <2>2 DEF QueueInv
<1>8. CASE Len(queue) # JobsMax /\ queue' = Append(queue, j) /\ overflow' = overflow
  <2>1. /\ queue' \in Seq(Job)
        /\ Len(queue) \in Nat /\ Len(queue') = Len(queue) + 1
        /\ \A i \in 1 .. Len(queue) : queue'[i] = queue[i]
        /\ queue'[Len(queue) + 1] = j
        /\ \A i \in 1 .. Len(queue') : i \in 1 .. Len(queue) \/ i = Len(queue) + 1
    BY <1>1, <1>3, <1>8, Appended
  <2>2. JobsInv'
    <3>1. Len(queue') <= JobsMax
      BY <1>8, <2>1, ValidatorAssumption DEF QueueInv, JobsInv
    <3> QED
      BY <1>1, <1>3, <1>5, <1>8, <2>1, <3>1 DEF QueueInv, JobsInv
  <2>3. /\ \A i \in 1 .. Len(queue') : Unreported(queue'[i])
        /\ \A i, k \in 1 .. Len(queue') : i < k => Before(queue'[i], queue'[k])
        /\ \A i \in 1 .. Len(queue'), k \in 1 .. Len(handed') : Before(queue'[i], handed'[k])
        /\ job # NoJob => \A i \in 1 .. Len(queue') : Before(job, queue'[i])
    BY <1>4, <1>5, <2>1 DEF QueueInv, OrderInv
  <2>4. OrderInv'
    BY <1>1, <1>5, <2>3 DEF QueueInv, OrderInv, Unreported, Before
  <2> QED
    BY <1>6, <2>2, <2>4 DEF QueueInv
<1>9. CASE j.kind = "episode" /\ overflow' = Append(overflow, j) /\ queue' = queue
  <2>1. /\ overflow' \in Seq(Job)
        /\ \A i \in 1 .. Len(overflow) : overflow'[i] = overflow[i]
        /\ overflow'[Len(overflow) + 1] = j
        /\ \A i \in 1 .. Len(overflow') : i \in 1 .. Len(overflow) \/ i = Len(overflow) + 1
    BY <1>1, <1>3, <1>9, Appended
  <2>2. \A i \in 1 .. Len(overflow') : overflow'[i].kind = "episode" /\ overflow'[i].ts <= now
    BY <1>4, <1>9, <2>1 DEF QueueInv, JobsInv
  <2>3. JobsInv'
    BY <1>1, <1>3, <1>5, <1>9, <2>1, <2>2 DEF QueueInv, JobsInv
  <2>4. OrderInv'
    BY <1>1, <1>5, <1>9 DEF QueueInv, OrderInv, Unreported, Before
  <2> QED
    BY <1>6, <2>3, <2>4 DEF QueueInv
<1> QED
  BY <1>2, <1>7, <1>8, <1>9

(* The worker takes the head of the queue.                                     *)
LEMMA TakeQueuedKeeps ==
  ASSUME QueueInv, queue # <<>>, worker # "busy", TakeQueued,
         UNCHANGED <<paused, handed, lastSample, lastEvent, events, flagged, now>>
  PROVE  QueueInv'
<1> DEFINE j == Head(queue)
<1>1. /\ queue' = Tail(queue) /\ overflow' = overflow /\ worker' = "busy" /\ job' = j
      /\ handed \in Seq(Job) /\ queue \in Seq(Job)
  BY DEF TakeQueued, Take, QueueInv, JobsInv
<1>2. /\ Len(queue) \in Nat \ {0} /\ j = queue[1] /\ j \in Job
      /\ queue' \in Seq(Job) /\ Len(queue') = Len(queue) - 1
      /\ \A i \in 1 .. Len(queue') : queue'[i] = queue[i + 1] /\ i + 1 \in 1 .. Len(queue)
  BY <1>1, HeadAndTail
<1>3. 1 \in 1 .. Len(queue)
  BY <1>2
<1> HIDE DEF j
<1>4. JobsInv'
  <2>1. job' \in Job /\ job' # NoJob
    BY <1>1, <1>2, NoJobAssumption
  <2>2. Len(queue') <= JobsMax
    BY <1>2, ValidatorAssumption DEF QueueInv, JobsInv
  <2> QED
    BY <1>1, <1>2, <2>1, <2>2 DEF QueueInv, JobsInv
<1>5. OrderInv'
  <2> USE DEF QueueInv, OrderInv
  <2>1. Unreported(j) /\ \A i \in 1 .. Len(queue') : Unreported(queue'[i])
    BY <1>2, <1>3
  <2>2. \A i \in 1 .. Len(queue') : 1 < i + 1 /\ Before(j, queue'[i])
    BY <1>2, <1>3
  <2>3. \A i, k \in 1 .. Len(queue') : i < k => i + 1 < k + 1
    BY <1>2
  <2>4. \A i, k \in 1 .. Len(queue') : i < k => Before(queue'[i], queue'[k])
    BY <1>2, <2>3
  <2>5. \A k \in 1 .. Len(handed) :
          Before(j, handed[k]) /\ \A i \in 1 .. Len(queue') : Before(queue'[i], handed[k])
    BY <1>2, <1>3
  <2> QED
    BY <1>1, <2>1, <2>2, <2>4, <2>5 DEF Unreported, Before
<1>6. TimesInv' /\ FlaggedInv'
  BY DEF QueueInv, TimesInv, FlaggedInv
<1> QED
  BY <1>4, <1>5, <1>6 DEF QueueInv

(* It takes the head of the overflow, an episode.                              *)
LEMMA TakeOverflowKeeps ==
  ASSUME QueueInv, overflow # <<>>, worker # "busy", TakeOverflow,
         UNCHANGED <<paused, handed, lastSample, lastEvent, events, flagged, now>>
  PROVE  QueueInv'
<1> DEFINE j == Head(overflow)
<1>1. /\ overflow' = Tail(overflow) /\ queue' = queue /\ worker' = "busy" /\ job' = j
      /\ handed \in Seq(Job) /\ overflow \in Seq(Job)
  BY DEF TakeOverflow, Take, QueueInv, JobsInv
<1>2. /\ Len(overflow) \in Nat \ {0} /\ j = overflow[1] /\ j \in Job
      /\ overflow' \in Seq(Job) /\ Len(overflow') = Len(overflow) - 1
      /\ \A i \in 1 .. Len(overflow') :
           overflow'[i] = overflow[i + 1] /\ i + 1 \in 1 .. Len(overflow)
  BY <1>1, HeadAndTail
<1>3. 1 \in 1 .. Len(overflow)
  BY <1>2
<1> HIDE DEF j
<1>4. JobsInv'
  <2>1. job' \in Job /\ job' # NoJob
    BY <1>1, <1>2, NoJobAssumption
  <2>2. \A i \in 1 .. Len(overflow') : overflow'[i].kind = "episode" /\ overflow'[i].ts <= now
    BY <1>2 DEF QueueInv, JobsInv
  <2> QED
    BY <1>1, <1>2, <2>1, <2>2 DEF QueueInv, JobsInv
<1>5. OrderInv'
  <2>1. j.kind # "sampled"
    BY <1>2, <1>3 DEF QueueInv, JobsInv
  <2> QED
    BY <1>1, <2>1 DEF QueueInv, OrderInv, Unreported, Before
<1>6. TimesInv' /\ FlaggedInv'
  BY DEF QueueInv, TimesInv, FlaggedInv
<1> QED
  BY <1>4, <1>5, <1>6 DEF QueueInv

(* The worker takes the oldest job of the queue, or one of the overflow.       *)
LEMMA AskQueue == QueueInv /\ (Ask \/ Wake) => QueueInv'
<1> SUFFICES ASSUME QueueInv, Ask \/ Wake
             PROVE  QueueInv'
  OBVIOUS
<1>1. UNCHANGED <<paused, handed, lastSample, lastEvent, events, flagged, now>>
  BY DEF Ask, Wake, stamps
<1>2. worker # "busy"
  BY DEF Ask, Wake
<1>3. CASE overflow # <<>> /\ TakeOverflow
  BY <1>1, <1>2, <1>3, TakeOverflowKeeps
<1>4. CASE queue # <<>> /\ TakeQueued
  BY <1>1, <1>2, <1>4, TakeQueuedKeeps
<1>5. CASE worker' = "waiting" /\ UNCHANGED <<queue, overflow, job>>
  <2>1. JobsInv'
    <3>1. job' # NoJob <=> worker' = "busy"
      BY <1>2, <1>5 DEF QueueInv, JobsInv
    <3> QED
      BY <1>1, <1>5, <3>1 DEF QueueInv, JobsInv
  <2>2. TimesInv' /\ FlaggedInv' /\ OrderInv'
    BY <1>1, <1>5 DEF QueueInv, TimesInv, FlaggedInv, OrderInv, Unreported, Before
  <2> QED
    BY <2>1, <2>2 DEF QueueInv
<1> QED
  BY <1>3, <1>4, <1>5 DEF Ask, Wake

(* What the worker reports is newer than what was reported of the slot.        *)
LEMMA ProcessQueue == QueueInv /\ Process => QueueInv'
<1> SUFFICES ASSUME QueueInv, Process
             PROVE  QueueInv'
  OBVIOUS
<1>1. /\ worker = "busy" /\ worker' = "asking" /\ job' = NoJob
      /\ UNCHANGED <<paused, handed, queue, overflow, lastSample, lastEvent, events, now>>
  BY DEF Process, stamps
<1>2. job \in Job /\ job # NoJob /\ lastSample \in [Slots -> Int]
  BY <1>1 DEF QueueInv, JobsInv, TimesInv
<1>3. \/ flagged' = flagged
      \/ job.kind = "sampled" /\ flagged' = flagged \cup {[slot |-> job.slot, ts |-> job.ts]}
  BY DEF Process
<1>4. JobsInv'
  BY <1>1 DEF QueueInv, JobsInv
<1>5. FlaggedInv'
  <2>1. CASE flagged' = flagged
    BY <1>1, <2>1 DEF QueueInv, FlaggedInv
  <2>2. CASE /\ job.kind = "sampled"
             /\ flagged' = flagged \cup {[slot |-> job.slot, ts |-> job.ts]}
    BY <1>1, <1>2, <2>2 DEF QueueInv, FlaggedInv, OrderInv, Unreported, Job, Name
  <2> QED
    BY <1>3, <2>1, <2>2
<1>6. OrderInv'
  <2>1. ASSUME NEW a \in Job, Unreported(a), Before(job, a)
        PROVE  a.kind = "sampled" =>
                 /\ a.ts <= lastSample[a.slot]
                 /\ \A id \in flagged' : id.slot = a.slot => id.ts < a.ts
    BY <1>2, <1>3, <2>1 DEF Unreported, Before, Job
  <2>2. \A i \in 1 .. Len(handed) : handed[i] \in Job /\ Unreported(handed[i]) /\ Before(job, handed[i])
    BY <1>2 DEF QueueInv, JobsInv, OrderInv
  <2>3. \A i \in 1 .. Len(queue) : queue[i] \in Job /\ Unreported(queue[i]) /\ Before(job, queue[i])
    BY <1>2 DEF QueueInv, JobsInv, OrderInv
  <2>4. /\ \A i \in 1 .. Len(handed) : Unreported(handed[i])'
        /\ \A i \in 1 .. Len(queue) : Unreported(queue[i])'
    BY <1>1, <2>1, <2>2, <2>3 DEF Unreported
  <2> QED
    BY <1>1, <2>4 DEF QueueInv, OrderInv, Before
<1>7. TimesInv'
  BY <1>1 DEF QueueInv, TimesInv
<1> QED
  BY <1>4, <1>5, <1>6, <1>7 DEF QueueInv
-----------------------------------------------------------------------------
(* Every step of the validator keeps the order of its jobs.                    *)
LEMMA NextQueue == QueueInv /\ [ValidatorNext]_<<validatorVars, now>> => QueueInv'
<1> SUFFICES ASSUME QueueInv, [ValidatorNext]_<<validatorVars, now>>
             PROVE  QueueInv'
  OBVIOUS
<1>1. CASE ValidatorTick
  BY <1>1, TickQueue
<1>2. CASE SetPaused \/ LoadModel \/ Sweep
  BY <1>2, AsideQueue
<1>3. CASE Enqueue
  BY <1>3, EnqueueQueue
<1>4. CASE Ask \/ Wake
  BY <1>4, AskQueue
<1>5. CASE Process
  BY <1>5, ProcessQueue
<1>6. ASSUME NEW s \in Slots, SampleFrame(s)
      PROVE  QueueInv'
  BY <1>6, SampleQueue
<1>7. ASSUME NEW s \in Slots, EmitEpisode(s)
      PROVE  QueueInv'
  BY <1>7, EpisodeQueue
<1>8. CASE UNCHANGED <<validatorVars, now>>
  BY <1>8 DEF validatorVars, jobs, stamps, QueueInv, TimesInv, JobsInv, OrderInv, FlaggedInv,
              Unreported, Before
<1> QED
  BY <1>1, <1>2, <1>3, <1>4, <1>5, <1>6, <1>7, <1>8 DEF ValidatorNext

(* Samples wait in the order they were taken, behind what was reported.        *)
LEMMA QueueKept == ValidatorSpec => []QueueInv
BY InitQueue, NextQueue, PTL DEF ValidatorSpec

(* Rule B compares a frame with the newest event of its slot only; every older *)
(* event is older still, so no frame with an event within the window before it *)
(* is reported, however long the job waited and whatever came meanwhile.       *)
THEOREM QuietFrames == ValidatorSpec => MissedFramesAreQuiet
<1>1. ASSUME QueueInv, [ValidatorNext]_<<validatorVars, now>>,
             NEW id \in flagged' \ flagged, NEW e \in events, e.slot = id.slot
      PROVE  id.ts - e.ts >= Window
  <2>1. Process
    BY <1>1 DEF ValidatorNext, validatorVars, ValidatorTick, SetPaused, Enqueue, LoadModel,
                Ask, Wake, Sweep, SampleFrame, EmitEpisode
  <2>2. /\ job \in Job /\ id = [slot |-> job.slot, ts |-> job.ts] /\ ~Recently(job)
    BY <1>1, <2>1 DEF Process, CheckFalseNegative, QueueInv, JobsInv
  <2>3. id.slot = job.slot /\ id.ts = job.ts /\ job.slot \in Slots /\ job.ts \in Int
    BY <2>2 DEF Job
  <2>4. e.ts \in Int /\ e.ts <= lastEvent[e.slot] /\ lastEvent[job.slot] \in Int
    BY <1>1, <2>3 DEF QueueInv, TimesInv, Name
  <2> QED
    BY <1>1, <2>2, <2>3, <2>4, ValidatorAssumption DEF Recently
<1>2. QueueInv /\ [ValidatorNext]_<<validatorVars, now>>
      => [\A id \in flagged' \ flagged : \A e \in events :
            e.slot = id.slot => id.ts - e.ts >= Window]_validatorVars
  BY <1>1
<1> QED
  BY <1>2, QueueKept, PTL DEF ValidatorSpec, MissedFramesAreQuiet
-----------------------------------------------------------------------------
(* A number of at least one is the larger of the two.                          *)
LEMMA LargerThanOne ==
  ASSUME NEW m \in Int, m >= 1
  PROVE  Max({1, m}) = m
<1>1. \A x \in {1, m} : m >= x
  OBVIOUS
<1>2. \A y \in {1, m} : (\A x \in {1, m} : y >= x) => y = m
  OBVIOUS
<1> QED
  BY <1>1, <1>2 DEF Max

(* A quarter is no more than the whole.                                        *)
LEMMA Quarter ==
  ASSUME NEW n \in Nat
  PROVE  n \div 4 \in 0 .. n
OBVIOUS

(* What the lines of a file yield.                                             *)
LEMMA IdsOfLines ==
  ASSUME NEW lines \in Seq(SUBSET Name)
  PROVE  /\ Len(lines) \in Nat /\ DOMAIN lines = 1 .. Len(lines)
         /\ Ids(lines) \subseteq Name
         /\ \A i \in 1 .. Len(lines) : lines[i] \subseteq Ids(lines)
         /\ \A x \in Ids(lines) : \E i \in 1 .. Len(lines) : x \in lines[i]
<1>1. Len(lines) \in Nat /\ DOMAIN lines = 1 .. Len(lines)
  OBVIOUS
<1>2. ToSet(lines) = {lines[i] : i \in 1 .. Len(lines)}
  BY <1>1 DEF ToSet
<1>3. \A i \in 1 .. Len(lines) : lines[i] \in SUBSET Name
  BY <1>1
<1> QED
  BY <1>1, <1>2, <1>3 DEF Ids

(* Lines that yield at most what the lines at their places in a file do.       *)
LEMMA FewerIds ==
  ASSUME NEW lines \in Seq(SUBSET Name), PicturesApart(lines),
         NEW few \in Seq(SUBSET Name), NEW d \in Nat, Len(few) + d <= Len(lines),
         \A i \in 1 .. Len(few) : few[i] \subseteq lines[i + d]
  PROVE  PicturesApart(few) /\ Ids(few) \subseteq Ids(lines)
<1>1. Len(few) \in Nat /\ Len(lines) \in Nat
  OBVIOUS
<1>2. \A i \in 1 .. Len(few) : i + d \in 1 .. Len(lines)
  BY <1>1
<1>3. PicturesApart(few)
  <2>1. SUFFICES ASSUME NEW i \in 1 .. Len(few), NEW k \in 1 .. Len(few), i # k
                 PROVE  few[i] \cap few[k] = {}
    BY DEF PicturesApart
  <2>2. lines[i + d] \cap lines[k + d] = {}
    BY <1>1, <1>2, <2>1 DEF PicturesApart
  <2> QED
    BY <2>2
<1>4. Ids(few) \subseteq Ids(lines)
  BY <1>2, IdsOfLines
<1> QED
  BY <1>3, <1>4

(* A write leaves some of its lines, or the last of them spoilt.               *)
LEMMA WrittenKeeps ==
  ASSUME NEW lines \in Seq(SUBSET Name), PicturesApart(lines), NEW w \in Written(lines)
  PROVE  /\ w \in [lines : Seq(SUBSET Name), ended : BOOLEAN]
         /\ w.ended \/ w.lines # <<>>
         /\ PicturesApart(w.lines) /\ Ids(w.lines) \subseteq Ids(lines)
<1>1. CASE w = [lines |-> lines, ended |-> TRUE]
  BY <1>1
<1>2. CASE w # [lines |-> lines, ended |-> TRUE]
  <2>1. PICK k \in 0 .. Len(lines) - 1 :
          \/ w = [lines |-> SubSeq(lines, 1, k), ended |-> TRUE]
          \/ w = [lines |-> Append(SubSeq(lines, 1, k), {}), ended |-> FALSE]
          \/ w = [lines |-> SubSeq(lines, 1, k + 1), ended |-> FALSE]
    BY <1>2 DEF Written
  <2>2. Len(lines) \in Nat /\ k \in Nat /\ k + 1 <= Len(lines)
    OBVIOUS
  <2>3. CASE w = [lines |-> SubSeq(lines, 1, k), ended |-> TRUE]
    <3> DEFINE few == SubSeq(lines, 1, k)
    <3>1. few \in Seq(SUBSET Name) /\ Len(few) = k /\ \A i \in 1 .. k : few[i] = lines[i + 0]
      BY <2>2
    <3> HIDE DEF few
    <3>2. PicturesApart(few) /\ Ids(few) \subseteq Ids(lines)
      BY <2>2, <3>1, FewerIds
    <3>3. w = [lines |-> few, ended |-> TRUE]
      BY <2>3 DEF few
    <3> QED
      BY <3>1, <3>2, <3>3
  <2>4. CASE w = [lines |-> Append(SubSeq(lines, 1, k), {}), ended |-> FALSE]
    <3> DEFINE few == Append(SubSeq(lines, 1, k), {})
    <3>1. SubSeq(lines, 1, k) \in Seq(SUBSET Name) /\ Len(SubSeq(lines, 1, k)) = k
          /\ \A i \in 1 .. k : SubSeq(lines, 1, k)[i] = lines[i]
      BY <2>2
    <3>2. few \in Seq(SUBSET Name) /\ Len(few) = k + 1 /\ few[k + 1] = {}
          /\ \A i \in 1 .. k : few[i] = lines[i]
      <4> DEFINE s == SubSeq(lines, 1, k)
      <4> HIDE DEF s
      <4>1. s \in Seq(SUBSET Name) /\ Len(s) = k /\ few = Append(s, {}) /\ {} \in SUBSET Name
        BY <3>1 DEF s
      <4>2. \A i \in 1 .. k : s[i] = lines[i]
        BY <3>1 DEF s
      <4> HIDE DEF few
      <4> QED
        BY <2>2, <4>1, <4>2, Appended
    <3> HIDE DEF few
    <3>3. \A i \in 1 .. Len(few) : few[i] \subseteq lines[i + 0]
      BY <2>2, <3>2
    <3>4. PicturesApart(few) /\ Ids(few) \subseteq Ids(lines) /\ few # <<>>
      BY <2>2, <3>2, <3>3, FewerIds
    <3>5. w = [lines |-> few, ended |-> FALSE]
      BY <2>4 DEF few
    <3> QED
      BY <3>2, <3>4, <3>5
  <2>5. CASE w = [lines |-> SubSeq(lines, 1, k + 1), ended |-> FALSE]
    <3> DEFINE few == SubSeq(lines, 1, k + 1)
    <3>1. /\ few \in Seq(SUBSET Name) /\ Len(few) = k + 1
          /\ \A i \in 1 .. k + 1 : few[i] = lines[i + 0]
      BY <2>2
    <3> HIDE DEF few
    <3>2. Len(few) + 0 <= Len(lines) /\ \A i \in 1 .. Len(few) : few[i] \subseteq lines[i + 0]
      BY <2>2, <3>1
    <3>4. PicturesApart(few) /\ Ids(few) \subseteq Ids(lines)
      BY <3>1, <3>2, FewerIds
    <3>5. few # <<>>
      BY <2>2, <3>1
    <3>3. w = [lines |-> few, ended |-> FALSE]
      BY <2>5 DEF few
    <3> QED
      BY <3>1, <3>3, <3>4, <3>5
  <2> QED
    BY <2>1, <2>3, <2>4, <2>5
<1> QED
  BY <1>1, <1>2

(* Of one line a write leaves nothing, a spoilt line or the line.              *)
LEMMA WrittenOne ==
  ASSUME NEW x \in Name, NEW w \in Written(<<{x}>>)
  PROVE  /\ w.ended \in BOOLEAN
         /\ \/ w.lines = <<>> /\ w.ended
            \/ \E y \in {{}, {x}} : w.lines = <<y>>
<1>1. CASE w = [lines |-> <<{x}>>, ended |-> TRUE]
  BY <1>1
<1>2. CASE w # [lines |-> <<{x}>>, ended |-> TRUE]
  <2> DEFINE one == <<{x}>>
  <2>1. Len(one) = 1 /\ SubSeq(one, 1, 0) = <<>> /\ SubSeq(one, 1, 1) = <<{x}>>
        /\ Append(SubSeq(one, 1, 0), {}) = <<{}>>
    <3>1. one \in Seq(SUBSET Name) /\ Len(one) = 1 /\ one[1] = {x}
      OBVIOUS
    <3> HIDE DEF one
    <3>2. SubSeq(one, 1, 0) \in Seq(SUBSET Name) /\ Len(SubSeq(one, 1, 0)) = 0
      BY <3>1
    <3>3. SubSeq(one, 1, 0) = <<>>
      BY <3>2
    <3>4. /\ SubSeq(one, 1, 1) \in Seq(SUBSET Name)
          /\ Len(SubSeq(one, 1, 1)) = 1 /\ SubSeq(one, 1, 1)[1] = {x}
      BY <3>1
    <3>5. SubSeq(one, 1, 1) = one
      <4> DEFINE s == SubSeq(one, 1, 1)
      <4>1. s \in Seq(SUBSET Name) /\ Len(s) = 1 /\ s[1] = one[1]
        BY <3>1, <3>4
      <4> HIDE DEF s
      <4> QED
        BY <3>1, <4>1
    <3>6. Append(<<>>, {}) = <<{}>>
      OBVIOUS
    <3> QED
      BY <3>1, <3>3, <3>5, <3>6 DEF one
  <2>2. w \in Written(one) /\ w # [lines |-> one, ended |-> TRUE]
    BY <1>2
  <2> HIDE DEF one
  <2>3. PICK k \in 0 .. Len(one) - 1 :
          \/ w = [lines |-> SubSeq(one, 1, k), ended |-> TRUE]
          \/ w = [lines |-> Append(SubSeq(one, 1, k), {}), ended |-> FALSE]
          \/ w = [lines |-> SubSeq(one, 1, k + 1), ended |-> FALSE]
    BY <2>2 DEF Written
  <2>4. k = 0
    BY <2>1
  <2>5. one = <<{x}>> /\ SubSeq(one, 1, k) = <<>> /\ SubSeq(one, 1, k + 1) = <<{x}>>
        /\ Append(SubSeq(one, 1, k), {}) = <<{}>>
    BY <2>1, <2>4 DEF one
  <2>6. CASE w = [lines |-> <<>>, ended |-> TRUE]
    BY <2>6
  <2>7. CASE w = [lines |-> <<{}>>, ended |-> FALSE]
    BY <2>7
  <2>8. CASE w = [lines |-> <<{x}>>, ended |-> FALSE]
    BY <2>8
  <2> QED
    BY <2>3, <2>5, <2>6, <2>7, <2>8
<1> QED
  BY <1>1, <1>2

(* A file to which a line of a new id was appended, one way or another.        *)
LEMMA AttachKeeps ==
  ASSUME NEW f \in [lines : Seq(SUBSET Name), ended : BOOLEAN],
         f.ended \/ f.lines # <<>>, PicturesApart(f.lines),
         NEW x \in Name, x \notin Ids(f.lines), NEW w \in Written(<<{x}>>)
  PROVE  LET g == Attach(f, w)
         IN /\ g \in [lines : Seq(SUBSET Name), ended : BOOLEAN]
            /\ g.ended \/ g.lines # <<>>
            /\ PicturesApart(g.lines) /\ Ids(g.lines) \subseteq Ids(f.lines) \cup {x}
<1> DEFINE g == Attach(f, w)
           s == f.lines
           n == Len(s)
<1>1. s \in Seq(SUBSET Name) /\ n \in Nat /\ f.ended \in BOOLEAN
  OBVIOUS
<1>2. CASE w.lines = <<>> /\ w.ended
  <2>1. s \o <<>> = s
    BY <1>1
  <2>2. g = [lines |-> s, ended |-> f.ended]
    BY <1>1, <1>2, <2>1 DEF Attach
  <2> QED
    BY <1>1, <2>2
<1>3. ASSUME NEW y \in {{}, {x}}, w.lines = <<y>>
      PROVE  /\ g \in [lines : Seq(SUBSET Name), ended : BOOLEAN]
             /\ g.ended \/ g.lines # <<>>
             /\ PicturesApart(g.lines) /\ Ids(g.lines) \subseteq Ids(s) \cup {x}
  <2>1. w.ended \in BOOLEAN /\ y \in SUBSET Name /\ y \subseteq {x}
    BY WrittenOne
  <2>2. \A i \in 1 .. n : s[i] \subseteq Ids(s) /\ s[i] \in SUBSET Name
    BY <1>1, IdsOfLines
  <2>3. CASE f.ended
    <3> DEFINE u == Append(s, y)
    <3>1. s \o <<y>> = u
      BY <1>1, <2>1
    <3>2. g = [lines |-> u, ended |-> w.ended]
      BY <1>3, <2>1, <2>3, <3>1 DEF Attach
    <3>3. /\ u \in Seq(SUBSET Name) /\ Len(u) = n + 1 /\ u[n + 1] = y
          /\ \A i \in 1 .. n : u[i] = s[i]
          /\ \A i \in 1 .. Len(u) : i \in 1 .. n \/ i = n + 1
      BY <1>1, <2>1, Appended
    <3> HIDE DEF u, g
    <3>4. PicturesApart(u)
      BY <1>1, <2>1, <2>2, <3>3 DEF PicturesApart
    <3>5. Ids(u) \subseteq Ids(s) \cup {x}
      <4>1. ASSUME NEW z \in Ids(u)
            PROVE  z \in Ids(s) \cup {x}
        <5>1. PICK i \in 1 .. Len(u) : z \in u[i]
          BY <3>3, IdsOfLines
        <5> QED
          BY <2>1, <2>2, <3>3, <5>1
      <4> QED
        BY <4>1
    <3>6. u # <<>>
      BY <1>1, <3>3
    <3> QED
      BY <2>1, <3>2, <3>3, <3>4, <3>5, <3>6
  <2>4. CASE ~f.ended
    <3> DEFINE u == [s EXCEPT ![n] = {}]
    <3>1. s # <<>> /\ n \in 1 .. n
      BY <1>1, <2>4
    <3>2. g = [lines |-> u, ended |-> w.ended]
      <4>1. w.lines # <<>> /\ Tail(w.lines) = <<>>
        BY <1>3
      <4>2. u \in Seq(SUBSET Name)
        BY <1>1, <3>1
      <4>3. u \o <<>> = u
        BY <4>2
      <4> QED
        BY <2>4, <4>1, <4>3 DEF Attach
    <3>3. u \in Seq(SUBSET Name) /\ Len(u) = n /\ \A i \in 1 .. n : u[i] \subseteq s[i + 0]
      BY <1>1, <3>1
    <3> HIDE DEF u, g
    <3>4. PicturesApart(u) /\ Ids(u) \subseteq Ids(s)
      <4>1. Len(u) + 0 <= Len(s) /\ \A i \in 1 .. Len(u) : u[i] \subseteq s[i + 0]
        BY <1>1, <3>3
      <4> HIDE DEF s
      <4>2. PicturesApart(s)
        BY DEF s
      <4> QED
        BY <1>1, <3>3, <4>1, <4>2, FewerIds
    <3>5. u # <<>>
      BY <1>1, <3>1, <3>3
    <3> QED
      BY <2>1, <3>2, <3>3, <3>4, <3>5
  <2> QED
    BY <1>1, <2>3, <2>4
<1> QED
  BY <1>2, <1>3, WrittenOne

(* Rotation cuts the lines in two, and what it drops it does not keep.         *)
LEMMA RotationCuts ==
  ASSUME NEW lines \in Seq(SUBSET Name), PicturesApart(lines), Surplus(lines) > 0
  PROVE  LET r == Rotated(lines)
         IN /\ r.keep \in Seq(SUBSET Name) /\ PicturesApart(r.keep)
            /\ Ids(lines) = Ids(r.drop) \cup Ids(r.keep)
            /\ Ids(r.drop) \cap Ids(r.keep) = {}
<1> DEFINE n == Cut(lines)
           drop == SubSeq(lines, 1, n)
           keep == SubSeq(lines, n + 1, Len(lines))
<1>1. Len(lines) \in Nat /\ Cap \in Nat \ {0}
  BY ShadowAssumption
<1>2. n \in 1 .. Len(lines)
  <2>1. Surplus(lines) = Len(lines) - Cap /\ Surplus(lines) \in Int
    BY <1>1 DEF Surplus
  <2>2. Cap \div 4 \in 0 .. Cap
    BY <1>1, Quarter
  <2> DEFINE m == Surplus(lines) + Cap \div 4
  <2>3. m \in 1 .. Len(lines)
    BY <1>1, <2>1, <2>2
  <2>4. n = Max({1, m})
    BY DEF Cut
  <2> HIDE DEF m, n
  <2>5. m \in Int /\ m >= 1
    BY <1>1, <2>3
  <2>6. Max({1, m}) = m
    BY <2>5, LargerThanOne
  <2> QED
    BY <2>3, <2>4, <2>6
<1>3. Rotated(lines) = [drop |-> drop, keep |-> keep]
  BY DEF Rotated
<1> HIDE DEF n
<1>4. /\ drop \in Seq(SUBSET Name) /\ keep \in Seq(SUBSET Name)
      /\ Len(drop) = n /\ \A i \in 1 .. n : drop[i] = lines[i + 0]
      /\ Len(keep) = Len(lines) - n /\ \A i \in 1 .. Len(keep) : keep[i] = lines[i + n]
  <2>1. drop \in Seq(SUBSET Name) /\ Len(drop) = n /\ \A i \in 1 .. n : drop[i] = lines[i]
    BY <1>1, <1>2
  <2>2. /\ keep \in Seq(SUBSET Name) /\ Len(keep) = Len(lines) - n
        /\ \A i \in 1 .. Len(keep) : keep[i] = lines[n + i]
    BY <1>1, <1>2
  <2>3. n \in Nat /\ Len(keep) \in Nat
    BY <1>1, <1>2, <2>2
  <2> HIDE DEF drop, keep
  <2>4. \A i \in 1 .. n : i + 0 = i
    BY <2>3
  <2>5. \A i \in 1 .. Len(keep) : n + i = i + n
    BY <2>3
  <2> QED
    BY <2>1, <2>2, <2>4, <2>5
<1> HIDE DEF drop, keep
<1>5. PicturesApart(keep) /\ Ids(keep) \subseteq Ids(lines) /\ Ids(drop) \subseteq Ids(lines)
  <2>1. n \in Nat /\ Len(keep) + n <= Len(lines) /\ Len(drop) + 0 <= Len(lines)
    BY <1>1, <1>2, <1>4
  <2>2. PicturesApart(keep) /\ Ids(keep) \subseteq Ids(lines)
    BY <1>4, <2>1, FewerIds
  <2>3. Ids(drop) \subseteq Ids(lines)
    BY <1>4, <2>1, FewerIds
  <2> QED
    BY <2>2, <2>3
<1>6. Ids(lines) \subseteq Ids(drop) \cup Ids(keep)
  <2>1. SUFFICES ASSUME NEW x \in Ids(lines)
                 PROVE  x \in Ids(drop) \cup Ids(keep)
    OBVIOUS
  <2>2. PICK i \in 1 .. Len(lines) : x \in lines[i]
    BY IdsOfLines
  <2>3. CASE i <= n
    <3>1. i \in 1 .. n /\ i + 0 = i
      BY <1>2, <2>3
    <3>2. i \in 1 .. Len(drop) /\ drop[i] = lines[i]
      BY <1>4, <3>1
    <3> QED
      BY <1>4, <2>2, <3>2, IdsOfLines
  <2>4. CASE ~(i <= n)
    <3>1. i - n \in 1 .. Len(keep) /\ (i - n) + n = i
      BY <1>1, <1>2, <1>4, <2>4
    <3>2. keep[i - n] = lines[i]
      BY <1>4, <3>1
    <3> QED
      BY <1>4, <2>2, <3>1, <3>2, IdsOfLines
  <2> QED
    BY <2>3, <2>4
<1>7. Ids(drop) \cap Ids(keep) = {}
  <2>1. SUFFICES ASSUME NEW x \in Ids(drop), x \in Ids(keep)
                 PROVE  FALSE
    OBVIOUS
  <2>2. PICK i \in 1 .. Len(drop) : x \in drop[i]
    BY <1>4, IdsOfLines
  <2>3. PICK k \in 1 .. Len(keep) : x \in keep[k]
    BY <1>4, <2>1, IdsOfLines
  <2>4. i \in 1 .. Len(lines) /\ k + n \in 1 .. Len(lines) /\ i # k + n /\ i + 0 = i
    BY <1>1, <1>2, <1>4
  <2>5. drop[i] = lines[i] /\ keep[k] = lines[k + n]
    BY <1>4, <2>4
  <2> QED
    BY <2>2, <2>3, <2>4, <2>5 DEF PicturesApart
<1> QED
  BY <1>3, <1>4, <1>5, <1>6, <1>7

(* A frame that was never reported is saved, in each of the ways it may fail.  *)
LEMMA SavingKeeps ==
  ASSUME StoreInv, NEW id \in Name, id \notin flagged, flagged' = flagged \cup {id},
         Save(id)
  PROVE  StoreInv'
<1> USE DEF StoreInv
<1>1. CASE UNCHANGED shadowVars
  BY <1>1 DEF shadowVars, Listed
<1>2. CASE ~UNCHANGED shadowVars
  <2> DEFINE File(w) == Attach(records, w)
             Faults(p, w) == ({id} \ p) \cup ((Listed \cup {id}) \ Ids(File(w).lines))
  <2>1. PICK p \in SUBSET {id}, w \in Written(<<{id}>>) :
          \/ /\ records' = File(w) /\ pictures' = pictures \cup p
             /\ excused' = excused \cup Faults(p, w)
          \/ Rotate(File(w), pictures \cup p, Faults(p, w))
    BY <1>2 DEF Save
  <2> DEFINE disk == File(w)
             seen == pictures \cup p
             faults == Faults(p, w)
  <2>2. /\ disk \in [lines : Seq(SUBSET Name), ended : BOOLEAN]
        /\ disk.ended \/ disk.lines # <<>>
        /\ PicturesApart(disk.lines) /\ Ids(disk.lines) \subseteq Listed \cup {id}
    BY AttachKeeps DEF Listed
  <2>3. faults = ({id} \ p) \cup ((Listed \cup {id}) \ Ids(disk.lines))
    OBVIOUS
  <2>4. Listed' = Ids(records'.lines)
    BY DEF Listed
  <2> HIDE DEF File, Faults, disk, faults
  <2>5. CASE records' = disk /\ pictures' = seen /\ excused' = excused \cup faults
    BY <2>2, <2>3, <2>4, <2>5
  <2>6. CASE Rotate(disk, seen, faults)
    <3> DEFINE r == Rotated(disk.lines)
               gone == Ids(r.drop)
    <3>1. /\ r.keep \in Seq(SUBSET Name) /\ PicturesApart(r.keep)
          /\ Ids(disk.lines) = gone \cup Ids(r.keep)
          /\ gone \cap Ids(r.keep) = {}
      BY <2>2, <2>6, RotationCuts DEF Rotate
    <3>2. PICK stuck \in SUBSET gone :
            /\ pictures' = seen \ (gone \ stuck)
            /\ \/ records' = disk /\ excused' = excused \cup faults \cup gone
               \/ \E new \in Written(r.keep) :
                    /\ records' = new
                    /\ excused' = excused \cup faults \cup stuck
                                    \cup (Ids(r.keep) \ Ids(new.lines))
      BY <2>6 DEF Rotate
    <3> HIDE DEF r, gone
    <3>3. CASE records' = disk /\ excused' = excused \cup faults \cup gone
      BY <2>2, <2>3, <2>4, <3>1, <3>2, <3>3
    <3>4. ASSUME NEW new \in Written(r.keep), records' = new,
                 excused' = excused \cup faults \cup stuck \cup (Ids(r.keep) \ Ids(new.lines))
          PROVE  StoreInv'
      <4>1. /\ new \in [lines : Seq(SUBSET Name), ended : BOOLEAN]
            /\ new.ended \/ new.lines # <<>>
            /\ PicturesApart(new.lines) /\ Ids(new.lines) \subseteq Ids(r.keep)
        BY <3>1, WrittenKeeps
      <4> QED
        BY <2>2, <2>3, <2>4, <3>1, <3>2, <3>4, <4>1
    <3> QED
      BY <3>2, <3>3, <3>4
  <2> QED
    BY <2>1, <2>5, <2>6 DEF disk, faults
<1> QED
  BY <1>1, <1>2

(* The shadow store starts empty.                                              *)
LEMMA InitStore == ValidatorInit => StoreInv
<1> SUFFICES ASSUME ValidatorInit
             PROVE  StoreInv
  OBVIOUS
<1>1. records = [lines |-> <<>>, ended |-> TRUE] /\ pictures = {}
  BY DEF ValidatorInit, ShadowInit
<1>2. records.lines = <<>> /\ records.lines \in Seq(SUBSET Name) /\ Len(records.lines) = 0
  BY <1>1
<1>3. Listed = {}
  <2>1. SUFFICES ASSUME NEW x \in Listed
                 PROVE  FALSE
    OBVIOUS
  <2>2. \E i \in 1 .. Len(records.lines) : x \in records.lines[i]
    BY <1>2, IdsOfLines DEF Listed
  <2> QED
    BY <1>2, <2>2
<1>4. PicturesApart(records.lines)
  BY <1>2 DEF PicturesApart
<1> QED
  BY <1>1, <1>2, <1>3, <1>4 DEF StoreInv

(* Every step of the validator keeps pictures and records together.            *)
LEMMA NextStore ==
  QueueInv /\ StoreInv /\ [ValidatorNext]_<<validatorVars, now>> => StoreInv'
<1> SUFFICES ASSUME QueueInv, StoreInv, [ValidatorNext]_<<validatorVars, now>>
             PROVE  StoreInv'
  OBVIOUS
<1>1. CASE Process
  <2> DEFINE id == [slot |-> job.slot, ts |-> job.ts]
  <2>1. CASE UNCHANGED <<flagged, shadowVars>>
    BY <2>1 DEF shadowVars, StoreInv, Listed
  <2>2. CASE /\ job.kind = "sampled" /\ flagged' = flagged \cup {id}
             /\ Save(id)
    <3>1. job \in Job /\ Unreported(job)
      BY <1>1 DEF Process, QueueInv, JobsInv, OrderInv
    <3>2. id \in Name /\ id.slot = job.slot /\ id.ts = job.ts /\ job.ts \in Int
      BY <3>1 DEF Job, Name
    <3>3. id \notin flagged
      BY <2>2, <3>1, <3>2 DEF Unreported
    <3> HIDE DEF id
    <3> QED
      BY <2>2, <3>2, <3>3, SavingKeeps
  <2> QED
    BY <1>1, <2>1, <2>2 DEF Process
<1>2. CASE Sweep
  <2>1. PICK id \in pictures : SweepPicture(id)
    BY <1>2 DEF Sweep
  <2> QED
    BY <1>2, <2>1 DEF Sweep, SweepPicture, StoreInv, Listed
<1>3. CASE UNCHANGED <<flagged, shadowVars>>
  BY <1>3 DEF shadowVars, StoreInv, Listed
<1> QED
  BY <1>1, <1>2, <1>3 DEF ValidatorNext, validatorVars, ValidatorTick, SetPaused, Enqueue,
     LoadModel, Ask, Wake, SampleFrame, EmitEpisode

(* Pictures and records are one set but for what the disk refused or the       *)
(* retention took.  That rotation, which removes the pictures of the lines it  *)
(* drops by name, takes no other line's rests on names being distinct, and     *)
(* this on the order in which samples go through the queue.                    *)
THEOREM PicturesKept == ValidatorSpec => []PicturesMatchRecords
<1>1. StoreInv => PicturesMatchRecords
  BY DEF StoreInv, PicturesMatchRecords, Load
<1> QED
  BY <1>1, InitStore, NextStore, QueueKept, PTL DEF ValidatorSpec

(* What the invariants of the queue and of the store say of the variables.     *)
LEMMA ValidatorHolds == QueueInv /\ StoreInv => ValidatorTypeOK
<1> SUFFICES ASSUME QueueInv, StoreInv
             PROVE  ValidatorTypeOK
  OBVIOUS
<1>1. overflow \in Seq([kind : {"episode"}, slot : Slots, ts : 0 .. now])
  <2>1. \A i \in 1 .. Len(overflow) : overflow[i] \in [kind : {"episode"}, slot : Slots, ts : 0 .. now]
    <3>1. \A i \in 1 .. Len(overflow) : /\ overflow[i] \in Job
                                        /\ overflow[i].kind = "episode"
                                        /\ overflow[i].ts <= now
      BY DEF QueueInv, JobsInv
    <3>2. now \in Int
      BY DEF QueueInv, TimesInv
    <3>3. ASSUME NEW j \in Job, j.kind = "episode", j.ts <= now
          PROVE  j \in [kind : {"episode"}, slot : Slots, ts : 0 .. now]
      BY <3>2, <3>3 DEF Job
    <3> QED
      BY <3>1, <3>3
  <2>2. overflow \in Seq(Job)
    BY DEF QueueInv, JobsInv
  <2> QED
    BY <2>1, <2>2, ElementsOf
<1>2. records \in [lines : Seq(SUBSET flagged), ended : BOOLEAN]
  <2>1. records.lines \in Seq(SUBSET Name) /\ records = [lines |-> records.lines, ended |-> records.ended]
        /\ records.ended \in BOOLEAN
    BY DEF StoreInv
  <2>2. \A i \in 1 .. Len(records.lines) : records.lines[i] \in SUBSET flagged
    BY <2>1, IdsOfLines DEF StoreInv, Listed
  <2>3. records.lines \in Seq(SUBSET flagged)
    BY <2>1, <2>2, ElementsOf
  <2> QED
    BY <2>1, <2>3
<1> QED
  BY <1>1, <1>2 DEF ValidatorTypeOK, QueueInv, JobsInv, StoreInv

(* ValidatorTypeOK: jobs, queue and store keep their types, and the picture or *)
(* record of no frame exists that was not reported, whatever the sizes of      *)
(* queue and file.                                                             *)
THEOREM ValidatorTypeCorrect == ValidatorSpec => []ValidatorTypeOK
BY ValidatorHolds, InitStore, NextStore, QueueKept, PTL DEF ValidatorSpec
-----------------------------------------------------------------------------
(* No job that was taken in is lost, and the episodes go first.                *)

(* Where a job stands among those enqueue() took.                              *)
Turn == [j \in Range(accepted) |-> CHOOSE i \in DOMAIN accepted : accepted[i] = j]

InTurn(s) == \A i, k \in 1 .. Len(s) : i < k => Turn[s[i]] < Turn[s[k]]

(* A job is handed over once and taken in at most once.                        *)
OnceInv ==
  /\ accepted \in Seq(Job) /\ Distinct(accepted) /\ Distinct(handed)
  /\ Range(handed) \cap Range(accepted) = {}
  /\ \A j \in Range(handed) \cup Range(accepted) :
       IF j.kind = "sampled" THEN j.ts <= lastSample[j.slot]
                             ELSE [slot |-> j.slot, ts |-> j.ts] \in events

(* A job that was taken in waits in one place or was taken by the worker, and  *)
(* the two queues keep the order.                                              *)
WaitingInv ==
  /\ Range(accepted) = taken \cup Range(queue) \cup Range(overflow)
  /\ taken \cap Range(queue) = {} /\ taken \cap Range(overflow) = {}
  /\ Range(queue) \cap Range(overflow) = {}
  /\ InTurn(queue) /\ InTurn(overflow)
  /\ IsFiniteSet(taken)
  /\ Len(accepted) = Cardinality(taken) + Len(queue) + Len(overflow)

(* While the worker waits the overflow holds only what came after the queue    *)
(* had filled.                                                                 *)
SpilledLater ==
  worker = "waiting" =>
    /\ overflow # <<>> => Len(queue) = JobsMax
    /\ \A a \in Range(queue), b \in Range(overflow) : Turn[a] < Turn[b]

EpisodesFirst ==
  \A i, k \in 1 .. Len(accepted) :
    i < k /\ accepted[i].kind = "episode" /\ accepted[k] \in taken
    => accepted[k].kind = "episode" \/ accepted[i] \in taken

AcceptedInv == OnceInv /\ WaitingInv /\ SpilledLater /\ EpisodesFirst

(* The turns of the jobs that were taken in are their places.                  *)
LEMMA TurnPlaces ==
  ASSUME OnceInv
  PROVE  /\ Len(accepted) \in Nat
         /\ \A j \in Range(accepted) : Turn[j] \in 1 .. Len(accepted) /\ accepted[Turn[j]] = j
         /\ \A i \in 1 .. Len(accepted) : accepted[i] \in Range(accepted) /\ Turn[accepted[i]] = i
<1>1. accepted \in Seq(Job) /\ \A i, k \in DOMAIN accepted : i # k => accepted[i] # accepted[k]
  BY DEF OnceInv, Distinct
<1> DEFINE p == Turn
<1>2. p = [j \in Range(accepted) |-> CHOOSE i \in DOMAIN accepted : accepted[i] = j]
  BY DEF Turn
<1> HIDE DEF p
<1>3. /\ Len(accepted) \in Nat
      /\ \A j \in Range(accepted) : p[j] \in 1 .. Len(accepted) /\ accepted[p[j]] = j
      /\ \A i \in 1 .. Len(accepted) : accepted[i] \in Range(accepted) /\ p[accepted[i]] = i
  BY <1>1, <1>2, PlacesOf
<1> QED
  BY <1>3 DEF p

(* At the start no job was taken in.                                           *)
LEMMA InitAccepted == ValidatorInit => AcceptedInv
<1> SUFFICES ASSUME ValidatorInit
             PROVE  AcceptedInv
  OBVIOUS
<1>1. /\ accepted = <<>> /\ handed = <<>> /\ queue = <<>> /\ overflow = <<>> /\ taken = {}
      /\ worker = "loading"
  BY DEF ValidatorInit
<1>2. <<>> \in Seq(Job) /\ Len(<<>>) = 0 /\ Range(<<>>) = {}
  BY DEF Range
<1>3. IsFiniteSet({}) /\ Cardinality({}) = 0
  BY FS_EmptySet
<1>4. OnceInv
  BY <1>1, <1>2 DEF OnceInv, Distinct
<1>5. WaitingInv
  BY <1>1, <1>2, <1>3 DEF WaitingInv, InTurn
<1>6. SpilledLater /\ EpisodesFirst
  BY <1>1, <1>2 DEF SpilledLater, EpisodesFirst
<1> QED
  BY <1>4, <1>5, <1>6 DEF AcceptedInv

(* A job that a capture thread hands over was never handed over before.        *)
LEMMA HandAccepted ==
  ASSUME QueueInv, AcceptedInv, NEW s \in Slots, SampleFrame(s) \/ EmitEpisode(s)
  PROVE  AcceptedInv'
<1> DEFINE kind == IF SampleFrame(s) THEN "sampled" ELSE "episode"
           j == [kind |-> kind, slot |-> s, ts |-> now]
           At(a) == [slot |-> a.slot, ts |-> a.ts]
           Seen(a) == IF a.kind = "sampled" THEN a.ts <= lastSample[a.slot]
                                            ELSE At(a) \in events
           SeenThen(a) == IF a.kind = "sampled" THEN a.ts <= lastSample'[a.slot]
                                                ELSE At(a) \in events'
<1>1. /\ UNCHANGED <<worker, queue, overflow, accepted, taken>>
      /\ handed' = Append(handed, j)
      /\ kind \in {"sampled", "episode"} /\ j \in Job
      /\ now \in Int /\ lastSample \in [Slots -> Int] /\ handed \in Seq(Job)
  BY DEF SampleFrame, EmitEpisode, Hand, QueueInv, TimesInv, JobsInv, Job
<1>2. /\ \A t \in Slots : lastSample'[t] \in Int /\ lastSample[t] <= lastSample'[t]
      /\ events \subseteq events'
  <2>1. CASE SampleFrame(s)
    <3>1. /\ lastSample' = [lastSample EXCEPT ![s] = now] /\ events' = events
          /\ now - lastSample[s] >= SampleEvery
      BY <2>1 DEF SampleFrame
    <3> QED
      BY <1>1, <3>1, ValidatorAssumption
  <2>2. CASE EmitEpisode(s)
    BY <1>1, <2>2 DEF EmitEpisode
  <2> QED
    BY <2>1, <2>2
<1>3. ~Seen(j) /\ SeenThen(j)
  <2>0. j.kind = kind /\ j.slot = s /\ j.ts = now
    OBVIOUS
  <2>1. CASE SampleFrame(s)
    <3>1. /\ lastSample' = [lastSample EXCEPT ![s] = now] /\ kind = "sampled"
          /\ now - lastSample[s] >= SampleEvery
      BY <2>1 DEF SampleFrame
    <3> QED
      BY <1>1, <2>0, <3>1, ValidatorAssumption
  <2>2. CASE ~SampleFrame(s)
    <3>1. kind = "episode" /\ EmitEpisode(s)
      BY <2>2
    <3> QED
      BY <1>1, <2>0, <3>1 DEF EmitEpisode
  <2> QED
    BY <2>1, <2>2
<1>4. /\ accepted \in Seq(Job) /\ Distinct(accepted) /\ Distinct(handed)
      /\ Range(handed) \cap Range(accepted) = {}
      /\ \A a \in Range(handed) \cup Range(accepted) : a \in Job /\ Seen(a)
  BY <1>1, RangeOfSeq DEF AcceptedInv, OnceInv
<1> HIDE DEF j, kind
<1>5. /\ Range(handed') = Range(handed) \cup {j}
      /\ j \notin Range(handed) \cup Range(accepted)
  BY <1>1, <1>3, <1>4, RangeOfAppend
<1>6. ASSUME NEW a \in Job, Seen(a)
      PROVE  SeenThen(a)
  <2>1. a.ts \in Int /\ a.slot \in Slots
    BY DEF Job
  <2> QED
    BY <1>1, <1>2, <1>6, <2>1
<1>7. Distinct(handed')
  BY <1>1, <1>4, <1>5, DistinctAppend
<1>8. OnceInv'
  <2>1. \A a \in Range(handed') \cup Range(accepted') : SeenThen(a)
    <3> HIDE DEF Seen, SeenThen
    <3> QED
      BY <1>1, <1>3, <1>4, <1>5, <1>6
  <2> QED
    BY <1>1, <1>4, <1>5, <1>7, <2>1 DEF OnceInv
<1>9. Turn' = Turn
  BY <1>1 DEF Turn
<1> QED
  BY <1>1, <1>8, <1>9 DEF AcceptedInv, WaitingInv, SpilledLater, EpisodesFirst, InTurn

(* A job that is taken in comes after all that were.                           *)
LEMMA AcceptedGrows ==
  ASSUME OnceInv, NEW j \in Job, j \notin Range(accepted), Accept(j)
  PROVE  /\ accepted' \in Seq(Job) /\ Distinct(accepted')
         /\ Range(accepted') = Range(accepted) \cup {j}
         /\ Len(accepted) \in Nat /\ Len(accepted') = Len(accepted) + 1
         /\ \A i \in 1 .. Len(accepted) : accepted'[i] = accepted[i]
         /\ accepted'[Len(accepted) + 1] = j
         /\ \A a \in Range(accepted) : Turn'[a] = Turn[a] /\ Turn[a] < Turn'[j]
<1> DEFINE t == accepted'
           p == Turn
           q == Turn'
<1>1. accepted \in Seq(Job) /\ Distinct(accepted) /\ t = Append(accepted, j)
  BY DEF OnceInv, Accept
<1>2. /\ p = [a \in Range(accepted) |-> CHOOSE i \in DOMAIN accepted : accepted[i] = a]
      /\ q = [a \in Range(t) |-> CHOOSE i \in DOMAIN t : t[i] = a]
  BY DEF Turn
<1> HIDE DEF t, p, q
<1>3. /\ t \in Seq(Job) /\ Distinct(t) /\ Range(t) = Range(accepted) \cup {j}
      /\ Len(accepted) \in Nat /\ Len(t) = Len(accepted) + 1 /\ t[Len(accepted) + 1] = j
      /\ \A i \in 1 .. Len(accepted) : t[i] = accepted[i]
  <2>1. Distinct(t) /\ Range(t) = Range(accepted) \cup {j}
    BY <1>1, DistinctAppend
  <2>2. /\ t \in Seq(Job)
        /\ Len(accepted) \in Nat /\ Len(t) = Len(accepted) + 1 /\ t[Len(accepted) + 1] = j
        /\ \A i \in 1 .. Len(accepted) : t[i] = accepted[i]
    BY <1>1, Appended
  <2> QED
    BY <2>1, <2>2
<1>4. ASSUME NEW a \in Range(accepted)
      PROVE  q[a] = p[a] /\ p[a] < q[j]
  <2>1. p[a] \in 1 .. Len(accepted) /\ accepted[p[a]] = a
    BY TurnPlaces DEF p
  <2>2. \A i \in 1 .. Len(t) : q[t[i]] = i
    <3>1. \A i, k \in DOMAIN t : i # k => t[i] # t[k]
      BY <1>3 DEF Distinct
    <3> QED
      BY <1>2, <1>3, <3>1, PlacesOf
  <2>3. /\ p[a] \in 1 .. Len(t) /\ t[p[a]] = a
        /\ Len(accepted) + 1 \in 1 .. Len(t)
    BY <1>3, <2>1
  <2>4. q[a] = p[a] /\ q[j] = Len(accepted) + 1
    BY <1>3, <2>2, <2>3
  <2> QED
    BY <1>3, <2>1, <2>4
<1> QED
  BY <1>3, <1>4 DEF t, p, q

(* A queue to which the job goes that was taken in last keeps the order.       *)
LEMMA InTurnAppend ==
  ASSUME OnceInv, NEW j \in Job, j \notin Range(accepted), Accept(j),
         NEW s \in Seq(Job), Range(s) \subseteq Range(accepted), InTurn(s)
  PROVE  /\ \A i, k \in 1 .. Len(s) : i < k => Turn'[s[i]] < Turn'[s[k]]
         /\ LET t == Append(s, j)
            IN  \A i, k \in 1 .. Len(t) : i < k => Turn'[t[i]] < Turn'[t[k]]
<1> DEFINE t == Append(s, j)
           p == Turn
           q == Turn'
<1>1. \A a \in Range(accepted) : q[a] = p[a] /\ p[a] < q[j]
  BY AcceptedGrows
<1>2. \A i, k \in 1 .. Len(s) : i < k => p[s[i]] < p[s[k]]
  BY DEF InTurn
<1>3. /\ Len(s) \in Nat /\ Len(t) = Len(s) + 1
      /\ \A i \in 1 .. Len(s) : t[i] = s[i]
      /\ t[Len(s) + 1] = j
      /\ \A i \in 1 .. Len(t) : i \in 1 .. Len(s) \/ i = Len(s) + 1
  BY Appended
<1>4. \A i \in 1 .. Len(s) : s[i] \in Range(accepted)
  <2>1. \A i \in 1 .. Len(s) : s[i] \in Range(s)
    BY DEF Range
  <2> QED
    BY <2>1
<1> HIDE DEF t, p, q
<1>5. \A i, k \in 1 .. Len(s) : i < k => q[s[i]] < q[s[k]]
  BY <1>1, <1>2, <1>4
<1>6. \A i, k \in 1 .. Len(t) : i < k => q[t[i]] < q[t[k]]
  <2> SUFFICES ASSUME NEW i \in 1 .. Len(t), NEW k \in 1 .. Len(t), i < k
               PROVE  q[t[i]] < q[t[k]]
    OBVIOUS
  <2>1. i \in 1 .. Len(s)
    BY <1>3
  <2>2. CASE k \in 1 .. Len(s)
    BY <1>3, <1>5, <2>1, <2>2
  <2>3. CASE k = Len(s) + 1
    BY <1>1, <1>3, <1>4, <2>1, <2>3
  <2> QED
    BY <1>3, <2>2, <2>3
<1> QED
  BY <1>5, <1>6 DEF t, q

(* A queue that keeps the order holds no job twice.                            *)
LEMMA DistinctInTurn ==
  ASSUME OnceInv, NEW s \in Seq(Job), Range(s) \subseteq Range(accepted), InTurn(s)
  PROVE  Distinct(s)
<1>1. \A i \in 1 .. Len(s) : s[i] \in Range(accepted)
  <2>1. \A i \in 1 .. Len(s) : s[i] \in Range(s)
    BY DEF Range
  <2> QED
    BY <2>1
<1>2. \A i \in 1 .. Len(s) : Turn[s[i]] \in Int
  BY <1>1, TurnPlaces
<1>3. ASSUME NEW i \in 1 .. Len(s), NEW k \in 1 .. Len(s), i # k
      PROVE  s[i] # s[k]
  <2>1. CASE i < k
    BY <1>2, <2>1 DEF InTurn
  <2>2. CASE k < i
    BY <1>2, <2>2 DEF InTurn
  <2> QED
    BY <1>3, <2>1, <2>2
<1> QED
  BY <1>3 DEF Distinct

(* enqueue() puts the job behind all that wait in the queue it goes to, and in *)
(* the overflow only when the other is full.                                   *)
LEMMA EnqueueAccepted == QueueInv /\ AcceptedInv /\ Enqueue => AcceptedInv'
<1> SUFFICES ASSUME QueueInv, AcceptedInv, Enqueue
             PROVE  AcceptedInv'
  OBVIOUS
<1> USE DEF AcceptedInv
<1> DEFINE j == Head(handed)
<1>1. /\ handed # <<>> /\ handed' = Tail(handed)
      /\ handed \in Seq(Job) /\ queue \in Seq(Job) /\ overflow \in Seq(Job)
      /\ UNCHANGED <<worker, taken, lastSample, events>>
      /\ Len(queue) <= JobsMax /\ Len(queue) \in Nat /\ Len(overflow) \in Nat
  BY DEF Enqueue, QueueInv, JobsInv, stamps
<1>2. \/ UNCHANGED <<queue, overflow, accepted>>
      \/ /\ Len(queue) # JobsMax /\ Accept(j) /\ queue' = Append(queue, j)
         /\ overflow' = overflow
      \/ /\ Len(queue) = JobsMax /\ Accept(j) /\ overflow' = Append(overflow, j)
         /\ queue' = queue
  BY DEF Enqueue
<1>3. /\ j \in Job /\ Range(handed) = {j} \cup Range(handed')
      /\ j \notin Range(handed') /\ Distinct(handed')
  BY <1>1, DistinctTail DEF OnceInv
<1>4. j \notin Range(accepted) /\ Range(handed) \cap Range(accepted) = {}
  BY <1>3 DEF OnceInv
<1>5. Range(queue) \subseteq Range(accepted) /\ Range(overflow) \subseteq Range(accepted)
  BY DEF WaitingInv
<1> HIDE DEF j
<1>6. CASE UNCHANGED <<queue, overflow, accepted>>
  <2>1. Turn' = Turn
    BY <1>6 DEF Turn
  <2>2. OnceInv'
    BY <1>1, <1>3, <1>6 DEF OnceInv
  <2> QED
    BY <1>1, <1>6, <2>1, <2>2 DEF WaitingInv, SpilledLater, EpisodesFirst, InTurn
<1>7. CASE Accept(j)
  <2>1. /\ accepted' \in Seq(Job) /\ Distinct(accepted')
        /\ Range(accepted') = Range(accepted) \cup {j}
        /\ Len(accepted) \in Nat /\ Len(accepted') = Len(accepted) + 1
        /\ \A i \in 1 .. Len(accepted) : accepted'[i] = accepted[i]
        /\ accepted'[Len(accepted) + 1] = j
        /\ \A a \in Range(accepted) : Turn'[a] = Turn[a] /\ Turn[a] < Turn'[j]
    BY <1>3, <1>4, <1>7, AcceptedGrows
  <2>2. OnceInv'
    BY <1>1, <1>3, <1>4, <2>1 DEF OnceInv
  <2>3. EpisodesFirst'
    <3>1. j \notin taken
      BY <1>4 DEF WaitingInv
    <3>2. SUFFICES ASSUME NEW i \in 1 .. Len(accepted'), NEW k \in 1 .. Len(accepted'), i < k,
                          accepted'[i].kind = "episode", accepted'[k] \in taken
                   PROVE  accepted'[k].kind = "episode" \/ accepted'[i] \in taken
      BY <1>1 DEF EpisodesFirst
    <3>3. k # Len(accepted) + 1
      BY <2>1, <3>1, <3>2
    <3>4. i \in 1 .. Len(accepted) /\ k \in 1 .. Len(accepted)
      BY <2>1, <3>2, <3>3
    <3> QED
      BY <2>1, <3>2, <3>4 DEF EpisodesFirst
  <2>4. InTurn(queue) /\ InTurn(overflow)
    BY DEF WaitingInv
  <2>5. /\ \A i, k \in 1 .. Len(queue) : i < k => Turn'[queue[i]] < Turn'[queue[k]]
        /\ \A i, k \in 1 .. Len(overflow) : i < k => Turn'[overflow[i]] < Turn'[overflow[k]]
    BY <1>1, <1>3, <1>4, <1>5, <1>7, <2>4, InTurnAppend
  <2>6. IsFiniteSet(taken) /\ Cardinality(taken) \in Nat
    BY FS_CardinalityType DEF WaitingInv
  <2>7. CASE Len(queue) # JobsMax /\ queue' = Append(queue, j) /\ overflow' = overflow
    <3>1. Range(queue') = Range(queue) \cup {j} /\ Len(queue') = Len(queue) + 1
      BY <1>1, <1>3, <2>7, RangeOfAppend
    <3>2. \A i, k \in 1 .. Len(queue') : i < k => Turn'[queue'[i]] < Turn'[queue'[k]]
      BY <1>1, <1>3, <1>4, <1>5, <1>7, <2>4, <2>7, InTurnAppend
    <3>3. WaitingInv'
      <4>1. /\ Range(accepted') = taken' \cup Range(queue') \cup Range(overflow')
            /\ taken' \cap Range(queue') = {} /\ taken' \cap Range(overflow') = {}
            /\ Range(queue') \cap Range(overflow') = {}
        BY <1>1, <1>4, <2>1, <2>7, <3>1 DEF WaitingInv
      <4>2. InTurn(queue)' /\ InTurn(overflow)'
        BY <2>5, <2>7, <3>2 DEF InTurn
      <4>3. /\ IsFiniteSet(taken')
            /\ Len(accepted') = Cardinality(taken') + Len(queue') + Len(overflow')
        BY <1>1, <2>1, <2>6, <2>7, <3>1 DEF WaitingInv
      <4> QED
        BY <4>1, <4>2, <4>3 DEF WaitingInv
    <3>4. ASSUME worker = "waiting"
          PROVE  overflow = <<>>
      BY <2>7, <3>4 DEF SpilledLater
    <3>5. SpilledLater'
      <4>1. Range(<<>>) = {}
        BY DEF Range
      <4> QED
        BY <1>1, <2>7, <3>4, <4>1 DEF SpilledLater
    <3> QED
      BY <2>2, <2>3, <3>3, <3>5
  <2>8. CASE Len(queue) = JobsMax /\ overflow' = Append(overflow, j) /\ queue' = queue
    <3>1. Range(overflow') = Range(overflow) \cup {j} /\ Len(overflow') = Len(overflow) + 1
      BY <1>1, <1>3, <2>8, RangeOfAppend
    <3>2. \A i, k \in 1 .. Len(overflow') : i < k => Turn'[overflow'[i]] < Turn'[overflow'[k]]
      BY <1>1, <1>3, <1>4, <1>5, <1>7, <2>4, <2>8, InTurnAppend
    <3>3. WaitingInv'
      <4>1. /\ Range(accepted') = taken' \cup Range(queue') \cup Range(overflow')
            /\ taken' \cap Range(queue') = {} /\ taken' \cap Range(overflow') = {}
            /\ Range(queue') \cap Range(overflow') = {}
        BY <1>1, <1>4, <2>1, <2>8, <3>1 DEF WaitingInv
      <4>2. InTurn(queue)' /\ InTurn(overflow)'
        BY <2>5, <2>8, <3>2 DEF InTurn
      <4>3. /\ IsFiniteSet(taken')
            /\ Len(accepted') = Cardinality(taken') + Len(queue') + Len(overflow')
        BY <1>1, <2>1, <2>6, <2>8, <3>1 DEF WaitingInv
      <4> QED
        BY <4>1, <4>2, <4>3 DEF WaitingInv
    <3>4. SpilledLater'
      BY <1>1, <1>5, <2>1, <2>8, <3>1 DEF SpilledLater
    <3> QED
      BY <2>2, <2>3, <3>3, <3>4
  <2> QED
    BY <1>2, <1>4, <2>1, <2>7, <2>8
<1> QED
  BY <1>2, <1>6, <1>7

(* The worker takes the first job of one of the queues, if no episode that was *)
(* taken in before it waits in the other.                                      *)
LEMMA TakingKeeps ==
  ASSUME QueueInv, AcceptedInv, NEW s \in Seq(Job), NEW t \in Seq(Job), s # <<>>,
         \/ s = queue /\ t = overflow /\ queue' = Tail(s) /\ overflow' = t
         \/ s = overflow /\ t = queue /\ overflow' = Tail(s) /\ queue' = t,
         \/ Head(s).kind = "episode"
         \/ \A b \in Range(t) : b.kind = "episode" => Turn[Head(s)] < Turn[b],
         taken' = taken \cup {Head(s)}, worker' = "busy",
         UNCHANGED <<handed, accepted, lastSample, events>>
  PROVE  AcceptedInv'
<1> USE DEF AcceptedInv
<1> DEFINE j == Head(s)
           u == Tail(s)
<1>1. /\ Range(accepted) = taken \cup Range(s) \cup Range(t)
      /\ taken \cap Range(s) = {} /\ taken \cap Range(t) = {} /\ Range(s) \cap Range(t) = {}
      /\ InTurn(s) /\ InTurn(t) /\ IsFiniteSet(taken)
      /\ Len(accepted) = Cardinality(taken) + Len(s) + Len(t)
      /\ Len(s) \in Nat /\ Len(t) \in Nat /\ Cardinality(taken) \in Nat
  <2>1. Len(queue) \in Nat /\ Len(overflow) \in Nat
    BY DEF QueueInv, JobsInv
  <2>2. IsFiniteSet(taken) /\ Cardinality(taken) \in Nat
    BY FS_CardinalityType DEF WaitingInv
  <2>3. CASE s = queue /\ t = overflow
    BY <2>1, <2>2, <2>3 DEF WaitingInv
  <2>4. CASE s = overflow /\ t = queue
    BY <2>1, <2>2, <2>4 DEF WaitingInv
  <2> QED
    BY <2>3, <2>4
<1>2. Distinct(s)
  BY <1>1, DistinctInTurn
<1>3. /\ u \in Seq(Job) /\ Len(u) = Len(s) - 1
      /\ j = s[1] /\ 1 \in 1 .. Len(s)
      /\ \A i \in 1 .. Len(u) : i + 1 \in 1 .. Len(s) /\ u[i] = s[i + 1]
      /\ Range(s) = {j} \cup Range(u) /\ j \notin Range(u)
  BY <1>2, DistinctTail
<1>4. /\ IsFiniteSet(taken')
      /\ Cardinality(taken') = Cardinality(taken) + 1
  BY <1>1, <1>3, FS_AddElement
<1>5. Turn' = Turn
  BY DEF Turn
<1>6. InTurn(u)
  <2>1. \A i, k \in 1 .. Len(u) : i < k => i + 1 < k + 1
    BY <1>1, <1>3
  <2> QED
    BY <1>1, <1>3, <2>1 DEF InTurn
<1> HIDE DEF j, u
<1>7. WaitingInv'
  <2>1. /\ Range(accepted) = taken' \cup Range(u) \cup Range(t)
        /\ taken' \cap Range(u) = {} /\ taken' \cap Range(t) = {} /\ Range(u) \cap Range(t) = {}
        /\ Len(accepted) = Cardinality(taken') + Len(u) + Len(t)
    BY <1>1, <1>3, <1>4 DEF j
  <2>2. CASE queue' = u /\ overflow' = t
    BY <1>1, <1>4, <1>5, <1>6, <2>1, <2>2 DEF WaitingInv, InTurn
  <2>3. CASE overflow' = u /\ queue' = t
    <3>1. InTurn(overflow)' /\ InTurn(queue)'
      BY <1>1, <1>5, <1>6, <2>3 DEF InTurn
    <3>2. /\ Range(accepted) = taken' \cup Range(queue') \cup Range(overflow')
          /\ taken' \cap Range(queue') = {} /\ taken' \cap Range(overflow') = {}
          /\ Range(queue') \cap Range(overflow') = {}
      BY <2>1, <2>3
    <3>3. Len(accepted) = Cardinality(taken') + Len(queue') + Len(overflow')
      <4> DEFINE n == Cardinality(taken')
                 a == Len(u)
                 b == Len(t)
      <4>1. n \in Int /\ Len(accepted) = n + a + b /\ a \in Int /\ b \in Int
        BY <1>1, <1>3, <1>4, <2>1
      <4>2. a = Len(overflow') /\ b = Len(queue')
        BY <2>3
      <4> HIDE DEF n, a, b
      <4>3. Len(accepted) = n + b + a
        BY <4>1
      <4> QED
        BY <4>2, <4>3 DEF n
    <3> QED
      BY <1>4, <3>1, <3>2, <3>3 DEF WaitingInv
  <2> QED
    BY <2>2, <2>3 DEF u
<1>8. EpisodesFirst'
  <2> SUFFICES ASSUME NEW i \in 1 .. Len(accepted), NEW k \in 1 .. Len(accepted), i < k,
                      accepted[i].kind = "episode", accepted[k] \in taken'
               PROVE  accepted[k].kind = "episode" \/ accepted[i] \in taken'
    BY DEF EpisodesFirst
  <2>1. CASE accepted[k] \in taken
    BY <2>1 DEF EpisodesFirst
  <2>2. CASE accepted[k] = j
    <3>1. /\ accepted[i] \in Range(accepted) /\ Turn[accepted[i]] = i /\ Turn[j] = k
      BY <2>2, TurnPlaces
    <3>2. CASE accepted[i] \in taken
      BY <3>2
    <3>3. CASE accepted[i] \in Range(s)
      <4>1. PICK m \in 1 .. Len(s) : s[m] = accepted[i]
        <5>1. DOMAIN s = 1 .. Len(s)
          OBVIOUS
        <5> QED
          BY <3>3, <5>1 DEF Range
      <4>2. m = 1 \/ 1 < m
        BY <1>1
      <4>3. CASE 1 < m
        <5>1. Turn[s[1]] < Turn[s[m]]
          BY <1>1, <1>3, <4>3 DEF InTurn
        <5> QED
          BY <1>3, <3>1, <4>1, <5>1
      <4>4. CASE m = 1
        BY <1>3, <4>1, <4>4 DEF j
      <4> QED
        BY <4>2, <4>3, <4>4
    <3>4. CASE accepted[i] \in Range(t)
      <4>1. j.kind = "episode" \/ Turn[j] < Turn[accepted[i]]
        BY <3>4 DEF j
      <4> QED
        BY <2>2, <3>1, <4>1
    <3> QED
      BY <1>1, <3>1, <3>2, <3>3, <3>4
  <2> QED
    BY <2>1, <2>2 DEF j
<1>9. OnceInv' /\ SpilledLater'
  BY DEF OnceInv, SpilledLater
<1> QED
  BY <1>7, <1>8, <1>9

(* The worker looks at the overflow first, and one that waited for the queue   *)
(* finds in the overflow what came after.                                      *)
LEMMA AskAccepted == QueueInv /\ AcceptedInv /\ (Ask \/ Wake) => AcceptedInv'
<1> SUFFICES ASSUME QueueInv, AcceptedInv, Ask \/ Wake
             PROVE  AcceptedInv'
  OBVIOUS
<1>1. /\ UNCHANGED <<handed, accepted, lastSample, events>>
      /\ queue \in Seq(Job) /\ overflow \in Seq(Job)
  BY DEF Ask, Wake, stamps, QueueInv, JobsInv
<1>2. CASE overflow # <<>> /\ TakeOverflow
  <2>1. /\ overflow' = Tail(overflow) /\ queue' = queue
        /\ taken' = taken \cup {Head(overflow)} /\ worker' = "busy"
    BY <1>2 DEF TakeOverflow, Take
  <2>2. Head(overflow).kind = "episode"
    <3>1. Head(overflow) = overflow[1] /\ 1 \in 1 .. Len(overflow)
      BY <1>1, <1>2, HeadAndTail
    <3> QED
      BY <3>1 DEF QueueInv, JobsInv
  <2> QED
    BY <1>1, <1>2, <2>1, <2>2, TakingKeeps
<1>3. CASE queue # <<>> /\ TakeQueued /\ (overflow = <<>> \/ worker = "waiting")
  <2>1. /\ queue' = Tail(queue) /\ overflow' = overflow
        /\ taken' = taken \cup {Head(queue)} /\ worker' = "busy"
    BY <1>3 DEF TakeQueued, Take
  <2>2. \A b \in Range(overflow) : Turn[Head(queue)] < Turn[b]
    <3>1. CASE overflow = <<>>
      BY <3>1 DEF Range
    <3>2. CASE worker = "waiting"
      <4>1. Head(queue) \in Range(queue)
        BY <1>1, <1>3, RangeOfTail
      <4> QED
        BY <3>2, <4>1 DEF AcceptedInv, SpilledLater
    <3> QED
      BY <1>3, <3>1, <3>2
  <2> QED
    BY <1>1, <1>3, <2>1, <2>2, TakingKeeps
<1>4. CASE queue = <<>> /\ overflow = <<>> /\ UNCHANGED <<queue, overflow, job, taken>>
  <2>1. Turn' = Turn
    BY <1>1 DEF Turn
  <2>2. Range(<<>>) = {}
    BY DEF Range
  <2> QED
    BY <1>1, <1>4, <2>1, <2>2
       DEF AcceptedInv, OnceInv, WaitingInv, SpilledLater, EpisodesFirst, InTurn
<1> QED
  BY <1>2, <1>3, <1>4 DEF Ask, Wake

(* Every step of the validator keeps each job in its turn.                     *)
LEMMA NextAccepted ==
  QueueInv /\ AcceptedInv /\ [ValidatorNext]_<<validatorVars, now>> => AcceptedInv'
<1> SUFFICES ASSUME QueueInv, AcceptedInv, [ValidatorNext]_<<validatorVars, now>>
             PROVE  AcceptedInv'
  OBVIOUS
<1>1. CASE Enqueue
  BY <1>1, EnqueueAccepted
<1>2. CASE Ask \/ Wake
  BY <1>2, AskAccepted
<1>3. ASSUME NEW s \in Slots, SampleFrame(s) \/ EmitEpisode(s)
      PROVE  AcceptedInv'
  BY <1>3, HandAccepted
<1>4. CASE /\ UNCHANGED <<handed, queue, overflow, accepted, taken, lastSample, events>>
           /\ worker' = "waiting" => worker = "waiting"
  <2>1. Turn' = Turn
    BY <1>4 DEF Turn
  <2> QED
    BY <1>4, <2>1 DEF AcceptedInv, OnceInv, WaitingInv, SpilledLater, EpisodesFirst, InTurn
<1> QED
  BY <1>1, <1>2, <1>3, <1>4 DEF ValidatorNext, validatorVars, jobs, stamps, ValidatorTick,
     SetPaused, LoadModel, Process, Sweep

(* What the order of the turns says of the episodes.                           *)
LEMMA AcceptedGoFirst == QueueInv /\ AcceptedInv => EpisodesGoFirst
<1> SUFFICES ASSUME QueueInv, AcceptedInv
             PROVE  EpisodesGoFirst
  OBVIOUS
<1> DEFINE both == queue \o overflow
<1>1. queue \in Seq(Job) /\ overflow \in Seq(Job)
  BY DEF QueueInv, JobsInv
<1>2. Range(both) = Range(queue) \cup Range(overflow) /\ Len(both) = Len(queue) + Len(overflow)
  BY <1>1, RangeOfConcat
<1>3. ToSet(accepted) = Range(accepted) /\ ToSet(both) = Range(both)
  BY RangeIsToSet
<1>4. Cardinality(taken) \in Nat /\ Len(queue) \in Nat /\ Len(overflow) \in Nat
  BY <1>1, FS_CardinalityType DEF AcceptedInv, WaitingInv
<1>5. /\ ToSet(accepted) = taken \cup ToSet(both)
      /\ Len(accepted) = Cardinality(taken) + Len(both)
  BY <1>2, <1>3, <1>4 DEF AcceptedInv, WaitingInv
<1> QED
  BY <1>5 DEF AcceptedInv, EpisodesFirst, EpisodesGoFirst

(* EpisodesGoFirst: no job that enqueue() took is lost or worked on twice, and *)
(* no sample taken in after an episode is worked on before it.  That the       *)
(* worker, woken by the queue, does not look at the overflow again is safe     *)
(* only because the overflow fills when the queue is full, and so behind it.   *)
THEOREM EpisodesTakenFirst == ValidatorSpec => []EpisodesGoFirst
BY AcceptedGoFirst, InitAccepted, NextAccepted, QueueKept, PTL DEF ValidatorSpec
-----------------------------------------------------------------------------
(* The least of two numbers is one of them and above neither.               *)
LEMMA MinOfTwo ==
  ASSUME NEW a \in Int, NEW b \in Int
  PROVE  /\ Min({a, b}) \in {a, b}
         /\ Min({a, b}) <= a
         /\ Min({a, b}) <= b
<1>1. \E m \in {a, b} : \A n \in {a, b} : m <= n
  <2>1. CASE a <= b
    BY <2>1
  <2>2. CASE b <= a
    BY <2>2
  <2> QED
    BY <2>1, <2>2
<1> QED
  BY <1>1 DEF Min

(* The greater of two numbers is one of them and below neither.             *)
LEMMA MaxOfTwo ==
  ASSUME NEW a \in Int, NEW b \in Int
  PROVE  /\ Max({a, b}) \in {a, b}
         /\ Max({a, b}) >= a /\ Max({a, b}) >= b
<1>1. \E x \in {a, b} : \A y \in {a, b} : x >= y
  OBVIOUS
<1> QED
  BY <1>1 DEF Max

(* What the rules may find, what the validator may, and what the model may.    *)
RuleNames ==
  {"perception/degraded", "perception/failed", "perception/confidence-low",
   "drift/feedback-coverage", "drift/feedback-coverage-thin", "drift/precision-degrading",
   "drift/precision-alert", "drift/window-collapsed", "drift/false-positive-spike",
   "drift/taxonomy-unknown", "llm/error-rate", "llm/latency", "llm/latency-jump",
   "llm/token-instrumentation", "stream/stopped", "stream/stalled", "stream/fps-low"}

Fingerprint ==
  RuleNames \cup {"validator/false-negative"} \cup {a.fp : a \in UNION AiAnswers}

Finding == [fp : Fingerprint, severity : DOMAIN Rank, source : {"rule", "ai"}, ts : Nat,
            id : {"rule", "ai", "validator"} \X Nat]

Incident == [fp : Fingerprint, severity : DOMAIN Rank, count : Nat, first : Nat, last : Nat,
             latest : Finding]

(* What findings and incidents are made of.                                    *)
LEMMA FieldsOfFindings ==
  /\ \A f \in Finding : f.fp \in Fingerprint /\ f.severity \in DOMAIN Rank /\ f.ts \in Nat
  /\ \A g \in Incident :
       /\ g.fp \in Fingerprint /\ g.severity \in DOMAIN Rank /\ g.count \in Nat
       /\ g.first \in Nat /\ g.last \in Nat /\ g.latest \in Finding
<1>1. \A f \in Finding : f.fp \in Fingerprint /\ f.severity \in DOMAIN Rank /\ f.ts \in Nat
  BY DEF Finding
<1>2. \A g \in Incident :
       /\ g.fp \in Fingerprint /\ g.severity \in DOMAIN Rank /\ g.count \in Nat
       /\ g.first \in Nat /\ g.last \in Nat /\ g.latest \in Finding
  BY DEF Incident
<1> QED
  BY <1>1, <1>2

(* The first finding of an incident.                                           *)
LEMMA SeedIsIncident ==
  ASSUME NEW f \in Finding
  PROVE  /\ Seed(f) \in Incident
         /\ Seed(f).fp = f.fp /\ Seed(f).severity = f.severity /\ Seed(f).count = 1
         /\ Seed(f).first = f.ts /\ Seed(f).last = f.ts /\ Seed(f).latest = f
<1>1. f.fp \in Fingerprint /\ f.severity \in DOMAIN Rank /\ f.ts \in Nat
  BY DEF Finding
<1> QED
  BY <1>1 DEF Seed, Incident

(* One more finding of an incident.                                            *)
LEMMA FoldedIsIncident ==
  ASSUME NEW g \in Incident, NEW f \in Finding
  PROVE  LET x == FoldIn(g, f)
         IN /\ x \in Incident
            /\ x.fp = g.fp /\ x.count = g.count + 1
            /\ x.severity \in {g.severity, f.severity}
            /\ Rank[x.severity] >= Rank[g.severity] /\ Rank[x.severity] >= Rank[f.severity]
            /\ x.first \in {g.first, f.ts} /\ x.first <= g.first /\ x.first <= f.ts
            /\ x.last >= g.last /\ x.last >= f.ts
            /\ \/ x.last = f.ts /\ x.latest = f
               \/ x.last = g.last /\ x.latest = g.latest
<1> DEFINE low == Min({g.first, f.ts})
           high == Max({g.last, f.ts})
           worse == IF Rank[f.severity] > Rank[g.severity] THEN f.severity ELSE g.severity
           newer == IF f.ts > g.last THEN f ELSE g.latest
           x == FoldIn(g, f)
<1>1. /\ g.fp \in Fingerprint /\ g.severity \in DOMAIN Rank /\ g.count \in Nat
      /\ g.first \in Nat /\ g.last \in Nat /\ g.latest \in Finding
  BY DEF Incident
<1>2. f.severity \in DOMAIN Rank /\ f.ts \in Nat
  BY DEF Finding
<1>3. low \in {g.first, f.ts} /\ low <= g.first /\ low <= f.ts
  <2>1. PICK a \in Int, b \in Int : a = g.first /\ b = f.ts
    BY <1>1, <1>2
  <2>2. Min({a, b}) \in {a, b} /\ Min({a, b}) <= a /\ Min({a, b}) <= b
    BY MinOfTwo
  <2> QED
    BY <2>1, <2>2
<1>4. high \in {g.last, f.ts} /\ high >= g.last /\ high >= f.ts
  <2>1. PICK a \in Int, b \in Int : a = g.last /\ b = f.ts
    BY <1>1, <1>2
  <2>2. Max({a, b}) \in {a, b} /\ Max({a, b}) >= a /\ Max({a, b}) >= b
    BY MaxOfTwo
  <2> QED
    BY <2>1, <2>2
<1>5. /\ worse \in {g.severity, f.severity}
      /\ Rank[worse] >= Rank[g.severity] /\ Rank[worse] >= Rank[f.severity]
  <2>1. \A s \in DOMAIN Rank : Rank[s] \in Int
    BY DEF Rank
  <2> QED
    BY <1>1, <1>2, <2>1
<1>6. /\ x.fp = g.fp /\ x.count = g.count + 1 /\ x.severity = worse
      /\ x.first = low /\ x.last = high /\ x.latest = newer
      /\ x = [fp |-> g.fp, severity |-> worse, count |-> g.count + 1, first |-> low,
              last |-> high, latest |-> newer]
  <2>1. PICK a, b, c, d : a = low /\ b = high /\ c = worse /\ d = newer
    OBVIOUS
  <2>2. x = [g EXCEPT !.count = @ + 1, !.severity = c, !.first = a, !.last = b, !.latest = d]
    BY <2>1 DEF FoldIn
  <2> HIDE DEF low, high, worse, newer, x
  <2>3. /\ x.fp = g.fp /\ x.count = g.count + 1 /\ x.severity = c
        /\ x.first = a /\ x.last = b /\ x.latest = d
        /\ x = [fp |-> g.fp, severity |-> c, count |-> g.count + 1, first |-> a,
                last |-> b, latest |-> d]
    BY <2>2 DEF Incident
  <2> QED
    BY <2>1, <2>3
<1>7. low \in Nat /\ high \in Nat /\ newer \in Finding /\ worse \in DOMAIN Rank
  BY <1>1, <1>2, <1>3, <1>4, <1>5
<1>8. \/ high = f.ts /\ newer = f
      \/ high = g.last /\ newer = g.latest
  BY <1>1, <1>2, <1>4
<1> HIDE DEF low, high, worse, newer, x
<1>9. x \in Incident
  BY <1>1, <1>6, <1>7 DEF Incident
<1> QED
  BY <1>3, <1>4, <1>5, <1>6, <1>8, <1>9 DEF x

(* The rows of the queue after the first k lines.                              *)
Of(lines, k, fp) == {i \in 1 .. k : lines[i].fp = fp}

(* The row of a fingerprint tells its lines.                                 *)
RowOf(g, lines, k) ==
  /\ \E i \in Of(lines, k, g.fp) : lines[i].severity = g.severity
  /\ \E i \in Of(lines, k, g.fp) : lines[i].ts = g.first
  /\ \E i \in Of(lines, k, g.fp) : lines[i] = g.latest /\ lines[i].ts = g.last
  /\ \A i \in Of(lines, k, g.fp) :
       /\ Rank[lines[i].severity] <= Rank[g.severity]
       /\ g.first <= lines[i].ts /\ lines[i].ts <= g.last
  /\ g.count = Cardinality(Of(lines, k, g.fp))

(* There is one row for each fingerprint of the lines, and no other.         *)
RowsOf(groups, lines, k) ==
  /\ groups \subseteq Incident
  /\ \A i \in 1 .. k : \E g \in groups : g.fp = lines[i].fp
  /\ \A g, h \in groups : g.fp = h.fp => g = h
  /\ \A g \in groups : RowOf(g, lines, k)

(* The lines of an incident up to one more line.                            *)
LEMMA LinesGrow ==
  ASSUME NEW lines \in Seq(Finding), NEW m \in 1 .. Len(lines), NEW fp
  PROVE  /\ IsFiniteSet(Of(lines, m - 1, fp)) /\ Cardinality(Of(lines, m - 1, fp)) \in Nat
         /\ lines[m].fp # fp => Of(lines, m, fp) = Of(lines, m - 1, fp)
         /\ lines[m].fp = fp =>
              /\ Of(lines, m, fp) = Of(lines, m - 1, fp) \cup {m}
              /\ Cardinality(Of(lines, m, fp)) = Cardinality(Of(lines, m - 1, fp)) + 1
<1>1. IsFiniteSet(1 .. m - 1)
  BY FS_Interval
<1>2. IsFiniteSet(Of(lines, m - 1, fp))
  BY <1>1, FS_Subset DEF Of
<1>3. 1 .. m = (1 .. m - 1) \cup {m} /\ m \notin 1 .. m - 1
  OBVIOUS
<1>4. m \notin Of(lines, m - 1, fp)
  BY <1>3 DEF Of
<1>5. lines[m].fp # fp => Of(lines, m, fp) = Of(lines, m - 1, fp)
  BY <1>3 DEF Of
<1>6. lines[m].fp = fp => Of(lines, m, fp) = Of(lines, m - 1, fp) \cup {m}
  BY <1>3 DEF Of
<1>7. /\ Cardinality(Of(lines, m - 1, fp)) \in Nat
      /\ Cardinality(Of(lines, m - 1, fp) \cup {m}) = Cardinality(Of(lines, m - 1, fp)) + 1
  BY <1>2, <1>4, FS_CardinalityType, FS_AddElement
<1> QED
  BY <1>2, <1>5, <1>6, <1>7

(* One more line adds its row, or moves the row of its fingerprint on.       *)
LEMMA AddKeepsRows ==
  ASSUME NEW lines \in Seq(Finding), NEW m \in 1 .. Len(lines), NEW groups,
         RowsOf(groups, lines, m - 1)
  PROVE  RowsOf(AddFinding(groups, lines[m]), lines, m)
<1> DEFINE f == lines[m]
           new == AddFinding(groups, f)
<1>1. f \in Finding /\ m \in 1 .. m /\ 1 .. m = (1 .. m - 1) \cup {m}
  OBVIOUS
<1>2. \A g \in groups : g.fp # f.fp => RowOf(g, lines, m)
  BY LinesGrow DEF RowsOf, RowOf
<1>3. CASE \E g \in groups : g.fp = f.fp
  <2> PICK old \in groups : old.fp = f.fp
    BY <1>3
  <2> DEFINE x == FoldIn(old, f)
  <2>1. new = {g \in groups : g.fp # f.fp} \cup {x}
    <3>1. new = {IF g.fp = f.fp THEN FoldIn(g, f) ELSE g : g \in groups}
      BY <1>3 DEF AddFinding
    <3>2. \A g \in groups : g.fp = f.fp => g = old
      BY DEF RowsOf
    <3> HIDE DEF new, f
    <3> QED
      BY <3>1, <3>2
  <2>2. old \in Incident /\ RowOf(old, lines, m - 1)
    BY DEF RowsOf
  <2>3. /\ x \in Incident
        /\ x.fp = old.fp /\ x.count = old.count + 1
        /\ x.severity \in {old.severity, f.severity}
        /\ Rank[x.severity] >= Rank[old.severity] /\ Rank[x.severity] >= Rank[f.severity]
        /\ x.first \in {old.first, f.ts} /\ x.first <= old.first /\ x.first <= f.ts
        /\ x.last >= old.last /\ x.last >= f.ts
        /\ \/ x.last = f.ts /\ x.latest = f
           \/ x.last = old.last /\ x.latest = old.latest
    BY <1>1, <2>2, FoldedIsIncident
  <2>4. /\ Of(lines, m, x.fp) = Of(lines, m - 1, old.fp) \cup {m}
        /\ Cardinality(Of(lines, m, x.fp)) = Cardinality(Of(lines, m - 1, old.fp)) + 1
    <3>1. PICK fp : fp = old.fp
      OBVIOUS
    <3>2. lines[m].fp = fp =>
            /\ Of(lines, m, fp) = Of(lines, m - 1, fp) \cup {m}
            /\ Cardinality(Of(lines, m, fp)) = Cardinality(Of(lines, m - 1, fp)) + 1
      BY LinesGrow
    <3> QED
      BY <2>3, <3>1, <3>2
  <2> HIDE DEF x, new
  <2>5. RowOf(x, lines, m)
    <3>1. /\ \E i \in Of(lines, m, x.fp) : lines[i].severity = x.severity
          /\ \E i \in Of(lines, m, x.fp) : lines[i].ts = x.first
          /\ \E i \in Of(lines, m, x.fp) : lines[i] = x.latest /\ lines[i].ts = x.last
      BY <2>2, <2>3, <2>4 DEF RowOf
    <3>2. ASSUME NEW i \in Of(lines, m, x.fp)
          PROVE  /\ Rank[lines[i].severity] <= Rank[x.severity]
                 /\ x.first <= lines[i].ts /\ lines[i].ts <= x.last
      <4>1. CASE i = m
        BY <2>3, <4>1
      <4>2. CASE i \in Of(lines, m - 1, old.fp)
        <5>1. /\ Rank[lines[i].severity] <= Rank[old.severity]
              /\ old.first <= lines[i].ts /\ lines[i].ts <= old.last
          BY <2>2, <4>2 DEF RowOf
        <5>2. i \in 1 .. Len(lines)
          BY <4>2 DEF Of
        <5>3. /\ Rank[lines[i].severity] \in Int /\ Rank[x.severity] \in Int
              /\ Rank[old.severity] \in Int
              /\ lines[i].ts \in Int /\ x.first \in Int /\ x.last \in Int
              /\ old.first \in Int /\ old.last \in Int
          <6>1. \A s \in DOMAIN Rank : Rank[s] \in Int
            BY DEF Rank
          <6>2. lines[i] \in Finding
            BY <5>2
          <6> HIDE DEF f
          <6>3. /\ lines[i].severity \in DOMAIN Rank /\ x.severity \in DOMAIN Rank
                /\ old.severity \in DOMAIN Rank
            BY <2>2, <2>3, <6>2, FieldsOfFindings
          <6>4. /\ lines[i].ts \in Nat /\ x.first \in Nat /\ x.last \in Nat
                /\ old.first \in Nat /\ old.last \in Nat
            BY <2>2, <2>3, <6>2, FieldsOfFindings
          <6> QED
            BY <6>1, <6>3, <6>4
        <5>4. Rank[x.severity] >= Rank[old.severity] /\ x.first <= old.first /\ x.last >= old.last
          BY <2>3
        <5>5. Rank[lines[i].severity] <= Rank[x.severity]
          BY <5>1, <5>3, <5>4
        <5>6. x.first <= lines[i].ts /\ lines[i].ts <= x.last
          BY <5>1, <5>3, <5>4
        <5> QED
          BY <5>5, <5>6
      <4> QED
        BY <2>4, <4>1, <4>2
    <3>3. x.count = Cardinality(Of(lines, m, x.fp))
      BY <2>2, <2>3, <2>4 DEF RowOf
    <3> QED
      BY <3>1, <3>2, <3>3 DEF RowOf
  <2>6. new \subseteq Incident
    BY <2>1, <2>3 DEF RowsOf
  <2>7. \A i \in 1 .. m : \E g \in new : g.fp = lines[i].fp
    BY <1>1, <2>1, <2>3 DEF RowsOf
  <2>8. \A g, h \in new : g.fp = h.fp => g = h
    BY <2>1, <2>3 DEF RowsOf
  <2>9. \A g \in new : RowOf(g, lines, m)
    BY <1>2, <2>1, <2>5
  <2> QED
    BY <2>6, <2>7, <2>8, <2>9 DEF RowsOf, new
<1>4. CASE ~ \E g \in groups : g.fp = f.fp
  <2> DEFINE x == Seed(f)
  <2>1. new = groups \cup {x}
    BY <1>4 DEF AddFinding
  <2>2. /\ x \in Incident
        /\ x.fp = f.fp /\ x.severity = f.severity /\ x.count = 1
        /\ x.first = f.ts /\ x.last = f.ts /\ x.latest = f
    BY <1>1, SeedIsIncident
  <2> HIDE DEF x, new
  <2>3. Of(lines, m, x.fp) = {m}
    BY <1>1, <1>4, <2>2 DEF Of, RowsOf
  <2>4. RowOf(x, lines, m)
    <3>1. Cardinality(Of(lines, m, x.fp)) = 1
      BY <2>3, FS_Singleton
    <3>2. Rank[f.severity] \in Int /\ f.ts \in Int
      BY <1>1 DEF Finding, Rank
    <3> QED
      BY <2>2, <2>3, <3>1, <3>2 DEF RowOf
  <2>5. new \subseteq Incident
    BY <2>1, <2>2 DEF RowsOf
  <2>6. \A i \in 1 .. m : \E g \in new : g.fp = lines[i].fp
    BY <1>1, <2>1, <2>2 DEF RowsOf
  <2>7. \A g, h \in new : g.fp = h.fp => g = h
    BY <1>4, <2>1, <2>2 DEF RowsOf
  <2>8. \A g \in new : RowOf(g, lines, m)
    BY <1>2, <1>4, <2>1, <2>4
  <2> QED
    BY <2>5, <2>6, <2>7, <2>8 DEF RowsOf, new
<1> QED
  BY <1>3, <1>4
(* A queue with one more finding is a queue.                                *)
LEMMA AddIsTyped ==
  ASSUME NEW groups \in SUBSET Incident, NEW f \in Finding
  PROVE  AddFinding(groups, f) \in SUBSET Incident
<1>1. Seed(f) \in Incident
  BY SeedIsIncident
<1>2. ASSUME NEW g \in groups
      PROVE  FoldIn(g, f) \in Incident
  <2>1. g \in Incident
    OBVIOUS
  <2> QED
    BY <2>1, FoldedIsIncident
<1>3. {IF g.fp = f.fp THEN FoldIn(g, f) ELSE g : g \in groups} \subseteq Incident
  BY <1>2
<1> QED
  BY <1>1, <1>3 DEF AddFinding

(* _group_findings() goes through the lines one by one.                        *)
LEMMA GroupingSteps ==
  ASSUME NEW lines \in Seq(Finding)
  PROVE  \E h \in [0 .. Len(lines) -> SUBSET Incident] :
           /\ h[0] = {} /\ h[Len(lines)] = GroupFindings(lines)
           /\ \A m \in 1 .. Len(lines) : h[m] = AddFinding(h[m - 1], lines[m])
<1> DEFINE D == DOMAIN lines
           Is(f) == f = [t \in SUBSET D |-> IF t = {} THEN {}
                                            ELSE AddFinding(f[t \ {Max(t)}], lines[Max(t)])]
<1>1. PICK n \in Nat : n = Len(lines) /\ D = 1 .. n /\ \A i \in 1 .. n : lines[i] \in Finding
  OBVIOUS
<1>2. PICK A, none : A = SUBSET Incident /\ none = {}
  OBVIOUS
<1>3. PICK step \in [A \X (1 .. n) -> A] :
           \A a \in A, i \in 1 .. n : step[<<a, i>>] = AddFinding(a, lines[i])
  <2>1. \A a \in A, i \in 1 .. n : AddFinding(a, lines[i]) \in A
    BY <1>1, <1>2, AddIsTyped
  <2> DEFINE step == [p \in A \X (1 .. n) |-> AddFinding(p[1], lines[p[2]])]
  <2>2. step \in [A \X (1 .. n) -> A]
    BY <2>1
  <2> QED
    BY <2>2
<1>0. none \in A /\ n \in Nat /\ step \in [A \X (1 .. n) -> A]
  <2>1. {} \in SUBSET Incident
    OBVIOUS
  <2> QED
    BY <1>2, <1>3, <2>1
<1>4. PICK g \in Solutions(A, n, none, step, n) : TRUE
  BY <1>0, FoldExists
<1>5. /\ g \in [SUBSET (1 .. n) -> A] /\ g[{}] = none
      /\ \A t \in SUBSET (1 .. n) : t # {} => g[t] = step[<<g[t \ {Max(t)}], Max(t)>>]
  BY DEF Solutions
<1>6. Is(g)
  <2>1. ASSUME NEW t \in SUBSET D
        PROVE  g[t] = IF t = {} THEN {} ELSE AddFinding(g[t \ {Max(t)}], lines[Max(t)])
    <3>1. CASE t # {}
      <4>1. Max(t) \in 1 .. n
        BY <1>1, <3>1, Greatest
      <4>2. t \ {Max(t)} \in SUBSET (1 .. n) /\ g[t \ {Max(t)}] \in A
        BY <1>1, <1>5
      <4> QED
        BY <1>1, <1>3, <1>5, <3>1, <4>1, <4>2
    <3> QED
      BY <1>2, <1>5, <3>1
  <2> QED
    BY <1>1, <1>5, <2>1
<1> DEFINE f == CHOOSE f : Is(f)
<1>7. Is(f)
  <2> HIDE DEF Is
  <2> QED
    BY <1>6
<1>8. GroupFindings(lines) = f[D]
  BY DEF GroupFindings, FoldLeft, MapThenFoldSet
<1> HIDE DEF f
<1>9. f[{}] = none
  BY <1>2, <1>7
<1>10. ASSUME NEW m \in 1 .. n, f[1 .. m - 1] \in A
       PROVE  f[1 .. m] = step[<<f[1 .. m - 1], m>>]
  <2>1. /\ 1 .. m \in SUBSET (1 .. n)
        /\ 1 .. m # {}
        /\ Max(1 .. m) = m
        /\ (1 .. m) \ {Max(1 .. m)} = 1 .. m - 1
    BY FirstIndices
  <2>2. f[1 .. m] = AddFinding(f[1 .. m - 1], lines[m])
    BY <1>1, <1>7, <2>1
  <2> QED
    BY <1>3, <1>10, <2>2
<1>11. PICK h \in Walks(f, A, n, step) : TRUE
  <2>1. Recursion(f, A, n, step)
    BY <1>0, <1>9, <1>10 DEF Recursion
  <2> QED
    BY <1>0, <2>1, FoldPrefixes
<1>12. \A m \in 1 .. n : h[m] = AddFinding(h[m - 1], lines[m])
  <2>1. \A m \in 1 .. n : m - 1 \in 0 .. n
    OBVIOUS
  <2> QED
    BY <1>3, <2>1 DEF Walks
<1>13. h \in [0 .. n -> A] /\ h[0] = none /\ h[n] = f[1 .. n]
  BY <1>9 DEF Walks
<1> QED
  BY <1>1, <1>2, <1>8, <1>12, <1>13

(* The queue has the rows of all its lines.                                    *)
LEMMA QueueSummarises ==
  ASSUME NEW lines \in Seq(Finding)
  PROVE  RowsOf(GroupFindings(lines), lines, Len(lines))
<1>1. PICK h \in [0 .. Len(lines) -> SUBSET Incident] :
           /\ h[0] = {} /\ h[Len(lines)] = GroupFindings(lines)
           /\ \A m \in 1 .. Len(lines) : h[m] = AddFinding(h[m - 1], lines[m])
  BY GroupingSteps
<1> DEFINE T == {k \in Nat : k <= Len(lines) => RowsOf(h[k], lines, k)}
<1>2. 0 \in T
  <2>1. RowsOf({}, lines, 0)
    BY DEF RowsOf
  <2> QED
    BY <1>1, <2>1
<1>3. ASSUME NEW k \in Nat, k \in T
      PROVE  k + 1 \in T
  <2>1. ASSUME NEW m \in 1 .. Len(lines), m = k + 1
        PROVE  RowsOf(h[m], lines, m)
    <3>1. m - 1 = k /\ RowsOf(h[m - 1], lines, m - 1)
      BY <1>3, <2>1
    <3> QED
      BY <1>1, <3>1, AddKeepsRows
  <2> QED
    BY <2>1
<1> HIDE DEF T
<1>4. \A k \in Nat : k \in T
  BY <1>2, <1>3, SetInduction
<1>5. Len(lines) \in T /\ Len(lines) \in Nat
  BY <1>4
<1> QED
  BY <1>1, <1>5 DEF T

(* The rows of the queue after the last line of the file.                    *)
LEMMA FileIsSummarised == file \in Seq(Finding) => IncidentsSummariseFile
<1> SUFFICES ASSUME file \in Seq(Finding)
             PROVE  IncidentsSummariseFile
  OBVIOUS
<1> DEFINE lines == TailLines
           rows == Incidents
           n == Len(lines)
           Times(fp) == {lines[i].ts : i \in Of(lines, n, fp)}
<1>1. lines \in Seq(Finding)
  <2>1. PICK b \in Int : b = Len(file) - TailMax + 1
    BY WatchdogAssumption
  <2>2. PICK a \in Int : a = 1
    OBVIOUS
  <2>3. Max({a, b}) \in {a, b} /\ Max({a, b}) >= a
    BY MaxOfTwo
  <2>4. PICK from \in Nat : from = Max({1, b}) /\ from >= 1
    BY <2>2, <2>3
  <2>5. SubSeq(file, from, Len(file)) \in Seq(Finding)
    <3>1. CASE from <= Len(file)
      <4>1. PICK k \in 0 .. Len(file) : k = from - 1
        BY <2>4, <3>1
      <4>2. SubSeq(file, k + 1, Len(file)) \in Seq(Finding)
        BY RangeOfSplit
      <4> QED
        BY <4>1, <4>2
    <3>2. CASE from > Len(file)
      <4>1. SubSeq(file, from, Len(file)) = <<>>
        BY <2>4, <3>2
      <4> QED
        BY <4>1
    <3>3. from <= Len(file) \/ from > Len(file)
      BY <2>4
    <3> QED
      BY <3>1, <3>2, <3>3
  <2> QED
    BY <2>1, <2>4, <2>5 DEF TailLines
<1>2. RowsOf(rows, lines, n)
  BY <1>1, QueueSummarises DEF Incidents
<1>3. /\ DOMAIN lines = 1 .. n /\ ToSet(lines) = {lines[i] : i \in 1 .. n}
      /\ \A i \in 1 .. n : lines[i] \in Finding
  <2> HIDE DEF lines
  <2> QED
    BY <1>1 DEF ToSet
<1> HIDE DEF lines, rows, n
<1>4. {g.fp : g \in rows} = {l.fp : l \in ToSet(lines)}
  <2>1. \A g \in rows : \E i \in 1 .. n : lines[i].fp = g.fp
    BY <1>2 DEF RowsOf, RowOf, Of
  <2> QED
    BY <1>2, <1>3, <2>1 DEF RowsOf
<1>5. ASSUME NEW g \in rows
      PROVE  /\ g.count = Cardinality(Of(lines, n, g.fp))
             /\ \A i \in Of(lines, n, g.fp) : Rank[lines[i].severity] <= Rank[g.severity]
             /\ g.severity \in {lines[i].severity : i \in Of(lines, n, g.fp)}
             /\ g.first = Min(Times(g.fp)) /\ g.last = Max(Times(g.fp))
             /\ g.latest.ts = g.last /\ g.latest \in {lines[i] : i \in Of(lines, n, g.fp)}
  <2>1. g \in Incident /\ RowOf(g, lines, n)
    BY <1>2 DEF RowsOf
  <2>2. g.first \in Nat /\ g.last \in Nat /\ \A t \in Times(g.fp) : t \in Nat
    <3>1. \A i \in Of(lines, n, g.fp) : lines[i] \in Finding
      BY <1>1, <1>3 DEF Of
    <3> QED
      BY <2>1, <3>1, FieldsOfFindings
  <2>3. PICK times : times = Times(g.fp)
    OBVIOUS
  <2>4. g.first \in times /\ \A t \in times : g.first <= t
    BY <2>1, <2>3 DEF RowOf
  <2>5. g.last \in times /\ \A t \in times : t <= g.last
    BY <2>1, <2>3 DEF RowOf
  <2>6. g.first = Min(times)
    BY <2>2, <2>3, <2>4 DEF Min
  <2>7. g.last = Max(times)
    BY <2>2, <2>3, <2>5 DEF Max
  <2> QED
    BY <2>1, <2>3, <2>6, <2>7 DEF RowOf
<1>6. \A fp : Of(lines, n, fp) = {i \in DOMAIN lines : lines[i].fp = fp}
  BY <1>3 DEF Of
<1>7. \A g, h \in rows : g.fp = h.fp => g = h
  BY <1>2 DEF RowsOf
<1> QED
  BY <1>4, <1>5, <1>6, <1>7 DEF IncidentsSummariseFile, lines, rows
-----------------------------------------------------------------------------
(* What the rules of a check can raise.                                      *)
RuleFinding == [fp : RuleNames, severity : DOMAIN Rank, source : {"rule"}]

Raised(fp, severity) == [fp |-> fp, severity |-> severity, source |-> "rule"]

(* A finding of a rule is one.                                               *)
LEMMA RaisedIsTyped ==
  \A fp \in RuleNames, severity \in {"info", "warning", "error"} :
    Raised(fp, severity) \in RuleFinding
BY DEF Raised, RuleFinding, Rank

(* The rules have so many names, and so many findings at most.                 *)
LEMMA RulesAreFinite == IsFiniteSet(RuleFinding)
<1>1. IsFiniteSet(RuleNames)
  <2>1. \A a, b, c, d, e : IsFiniteSet({a, b, c, d, e})
    <3> TAKE a, b, c, d, e
    <3>1. IsFiniteSet({a} \cup {b} \cup {c} \cup {d} \cup {e})
      BY FS_Singleton, FS_Union
    <3>2. {a} \cup {b} \cup {c} \cup {d} \cup {e} = {a, b, c, d, e}
      OBVIOUS
    <3> QED
      BY <3>1, <3>2
  <2>2. RuleNames =
          {"perception/degraded", "perception/failed", "perception/confidence-low",
           "drift/feedback-coverage", "drift/feedback-coverage-thin"}
          \cup {"drift/precision-degrading", "drift/precision-alert",
                "drift/window-collapsed", "drift/false-positive-spike",
                "drift/taxonomy-unknown"}
          \cup {"llm/error-rate", "llm/latency", "llm/latency-jump",
                "llm/token-instrumentation", "stream/stopped"}
          \cup {"stream/stopped", "stream/stalled", "stream/fps-low",
                "stream/stalled", "stream/fps-low"}
    BY DEF RuleNames
  <2> QED
    BY <2>1, <2>2, FS_Union
<1>2. IsFiniteSet(DOMAIN Rank)
  <2>1. DOMAIN Rank = {"info"} \cup {"warning"} \cup {"error"}
    BY DEF Rank
  <2>2. \A a, b, c : IsFiniteSet({a} \cup {b} \cup {c})
    BY FS_Singleton, FS_Union
  <2> QED
    BY <2>1, <2>2
<1>3. IsFiniteSet(RuleNames \X DOMAIN Rank)
  BY <1>1, <1>2, FS_Product
<1> DEFINE all == [p \in RuleNames \X DOMAIN Rank |-> Raised(p[1], p[2])]
<1>4. all \in [RuleNames \X DOMAIN Rank -> RuleFinding]
  BY DEF Raised, RuleFinding
<1>5. ASSUME NEW f \in RuleFinding
      PROVE  \E p \in RuleNames \X DOMAIN Rank : all[p] = f
  <2>1. <<f.fp, f.severity>> \in RuleNames \X DOMAIN Rank /\ f = Raised(f.fp, f.severity)
    BY DEF RuleFinding, Raised
  <2> QED
    BY <2>1
<1> HIDE DEF all
<1>6. all \in Surjection(RuleNames \X DOMAIN Rank, RuleFinding)
  BY <1>4, <1>5 DEF Surjection
<1> QED
  BY <1>3, <1>6, FS_Surjection

(* What the rules raise is theirs.                                             *)
LEMMA RulesFind ==
  ASSUME NEW s, NEW p
  PROVE  RuleChecks(s, p) \subseteq RuleFinding /\ IsFiniteSet(RuleChecks(s, p))
<1> USE RaisedIsTyped DEF RuleNames, Raise, Raised, ErrorIf
<1>1. ASSUME NEW h
      PROVE  PerceptionFindings(h) \subseteq RuleFinding
  <2>1. ASSUME NEW x \in PerceptionFindings(h)
        PROVE  \E fp \in RuleNames, severity \in {"info", "warning", "error"} :
                 x = Raised(fp, severity)
    BY <2>1 DEF PerceptionFindings
  <2> QED
    BY <2>1, RaisedIsTyped
<1>2. ASSUME NEW h
      PROVE  DriftFindings(h) \subseteq RuleFinding
  <2>1. ASSUME NEW x \in DriftFindings(h)
        PROVE  \E fp \in RuleNames, severity \in {"info", "warning", "error"} :
                 x = Raised(fp, severity)
    BY <2>1 DEF DriftFindings
  <2> QED
    BY <2>1, RaisedIsTyped
<1>3. ASSUME NEW h, NEW q
      PROVE  LlmFindings(h, q) \subseteq RuleFinding
  <2>1. ASSUME NEW x \in LlmFindings(h, q)
        PROVE  \E fp \in RuleNames, severity \in {"info", "warning", "error"} :
                 x = Raised(fp, severity)
    <3>1. \/ x = Raised("llm/error-rate", "error") \/ x = Raised("llm/error-rate", "warning")
          \/ x = Raised("llm/latency", "error") \/ x = Raised("llm/latency", "warning")
          \/ x = Raised("llm/latency-jump", "warning")
          \/ x = Raised("llm/token-instrumentation", "warning")
      BY <2>1 DEF LlmFindings
    <3> QED
      BY <3>1
  <2> QED
    BY <2>1, RaisedIsTyped
<1>4. StreamFindings(s, p) \subseteq RuleFinding
  <2>1. ASSUME NEW x \in StreamFindings(s, p)
        PROVE  \E fp \in RuleNames, severity \in {"info", "warning", "error"} :
                 x = Raised(fp, severity)
    BY <2>1 DEF StreamFindings
  <2> QED
    BY <2>1, RaisedIsTyped
<1> HIDE RaisedIsTyped DEF RuleNames, Raise, Raised, ErrorIf
<1>5. RuleChecks(s, p) \subseteq RuleFinding
  BY <1>1, <1>2, <1>3, <1>4 DEF RuleChecks
<1> QED
  BY <1>5, RulesAreFinite, FS_Subset

(* The lines of what was found at one moment.                                  *)
LEMMA LinesAreFindings ==
  ASSUME NEW found, IsFiniteSet(found),
         found \subseteq [fp : Fingerprint, severity : DOMAIN Rank, source : {"rule", "ai"}],
         NEW at \in Nat, NEW id \in {"rule", "ai", "validator"} \X Nat
  PROVE  /\ Lines(found, at, id) \in Seq(Finding)
         /\ \A i \in DOMAIN Lines(found, at, id) : Lines(found, at, id)[i].ts = at
<1> DEFINE line == [f \in found |-> [fp |-> f.fp, severity |-> f.severity, source |-> f.source,
                                    ts |-> at, id |-> id]]
           all == {line[f] : f \in found}
<1>1. \A f \in found : line[f] \in Finding /\ line[f].ts = at
  BY DEF Finding
<1>2. IsFiniteSet(all)
  <2>1. line \in Surjection(found, all)
    BY DEF Surjection
  <2> QED
    BY <2>1, FS_Surjection
<1>3. all \subseteq Finding /\ \A l \in all : l.ts = at
  BY <1>1
<1>4. Lines(found, at, id) = SetToSeq(all)
  BY DEF Lines
<1> HIDE DEF all
<1> DEFINE n == Cardinality(all)
           order == SetToSeq(all)
<1>5. n \in Nat /\ ExistsBijection(1 .. n, all)
  BY <1>2, FS_CardinalityType
<1>6. PICK g : g \in Bijection(1 .. n, all)
  BY <1>5 DEF ExistsBijection
<1>7. g \in [1 .. n -> all] /\ IsInjective(g)
  BY <1>6 DEF Bijection, Injection, Surjection
<1>8. order \in [1 .. n -> all]
  BY <1>7 DEF SetToSeq
<1> HIDE DEF order, n
<1>9. order \in Seq(Finding) /\ DOMAIN order = 1 .. n
  BY <1>3, <1>5, <1>8
<1> QED
  BY <1>3, <1>4, <1>8, <1>9 DEF order

(* A deletion keeps lines of the file.                                         *)
LEMMA DeletionKeeps ==
  ASSUME NEW lines, NEW keys, NEW S, lines \in Seq(S)
  PROVE  Without(lines, keys) \in Seq(S)
<1> DEFINE D == DOMAIN lines
           Is(f) == f = [t \in SUBSET D |->
                           IF t = {} THEN <<>>
                           ELSE IF <<lines[Max(t)].id, lines[Max(t)].ts>> \in keys
                                THEN f[t \ {Max(t)}]
                                ELSE Append(f[t \ {Max(t)}], lines[Max(t)])]
<1>1. PICK n \in Nat : n = Len(lines) /\ D = 1 .. n /\ \A i \in 1 .. n : lines[i] \in S
  OBVIOUS
<1>2. PICK A, none : A = Seq(S) /\ none = <<>>
  OBVIOUS
<1>3. PICK step \in [A \X (1 .. n) -> A] :
           \A a \in A, i \in 1 .. n :
             step[<<a, i>>] = IF <<lines[i].id, lines[i].ts>> \in keys THEN a
                              ELSE Append(a, lines[i])
  <2> DEFINE step == [p \in A \X (1 .. n) |->
                        IF <<lines[p[2]].id, lines[p[2]].ts>> \in keys THEN p[1]
                        ELSE Append(p[1], lines[p[2]])]
  <2>1. \A a \in A, i \in 1 .. n : Append(a, lines[i]) \in A
    BY <1>1, <1>2
  <2>2. step \in [A \X (1 .. n) -> A]
    BY <2>1
  <2> QED
    BY <2>2
<1>4. none \in A /\ n \in Nat /\ step \in [A \X (1 .. n) -> A]
  BY <1>2, <1>3
<1>5. PICK g \in Solutions(A, n, none, step, n) : TRUE
  BY <1>4, FoldExists
<1>6. /\ g \in [SUBSET (1 .. n) -> A] /\ g[{}] = none
      /\ \A t \in SUBSET (1 .. n) : t # {} => g[t] = step[<<g[t \ {Max(t)}], Max(t)>>]
  BY DEF Solutions
<1>7. Is(g)
  <2>1. ASSUME NEW t \in SUBSET D
        PROVE  g[t] = IF t = {} THEN <<>>
                      ELSE IF <<lines[Max(t)].id, lines[Max(t)].ts>> \in keys
                           THEN g[t \ {Max(t)}]
                           ELSE Append(g[t \ {Max(t)}], lines[Max(t)])
    <3>1. CASE t # {}
      <4>1. Max(t) \in 1 .. n
        BY <1>1, <3>1, Greatest
      <4>2. t \ {Max(t)} \in SUBSET (1 .. n) /\ g[t \ {Max(t)}] \in A
        BY <1>1, <1>6
      <4> QED
        BY <1>1, <1>3, <1>6, <3>1, <4>1, <4>2
    <3> QED
      BY <1>2, <1>6, <3>1
  <2> QED
    BY <1>1, <1>6, <2>1
<1> DEFINE f == CHOOSE f : Is(f)
<1>8. Is(f)
  <2> HIDE DEF Is
  <2> QED
    BY <1>7
<1>9. Without(lines, keys) = f[D]
  BY DEF Without, FoldLeft, MapThenFoldSet
<1> HIDE DEF f
<1>10. f[{}] = none
  BY <1>2, <1>8
<1>11. ASSUME NEW m \in 1 .. n, f[1 .. m - 1] \in A
       PROVE  f[1 .. m] = step[<<f[1 .. m - 1], m>>]
  <2>1. /\ 1 .. m \in SUBSET (1 .. n)
        /\ 1 .. m # {}
        /\ Max(1 .. m) = m
        /\ (1 .. m) \ {Max(1 .. m)} = 1 .. m - 1
    BY FirstIndices
  <2>2. f[1 .. m] = IF <<lines[m].id, lines[m].ts>> \in keys THEN f[1 .. m - 1]
                    ELSE Append(f[1 .. m - 1], lines[m])
    BY <1>1, <1>8, <2>1
  <2> QED
    BY <1>3, <1>11, <2>2
<1>12. PICK h \in Walks(f, A, n, step) : TRUE
  <2>1. Recursion(f, A, n, step)
    BY <1>4, <1>10, <1>11 DEF Recursion
  <2> QED
    BY <1>4, <2>1, FoldPrefixes
<1>13. f[1 .. n] \in A
  BY DEF Walks
<1> QED
  BY <1>1, <1>2, <1>9, <1>13

(* The variables of the watchdog.                                              *)
OnFile == {f \in Finding : f.ts <= now}

AskingInv(a) ==
  a.rules \subseteq RuleFinding /\ IsFiniteSet(a.rules) /\ a.at \in 0 .. now

WatchdogInv ==
  /\ now \in 0 .. WatchdogEnd
  /\ reader \in [n : 0 .. MaxRestarts, since : 0 .. now, processed : 0 .. MaxFrames,
                 alive : BOOLEAN]
  /\ file \in Seq(OnFile) /\ foreign \in Nat
  /\ nextRun \in 0 .. WatchdogEnd + Interval
  /\ asking # None => AskingInv(asking)

(* The watchdog starts with an empty file and no check under way.            *)
LEMMA InitWatchdog == WatchdogInit /\ ClockInit => WatchdogInv
BY WatchdogAssumption DEF WatchdogInit, ClockInit, WatchdogInv

(* Lines that were found by now may be on file now.                            *)
LEMMA LinesGoOnFile ==
  ASSUME now \in Nat, NEW found, IsFiniteSet(found),
         found \subseteq [fp : Fingerprint, severity : DOMAIN Rank, source : {"rule", "ai"}],
         NEW at \in 0 .. now, NEW id \in {"rule", "ai", "validator"} \X Nat
  PROVE  Lines(found, at, id) \in Seq(OnFile)
<1>1. /\ Lines(found, at, id) \in Seq(Finding)
      /\ \A i \in DOMAIN Lines(found, at, id) : Lines(found, at, id)[i].ts = at
  <2>1. at \in Nat /\ at <= now
    OBVIOUS
  <2> QED
    BY <2>1, LinesAreFindings
<1> QED
  BY <1>1 DEF OnFile

(* A check that concludes writes what the rules found and what the model did.  *)
LEMMA ConcludeKeeps ==
  ASSUME WatchdogInv, NEW answer \in AiAnswers, Conclude(answer)
  PROVE  WatchdogInv'
<1> DEFINE rules == asking.rules
           hypotheses == NewFromAi(answer, rules)
           byRule == Lines(rules, asking.at, <<"rule", asking.at>>)
           byAi == Lines(hypotheses, now, <<"ai", now>>)
<1> USE DEF WatchdogInv
<1>1. /\ rules \subseteq RuleFinding /\ IsFiniteSet(rules) /\ asking.at \in 0 .. now
      /\ now \in Nat
  BY DEF Conclude, AskingInv
<1>2. byRule \in Seq(OnFile)
  <2>1. RuleFinding \subseteq [fp : Fingerprint, severity : DOMAIN Rank, source : {"rule", "ai"}]
    BY DEF RuleFinding, Fingerprint
  <2> QED
    BY <1>1, <2>1, LinesGoOnFile
<1>3. byAi \in Seq(OnFile)
  <2> DEFINE kept == {b \in answer : /\ b.severity \in {"error", "warning"}
                                   /\ \A r \in rules : b.fp # r.fp}
             hypothesis == [b \in kept |->
                              [fp |-> b.fp, severity |-> b.severity, source |-> "ai"]]
  <2>1. IsFiniteSet(kept)
    BY WatchdogAssumption, FS_Subset
  <2>2. hypothesis \in Surjection(kept, hypotheses)
    BY DEF Surjection, NewFromAi
  <2>3. IsFiniteSet(hypotheses)
    BY <2>1, <2>2, FS_Surjection
  <2>4. hypotheses \subseteq [fp : Fingerprint, severity : DOMAIN Rank, source : {"rule", "ai"}]
    BY DEF NewFromAi, Fingerprint, Rank
  <2> HIDE DEF hypotheses
  <2> QED
    BY <1>1, <2>3, <2>4, LinesGoOnFile
<1> HIDE DEF byRule, byAi
<1>4. file' \in Seq(OnFile)
  <2>1. (file \o byRule) \o byAi \in Seq(OnFile)
    BY <1>2, <1>3
  <2>2. file' = (file \o byRule) \o byAi \/ file' = file
    BY DEF Conclude, byRule, byAi
  <2> QED
    BY <2>1, <2>2
<1> QED
  BY <1>4, WatchdogAssumption DEF Conclude, OnFile

(* Every step of the watchdog keeps its file well formed and dated before    *)
(* now.                                                                      *)
LEMMA WatchdogStep == WatchdogInv /\ [WatchdogNext]_<<watchdogVars, now>> => WatchdogInv'
<1> SUFFICES ASSUME WatchdogInv, [WatchdogNext]_<<watchdogVars, now>>
             PROVE  WatchdogInv'
  OBVIOUS
<1> USE WatchdogAssumption DEF WatchdogInv
<1>1. CASE WatchdogTick
  <2>0. now \in Int /\ now' = now + 1
    BY <1>1 DEF WatchdogTick, Tick
  <2>3. \A f \in Finding : f.ts \in Nat
    BY FieldsOfFindings
  <2>1. OnFile \subseteq OnFile'
    BY <2>0, <2>3 DEF OnFile
  <2>2. file' \in Seq(OnFile)'
    BY <1>1, <2>1 DEF WatchdogTick, watchdogVars
  <2> QED
    BY <1>1, <2>2 DEF WatchdogTick, Tick, watchdogVars, AskingInv
<1>2. CASE Frame
  <2>1. reader' \in [n : 0 .. MaxRestarts, since : 0 .. now, processed : 0 .. MaxFrames,
                    alive : BOOLEAN]
    <3>1. reader.processed + 1 \in 0 .. MaxFrames
      <4>1. reader.processed \in 0 .. MaxFrames /\ reader.processed < MaxFrames
        BY <1>2 DEF Frame
      <4> QED
        BY <4>1
    <3> QED
      BY <1>2, <3>1 DEF Frame
  <2> QED
    BY <1>2, <2>1 DEF Frame, AskingInv, OnFile
<1>3. CASE ReaderDies
  BY <1>3 DEF ReaderDies, AskingInv, OnFile
<1>4. CASE RestartReader
  BY <1>4 DEF RestartReader, AskingInv, OnFile
<1>5. CASE Collect
  <2>1. PICK s : asking' = [snapshot |-> s, rules |-> RuleChecks(s, prev), at |-> now]
    BY <1>5 DEF Collect
  <2>2. AskingInv(asking)'
    BY <1>5, <2>1, RulesFind DEF AskingInv, Collect
  <2> QED
    BY <1>5, <2>2 DEF Collect, OnFile
<1>6. CASE CollectFails
  BY <1>6 DEF CollectFails, AskingInv, OnFile
<1>7. CASE WriteFinding
  <2> DEFINE found == {[fp |-> "validator/false-negative", severity |-> "warning",
                        source |-> "rule"]}
  <2>1. /\ IsFiniteSet(found)
        /\ found \subseteq [fp : Fingerprint, severity : DOMAIN Rank, source : {"rule", "ai"}]
    <3>1. "validator/false-negative" \in Fingerprint /\ "warning" \in DOMAIN Rank
      BY DEF Fingerprint, Rank
    <3>2. [fp |-> "validator/false-negative", severity |-> "warning", source |-> "rule"]
            \in [fp : Fingerprint, severity : DOMAIN Rank, source : {"rule", "ai"}]
      BY <3>1
    <3> QED
      BY <3>2, FS_Singleton
  <2>2. Lines(found, now, <<"validator", foreign>>) \in Seq(OnFile)
    BY <2>1, LinesGoOnFile
  <2> HIDE DEF found
  <2>3. file' \in Seq(OnFile)
    BY <1>7, <2>2 DEF WriteFinding, found
  <2>4. /\ foreign' \in Nat /\ UNCHANGED <<reader, nextRun, asking, now>>
    BY <1>7 DEF WriteFinding
  <2> QED
    BY <2>3, <2>4 DEF AskingInv, OnFile
<1>8. CASE Empty
  BY <1>8 DEF Empty, AskingInv, OnFile
<1>9. ASSUME NEW answer \in AiAnswers, Conclude(answer)
      PROVE  WatchdogInv'
  BY <1>9, ConcludeKeeps
<1>10. ASSUME NEW keys, DeleteById(keys)
       PROVE  WatchdogInv'
  <2>1. file' \in Seq(OnFile)
    <3>1. Without(file, keys) \in Seq(OnFile)
      BY DeletionKeeps
    <3> QED
      BY <1>10, <3>1 DEF DeleteById
  <2> QED
    BY <1>10, <2>1 DEF DeleteById, AskingInv, OnFile
<1>11. CASE UNCHANGED <<watchdogVars, now>>
  BY <1>11 DEF watchdogVars, AskingInv, OnFile
<1> QED
  BY <1>1, <1>2, <1>3, <1>4, <1>5, <1>6, <1>7, <1>8, <1>9, <1>10, <1>11 DEF WatchdogNext

(* What the invariant of the watchdog says of its variables and its queue.   *)
LEMMA WatchdogHolds == WatchdogInv => WatchdogTypeOK /\ IncidentsSummariseFile
<1> SUFFICES ASSUME WatchdogInv
             PROVE  WatchdogTypeOK /\ IncidentsSummariseFile
  OBVIOUS
<1>1. file \in Seq(Finding) /\ \A i \in DOMAIN file : file[i] \in Finding /\ file[i].ts <= now
  BY DEF WatchdogInv, OnFile
<1>2. \A i \in DOMAIN file : /\ file[i].severity \in DOMAIN Rank
                             /\ file[i].source \in {"rule", "ai"} /\ file[i].ts \in 0 .. now
  BY <1>1 DEF Finding, WatchdogInv
<1> QED
  BY <1>1, <1>2, FileIsSummarised DEF WatchdogInv, WatchdogTypeOK

(* Whatever checks, stream losses and deletions wrote to the file: the       *)
(* incident queue of the watchdog has one row for each fingerprint on file,  *)
(* with the worst severity, the first and the last time and the count of     *)
(* its lines, and no other row (_group_findings() of watchdog.py).           *)
THEOREM IncidentsTellTheFile == WatchdogSpec => []IncidentsSummariseFile
BY InitWatchdog, WatchdogStep, WatchdogHolds, PTL DEF WatchdogSpec
-----------------------------------------------------------------------------
(* What the newest of a sequence are.                                          *)
LEMMA LastOfFacts ==
  ASSUME NEW S, NEW s \in Seq(S), NEW n \in Nat \ {0}
  PROVE  /\ LastOf(s, n) \in Seq(S) /\ Len(LastOf(s, n)) \in Nat /\ Len(s) \in Nat
         /\ Len(LastOf(s, n)) = IF Len(s) > n THEN n ELSE Len(s)
         /\ \A i \in 1 .. Len(LastOf(s, n)) :
              LastOf(s, n)[i] = s[(Len(s) - Len(LastOf(s, n))) + i]
<1> DEFINE m == Len(s) - n
<1>1. CASE Len(s) > n
  <2>1. m \in 0 .. Len(s) /\ Len(s) - n + 1 = m + 1
    BY <1>1
  <2> DEFINE t == SubSeq(s, m + 1, Len(s))
  <2>2. t \in Seq(S) /\ Len(t) = n /\ \A i \in 1 .. n : t[i] = s[m + i]
    BY <2>1
  <2>3. LastOf(s, n) = t
    BY <1>1, <2>1 DEF LastOf
  <2> HIDE DEF t
  <2> QED
    BY <1>1, <2>2, <2>3
<1>2. CASE ~ (Len(s) > n)
  BY <1>2 DEF LastOf
<1> QED
  BY <1>1, <1>2

(* What runs may record: an answer, a failure, and a narration that is skipped.*)
Kind == {AgentKind[r] : r \in AgentRun} \cup {"narration"}

(* A call on record: skipped when and only when it is a narration.           *)
RecordedCall == {c \in [kind : Kind, model : {"haiku"}, tokens : Nat, took : Nat, ok : BOOLEAN,
                skip : {None, "rate_budget_exhausted"}, error : {None, "unreachable"}] :
           c.skip # None <=> c.kind = "narration"}

(* The narrations among all calls ever recorded.                             *)
Narrations == {i \in DOMAIN recorded : recorded[i] = "narration"}

(* The ring holds the newest of the calls; the totals count them all.        *)
RecordsInv ==
  /\ ring \in Seq(RecordedCall) /\ recorded \in Seq(Kind)
  /\ Len(ring) = IF Len(recorded) > RingMax THEN RingMax ELSE Len(recorded)
  /\ \A i \in 1 .. Len(ring) : ring[i].kind = recorded[(Len(recorded) - Len(ring)) + i]
  /\ totals \in [calls : Nat, errors : Nat, skips : Nat]
  /\ totals.calls = Len(recorded)
  /\ IsFiniteSet(Narrations) /\ totals.skips = Cardinality(Narrations)

(* What a call is made of.                                                     *)
LEMMA FieldsOfCall ==
  \A c \in RecordedCall : /\ c.kind \in Kind /\ c.took \in Nat /\ c.ok \in BOOLEAN
                  /\ c.skip # None <=> c.kind = "narration"
BY DEF RecordedCall

(* The calls that are recorded.                                                *)
LEMMA CallsAreTyped ==
  /\ \A r \in AgentRun, t \in Nat :
       LET c == Answered(AgentKind[r], "haiku", t, 1) IN c \in RecordedCall /\ c.kind = AgentKind[r] /\ c.ok
  /\ \A r \in AgentRun :
       LET c == Failed(AgentKind[r], "haiku", 1, "unreachable")
       IN c \in RecordedCall /\ c.kind = AgentKind[r] /\ ~c.ok
  /\ LET c == Skipped("narration", "haiku", "rate_budget_exhausted")
     IN c \in RecordedCall /\ c.kind = "narration" /\ c.ok
<1>1. \A r \in AgentRun : AgentKind[r] \in Kind /\ AgentKind[r] # "narration"
  BY AgentAssumption DEF Kind
<1>2. None # "rate_budget_exhausted" /\ "narration" \in Kind
  BY AgentAssumption DEF Kind
<1> QED
  BY <1>1, <1>2 DEF Answered, Failed, Skipped, RecordedCall

(* Where the newest stand in the ring and in the history, after one more.      *)
LEMMA Shifted ==
  ASSUME NEW n \in Nat \ {0}, NEW q \in Nat, NEW p \in Nat, p = IF q > n THEN n ELSE q,
         NEW new \in Nat, new = IF p + 1 > n THEN n ELSE p + 1, NEW i \in 1 .. new
  PROVE  /\ new = IF q + 1 > n THEN n ELSE q + 1
         /\ (p + 1 - new) + i \in 1 .. p + 1
         /\ (q + 1 - new) + i = (q - p) + ((p + 1 - new) + i)
         /\ \A j \in 1 .. p : (q - p) + j \in 1 .. q
         /\ (q - p) + (p + 1) = q + 1
OBVIOUS

(* A record keeps the ring in step with the history.                           *)
LEMMA CallIsKept ==
  ASSUME RecordsInv, NEW c \in RecordedCall, Record(c), recorded' = Append(recorded, c.kind)
  PROVE  /\ RecordsInv'
         /\ totals'.errors = totals.errors + (IF c.ok THEN 0 ELSE 1)
<1> DEFINE all == Append(ring, c)
<1> USE DEF RecordsInv
<1>1. c.kind \in Kind /\ (c.skip # None <=> c.kind = "narration")
  BY DEF RecordedCall
<1>2. /\ recorded' \in Seq(Kind) /\ Len(recorded) \in Nat /\ Len(recorded') = Len(recorded) + 1
      /\ \A i \in 1 .. Len(recorded) : recorded'[i] = recorded[i]
      /\ recorded'[Len(recorded) + 1] = c.kind
      /\ DOMAIN recorded' = 1 .. Len(recorded) + 1 /\ DOMAIN recorded = 1 .. Len(recorded)
  BY <1>1
<1>3. /\ all \in Seq(RecordedCall) /\ Len(ring) \in Nat /\ Len(all) = Len(ring) + 1
      /\ \A i \in 1 .. Len(ring) : all[i] = ring[i]
      /\ all[Len(ring) + 1] = c
  OBVIOUS
<1>4. RingMax \in Nat \ {0}
  BY ObserverAssumption
<1> HIDE DEF all
<1>5. /\ ring' \in Seq(RecordedCall) /\ Len(ring') \in Nat /\ Len(all) \in Nat
      /\ Len(ring') = IF Len(all) > RingMax THEN RingMax ELSE Len(all)
      /\ \A i \in 1 .. Len(ring') : ring'[i] = all[(Len(all) - Len(ring')) + i]
  <2>1. ring' = LastOf(all, RingMax)
    BY DEF Record, all
  <2> QED
    BY <1>3, <1>4, <2>1, LastOfFacts
<1>6. PICK n \in Nat \ {0}, q \in Nat, p \in Nat, new \in Nat :
           n = RingMax /\ q = Len(recorded) /\ p = Len(ring) /\ new = Len(ring')
  BY <1>2, <1>3, <1>4, <1>5
<1>7. /\ Len(ring') = IF Len(recorded') > RingMax THEN RingMax ELSE Len(recorded')
      /\ \A i \in 1 .. Len(ring') : ring'[i].kind = recorded'[(Len(recorded') - Len(ring')) + i]
  <2>0. n \in Nat \ {0} /\ q \in Nat /\ p \in Nat /\ new \in Nat
    BY <1>6
  <2>1. p = (IF q > n THEN n ELSE q) /\ new = (IF p + 1 > n THEN n ELSE p + 1)
    BY <1>3, <1>5, <1>6
  <2>2. new = IF q + 1 > n THEN n ELSE q + 1
    BY <2>1, <1>6
  <2>3. ASSUME NEW i \in 1 .. new
        PROVE  ring'[i].kind = recorded'[(q + 1 - new) + i]
    <3>1. PICK j : j = (p + 1 - new) + i
      OBVIOUS
    <3>2. /\ j \in 1 .. p + 1
          /\ (q + 1 - new) + i = (q - p) + j
          /\ j \in 1 .. p => (q - p) + j \in 1 .. q
          /\ (q - p) + (p + 1) = q + 1
      BY <2>0, <2>1, <3>1, Shifted
    <3>3. ring'[i] = all[j]
      <4>1. i \in 1 .. Len(ring') /\ (Len(all) - Len(ring')) + i = j
        BY <1>3, <1>6, <3>1
      <4> QED
        BY <1>5, <4>1
    <3>4. CASE j = p + 1
      BY <1>2, <1>3, <1>6, <3>2, <3>3, <3>4
    <3>5. CASE j \in 1 .. p
      <4>1. ring[j].kind = recorded[(q - p) + j]
        BY <1>6, <3>5
      <4>2. recorded'[(q - p) + j] = recorded[(q - p) + j]
        BY <1>2, <1>6, <3>2, <3>5
      <4>3. ring'[i] = ring[j]
        BY <1>3, <1>6, <3>3, <3>5
      <4> QED
        BY <3>2, <4>1, <4>2, <4>3
    <3>6. j = p + 1 \/ j \in 1 .. p
      BY <3>2, <1>6
    <3> QED
      BY <3>4, <3>5, <3>6
  <2>4. Len(ring') = IF Len(recorded') > RingMax THEN RingMax ELSE Len(recorded')
    BY <1>2, <1>6, <2>2
  <2>5. ASSUME NEW i \in 1 .. Len(ring')
        PROVE  ring'[i].kind = recorded'[(Len(recorded') - Len(ring')) + i]
    <3>1. Len(ring') = new /\ Len(recorded') = q + 1
      BY <1>2, <1>6
    <3>2. i \in 1 .. new /\ (Len(recorded') - Len(ring')) + i = (q + 1 - new) + i
      BY <3>1
    <3> QED
      BY <2>3, <3>2
  <2> QED
    BY <2>4, <2>5
<1>8. /\ totals' \in [calls : Nat, errors : Nat, skips : Nat]
      /\ totals'.calls = Len(recorded')
      /\ totals'.skips = totals.skips + (IF c.skip # None THEN 1 ELSE 0)
      /\ totals'.errors = totals.errors + (IF c.ok THEN 0 ELSE 1)
  BY <1>2 DEF Record
<1>9. IsFiniteSet(Narrations)' /\ totals'.skips = Cardinality(Narrations')
  <2>1. CASE c.kind = "narration"
    <3>1. Narrations' = Narrations \cup {Len(recorded) + 1} /\ Len(recorded) + 1 \notin Narrations
      BY <1>2, <2>1 DEF Narrations
    <3>2. /\ IsFiniteSet(Narrations \cup {Len(recorded) + 1})
          /\ Cardinality(Narrations \cup {Len(recorded) + 1}) = Cardinality(Narrations) + 1
      BY <3>1, FS_AddElement
    <3> QED
      BY <1>1, <1>8, <2>1, <3>1, <3>2
  <2>2. CASE c.kind # "narration"
    <3>1. Narrations' = Narrations
      BY <1>2, <2>2 DEF Narrations
    <3> QED
      BY <1>1, <1>8, <2>2, <3>1
  <2> QED
    BY <2>1, <2>2
<1> QED
  BY <1>2, <1>5, <1>7, <1>8, <1>9
-----------------------------------------------------------------------------
(* The k-th latency of n rises with k.                                         *)
LEMMA LatencyRises ==
  ASSUME NEW rs, NEW timed, IsFiniteSet(timed), \A i \in timed : rs[i].took \in Nat,
         NEW k \in Nat, NEW l \in Nat, k <= l, 0 < l, l <= Cardinality(timed)
  PROVE  /\ Latency(rs, timed, k) \in Nat /\ Latency(rs, timed, l) \in Nat
         /\ Latency(rs, timed, k) <= Latency(rs, timed, l)
<1> DEFINE UpTo(i) == {j \in timed : rs[j].took <= rs[i].took}
           size == [j \in timed |-> Cardinality(UpTo(j))]
           n == Cardinality(timed)
           Long(m) == {rs[i].took : i \in {j \in timed : size[j] >= m}}
<1>1. n \in Nat
  BY FS_CardinalityType
<1>2. ASSUME NEW j \in timed
      PROVE  /\ IsFiniteSet(UpTo(j)) /\ UpTo(j) \subseteq timed
             /\ size[j] \in 1 .. n
  <2>1. IsFiniteSet(UpTo(j)) /\ Cardinality(UpTo(j)) <= n
    BY FS_Subset
  <2>2. Cardinality(UpTo(j)) \in Nat
    BY <2>1, FS_CardinalityType
  <2>3. UpTo(j) # {}
    OBVIOUS
  <2>4. Cardinality(UpTo(j)) # 0
    BY <2>1, <2>3, FS_EmptySet
  <2> QED
    BY <1>1, <2>1, <2>2, <2>4
<1>3. PICK top \in timed : \A j \in timed : size[j] <= size[top]
  <2> DEFINE T == {size[j] : j \in timed}
  <2>1. timed # {}
    BY FS_EmptySet
  <2> HIDE DEF size, n
  <2>2. T \subseteq 1 .. n /\ T # {}
    BY <1>2, <2>1
  <2>3. Max(T) \in T /\ \A x \in T : x <= Max(T)
    <3> HIDE DEF T
    <3> QED
      BY <1>1, <2>2, Greatest
  <2> QED
    BY <2>3
<1>4. UpTo(top) = timed
  <2>1. SUFFICES ASSUME NEW i \in timed, rs[i].took > rs[top].took
                 PROVE  FALSE
    OBVIOUS
  <2>2. UpTo(top) \subseteq UpTo(i) /\ UpTo(top) # UpTo(i)
    BY <2>1
  <2>3. Cardinality(UpTo(top)) < Cardinality(UpTo(i))
    BY <1>2, <2>2, FS_Subset, FS_CardinalityType
  <2> QED
    BY <1>2, <1>3, <2>3
<1>5. size[top] = n
  BY <1>4
<1>6. Latency(rs, timed, k) = Min(Long(k)) /\ Latency(rs, timed, l) = Min(Long(l))
  BY DEF Latency
<1> HIDE DEF size, n
<1>7. /\ Long(l) \subseteq Long(k) /\ Long(k) \subseteq Nat /\ Long(l) \subseteq Nat
      /\ Long(l) # {} /\ Long(k) # {}
  <2>1. rs[top].took \in Long(l)
    BY <1>1, <1>3, <1>5 DEF n
  <2>2. \A x \in 1 .. n : x \in Nat /\ (x >= l => x >= k)
    BY <1>1
  <2>3. \A j \in timed : size[j] \in 1 .. n
    BY <1>2
  <2>4. \A j \in timed : size[j] >= l => size[j] >= k
    BY <2>2, <2>3
  <2> QED
    BY <2>1, <2>4
<1> HIDE DEF Long
<1>8. \A T : T \subseteq Nat /\ T # {} => Min(T) \in T /\ \A x \in T : Min(T) <= x
  BY LeastNatural DEF Min
<1> QED
  BY <1>6, <1>7, <1>8

(* Half of the latencies are no longer than the slowest twentieth's fastest.   *)
LEMMA MedianBelowP95 ==
  ASSUME NEW rs, NEW timed, IsFiniteSet(timed), \A i \in timed : rs[i].took \in Nat
  PROVE  TwiceP50(rs, timed) <= 2 * P95(rs, timed)
<1> DEFINE n == Cardinality(timed)
<1>1. n \in Nat
  BY FS_CardinalityType
<1>2. CASE n = 0
  BY <1>2 DEF TwiceP50, P95
<1>3. CASE n > 0
  <2>1. PICK a \in Nat, b \in Nat, c \in Nat :
             /\ a = (n + 1) \div 2 /\ b = n \div 2 + 1 /\ c = (95 * n) \div 100 + 1
             /\ a <= c /\ b <= c /\ 0 < c /\ c <= n
    <3> HIDE DEF n
    <3> QED
      BY <1>1, <1>3
  <2>2. /\ Latency(rs, timed, a) \in Nat /\ Latency(rs, timed, c) \in Nat
        /\ Latency(rs, timed, a) <= Latency(rs, timed, c)
    BY <2>1, LatencyRises
  <2>3. /\ Latency(rs, timed, b) \in Nat
        /\ Latency(rs, timed, b) <= Latency(rs, timed, c)
    BY <2>1, LatencyRises
  <2>4. /\ TwiceP50(rs, timed) = Latency(rs, timed, a) + Latency(rs, timed, b)
        /\ P95(rs, timed) = Latency(rs, timed, c)
    BY <1>3, <2>1 DEF TwiceP50, P95
  <2> QED
    BY <2>2, <2>3, <2>4
<1> QED
  BY <1>1, <1>2, <1>3

(* What the page shows of each kind of call.                                   *)
LEMMA StatsOfKinds ==
  ASSUME RecordsInv
  PROVE  LET byKind == Stats(ring).byKind
         IN /\ "narration" \in DOMAIN byKind => byKind["narration"].p95 = 0
            /\ \A k \in DOMAIN byKind : byKind[k].p50 <= 2 * byKind[k].p95
<1> DEFINE byKind == Split(ring, "kind")
           At(k) == {i \in DOMAIN ring : ring[i]["kind"] = k}
<1>1. Stats(ring).byKind = byKind
  BY DEF Stats
<1>2. \A k \in DOMAIN byKind : /\ byKind[k].p50 = TwiceP50(ring, Timed(ring, At(k)))
                               /\ byKind[k].p95 = P95(ring, Timed(ring, At(k)))
  BY DEF Split, Group
<1>3. /\ ring \in Seq(RecordedCall) /\ DOMAIN ring = 1 .. Len(ring) /\ Len(ring) \in Nat
      /\ \A i \in DOMAIN ring : ring[i] \in RecordedCall
  BY DEF RecordsInv
<1>4. ASSUME NEW k
      PROVE  /\ IsFiniteSet(Timed(ring, At(k)))
             /\ \A i \in Timed(ring, At(k)) : ring[i].took \in Nat
  <2>1. Timed(ring, At(k)) \subseteq DOMAIN ring
    BY DEF Timed
  <2>2. IsFiniteSet(DOMAIN ring)
    BY <1>3, FS_Interval
  <2>3. \A c \in RecordedCall : c.took \in Nat
    BY DEF RecordedCall
  <2> QED
    BY <1>3, <2>1, <2>2, <2>3, FS_Subset
<1>5. P95(ring, Timed(ring, At("narration"))) = 0
  <2>1. Timed(ring, At("narration")) = {}
    <3>1. \A i \in DOMAIN ring : ring[i].kind = "narration" => ring[i].skip # None
      BY <1>3, FieldsOfCall
    <3> QED
      BY <3>1 DEF Timed
  <2> QED
    BY <2>1, FS_EmptySet DEF P95
<1>6. \A k : TwiceP50(ring, Timed(ring, At(k))) <= 2 * P95(ring, Timed(ring, At(k)))
  BY <1>4, MedianBelowP95
<1> HIDE DEF byKind, At
<1> QED
  BY <1>1, <1>2, <1>5, <1>6
-----------------------------------------------------------------------------
(* The names of the tools of one turn, and of some.                            *)
NamesOf(uses) == [i \in DOMAIN uses |-> uses[i].name]

(* The tools that some turn may ask for.                                     *)
Tool == UNION {{uses[i].name : i \in DOMAIN uses} : uses \in ToolUses}

(* The names of one turn are tools.                                          *)
LEMMA NamesAreTyped ==
  ASSUME NEW uses \in ToolUses
  PROVE  NamesOf(uses) \in Seq(Tool)
<1>1. PICK n \in Nat : n = Len(uses) /\ DOMAIN uses = 1 .. n
  BY AgentAssumption
<1>2. \A i \in 1 .. n : uses[i].name \in Tool
  BY <1>1 DEF Tool
<1> QED
  BY <1>1, <1>2 DEF NamesOf

(* A log is written turn by turn.                                              *)
LEMMA LogSteps ==
  ASSUME NEW n \in Nat, NEW asked \in [1 .. n -> ToolUses]
  PROVE  \E h \in [0 .. n -> Seq(Tool)] :
           /\ h[0] = <<>> /\ h[n] = NamesIn(asked)
           /\ \A m \in 1 .. n : h[m] = h[m - 1] \o NamesOf(asked[m])
<1> DEFINE D == DOMAIN asked
           Is(f) == f = [t \in SUBSET D |->
                           IF t = {} THEN <<>>
                           ELSE f[t \ {Max(t)}]
                                  \o [i \in DOMAIN asked[Max(t)] |-> asked[Max(t)][i].name]]
<1>1. D = 1 .. n
  OBVIOUS
<1>2. PICK A, none : A = Seq(Tool) /\ none = <<>>
  OBVIOUS
<1>3. PICK step \in [A \X (1 .. n) -> A] :
           \A a \in A, i \in 1 .. n : step[<<a, i>>] = a \o NamesOf(asked[i])
  <2> DEFINE step == [p \in A \X (1 .. n) |-> p[1] \o NamesOf(asked[p[2]])]
  <2>1. \A i \in 1 .. n : NamesOf(asked[i]) \in Seq(Tool)
    BY NamesAreTyped
  <2>2. \A a \in A, i \in 1 .. n : a \o NamesOf(asked[i]) \in A
    BY <1>2, <2>1
  <2>3. step \in [A \X (1 .. n) -> A]
    BY <2>2
  <2> QED
    BY <2>3
<1>4. none \in A /\ n \in Nat /\ step \in [A \X (1 .. n) -> A]
  BY <1>2, <1>3
<1>5. PICK g \in Solutions(A, n, none, step, n) : TRUE
  BY <1>4, FoldExists
<1>6. /\ g \in [SUBSET (1 .. n) -> A] /\ g[{}] = none
      /\ \A t \in SUBSET (1 .. n) : t # {} => g[t] = step[<<g[t \ {Max(t)}], Max(t)>>]
  BY DEF Solutions
<1>7. Is(g)
  <2>1. ASSUME NEW t \in SUBSET D
        PROVE  g[t] = IF t = {} THEN <<>>
                      ELSE g[t \ {Max(t)}]
                             \o [i \in DOMAIN asked[Max(t)] |-> asked[Max(t)][i].name]
    <3>1. CASE t # {}
      <4>1. Max(t) \in 1 .. n
        BY <1>1, <3>1, Greatest
      <4>2. t \ {Max(t)} \in SUBSET (1 .. n) /\ g[t \ {Max(t)}] \in A
        BY <1>1, <1>6
      <4>3. g[t] = g[t \ {Max(t)}] \o NamesOf(asked[Max(t)])
        BY <1>1, <1>3, <1>6, <3>1, <4>1, <4>2
      <4> QED
        BY <3>1, <4>3 DEF NamesOf
    <3> QED
      BY <1>2, <1>6, <3>1
  <2> QED
    BY <1>1, <1>6, <2>1
<1> DEFINE f == CHOOSE f : Is(f)
<1>8. Is(f)
  <2> HIDE DEF Is
  <2> QED
    BY <1>7
<1>9. NamesIn(asked) = f[D]
  BY DEF NamesIn, FoldLeft, MapThenFoldSet
<1> HIDE DEF f
<1>10. f[{}] = none
  BY <1>2, <1>8
<1>11. ASSUME NEW m \in 1 .. n, f[1 .. m - 1] \in A
       PROVE  f[1 .. m] = step[<<f[1 .. m - 1], m>>]
  <2>1. /\ 1 .. m \in SUBSET (1 .. n)
        /\ 1 .. m # {}
        /\ Max(1 .. m) = m
        /\ (1 .. m) \ {Max(1 .. m)} = 1 .. m - 1
    BY FirstIndices
  <2>2. \A t \in SUBSET (1 .. n) :
          t # {} => f[t] = f[t \ {Max(t)}]
                             \o [i \in DOMAIN asked[Max(t)] |-> asked[Max(t)][i].name]
    BY <1>1, <1>8
  <2>3. \A t \in SUBSET (1 .. n) :
          t # {} => f[t] = f[t \ {Max(t)}] \o NamesOf(asked[Max(t)])
    BY <2>2 DEF NamesOf
  <2>4. f[1 .. m] = f[1 .. m - 1] \o NamesOf(asked[m])
    BY <2>1, <2>3
  <2> QED
    BY <1>3, <1>11, <2>4
<1>12. PICK h \in Walks(f, A, n, step) : TRUE
  <2>1. Recursion(f, A, n, step)
    BY <1>4, <1>10, <1>11 DEF Recursion
  <2> QED
    BY <1>4, <2>1, FoldPrefixes
<1>13. \A m \in 1 .. n : h[m] = h[m - 1] \o NamesOf(asked[m])
  <2>1. \A m \in 1 .. n : m - 1 \in 0 .. n
    OBVIOUS
  <2> QED
    BY <1>3, <2>1 DEF Walks
<1>14. h \in [0 .. n -> A] /\ h[0] = none /\ h[n] = f[1 .. n]
  BY <1>10 DEF Walks
<1> QED
  BY <1>1, <1>2, <1>9, <1>13, <1>14

(* One more turn adds its names to the log.                                    *)
LEMMA LogGrows ==
  ASSUME NEW n \in Nat, NEW a \in [1 .. n -> ToolUses], NEW b \in [1 .. n + 1 -> ToolUses],
         \A k \in 1 .. n : a[k] = b[k]
  PROVE  NamesIn(b) = NamesIn(a) \o NamesOf(b[n + 1])
<1>1. PICK h \in [0 .. n -> Seq(Tool)] :
           /\ h[0] = <<>> /\ h[n] = NamesIn(a)
           /\ \A m \in 1 .. n : h[m] = h[m - 1] \o NamesOf(a[m])
  BY LogSteps
<1>2. PICK l \in Nat : l = n + 1
  OBVIOUS
<1>3. b \in [1 .. l -> ToolUses]
  BY <1>2
<1>4. PICK g \in [0 .. l -> Seq(Tool)] :
           /\ g[0] = <<>> /\ g[l] = NamesIn(b)
           /\ \A m \in 1 .. l : g[m] = g[m - 1] \o NamesOf(b[m])
  BY <1>3, LogSteps
<1> DEFINE T == {k \in Nat : k <= n => g[k] = h[k]}
<1>5. 0 \in T
  BY <1>1, <1>4
<1>6. ASSUME NEW k \in Nat, k \in T
      PROVE  k + 1 \in T
  <2>1. ASSUME NEW m \in 1 .. n, m = k + 1
        PROVE  g[m] = h[m]
    <3>1. m - 1 = k /\ g[m - 1] = h[m - 1] /\ m \in 1 .. l
      BY <1>2, <1>6, <2>1
    <3> QED
      BY <1>1, <1>4, <3>1
  <2> QED
    BY <2>1
<1> HIDE DEF T
<1>7. n \in T
  BY <1>5, <1>6, SetInduction
<1>8. g[n] = h[n]
  BY <1>7 DEF T
<1>9. g[l] = g[n] \o NamesOf(b[l])
  <2>1. l \in 1 .. l /\ l - 1 = n
    BY <1>2
  <2> QED
    BY <1>4, <2>1
<1> QED
  BY <1>1, <1>2, <1>4, <1>8, <1>9

(* No turn, no name.                                                           *)
LEMMA LogStartsEmpty == \A a \in [1 .. 0 -> ToolUses] : NamesIn(a) = <<>>
<1> TAKE a \in [1 .. 0 -> ToolUses]
<1>1. PICK n \in Nat : n = 0
  OBVIOUS
<1>2. a \in [1 .. n -> ToolUses]
  BY <1>1
<1>3. PICK h \in [0 .. n -> Seq(Tool)] : h[0] = <<>> /\ h[n] = NamesIn(a)
  BY <1>2, LogSteps
<1> QED
  BY <1>1, <1>3
-----------------------------------------------------------------------------
(* What a run is made of: n times a turn that asks and a turn that answers.    *)
Stage == {"idle", "asking", "ended", "refused", "raised"}

(* A run whose turns are in S.                                               *)
RunOver(S) == [stage : Stage, turns : Seq(S), log : Seq(Tool), step : 0 .. StepMax, ok : BOOLEAN]

(* Each use has its answer, in order.                                        *)
Answers(asks, results) ==
  [j \in DOMAIN results |-> results[j].answers] = [j \in DOMAIN asks |-> <<j, asks[j]>>]

(* The uses that the first n pairs of turns asked for.                       *)
Asked(turns, n) == [k \in 1 .. n |-> turns[2 * k - 1].asks]

(* The turns are n pairs and the log names the tools of the pairs.           *)
InPairs(turns, log, n) ==
  /\ Len(turns) = 2 * n
  /\ \A k \in 1 .. n : /\ turns[2 * k - 1].asks \in ToolUses
                       /\ Answers(turns[2 * k - 1].asks, turns[2 * k].results)
  /\ log = NamesIn(Asked(turns, n))

(* While a run is under way, each step so far made one pair.                 *)
RunInv(run) ==
  /\ \E S : run \in RunOver(S)
  /\ \E n \in 0 .. run.step : InPairs(run.turns, run.log, n)
  /\ run.stage \in {"idle", "asking"} =>
       /\ run.step < StepMax
       /\ InPairs(run.turns, run.log, run.step)

(* What follows two elements more.                                             *)
LEMMA TwoMore ==
  ASSUME NEW S, NEW s \in Seq(S), NEW x \in S, NEW y \in S
  PROVE  /\ s \o <<x, y>> \in Seq(S) /\ Len(s) \in Nat
         /\ Len(s \o <<x, y>>) = Len(s) + 2
         /\ \A i \in 1 .. Len(s) : (s \o <<x, y>>)[i] = s[i]
         /\ (s \o <<x, y>>)[Len(s) + 1] = x /\ (s \o <<x, y>>)[Len(s) + 2] = y
<1>1. <<x, y>> \in Seq(S) /\ Len(<<x, y>>) = 2
  OBVIOUS
<1> QED
  BY <1>1

(* A turn that asks for tools and the one that answers it make one more pair.  *)
LEMMA PairAdded ==
  ASSUME NEW S, NEW turns \in Seq(S), NEW log \in Seq(Tool), NEW n \in Nat,
         InPairs(turns, log, n), NEW uses \in ToolUses
  PROVE  LET more == turns \o << [asks |-> uses], [results |-> Results(uses)] >>
         IN /\ \E Z : more \in Seq(Z)
            /\ log \o [i \in DOMAIN uses |-> uses[i].name] \in Seq(Tool)
            /\ InPairs(more, log \o [i \in DOMAIN uses |-> uses[i].name], n + 1)
<1> DEFINE results == Results(uses)
           questions == [asks |-> uses]
           replies == [results |-> results]
           Z == S \cup {questions, replies}
           more == turns \o <<questions, replies>>
           newLog == log \o NamesOf(uses)
<1>1. NamesOf(uses) = [i \in DOMAIN uses |-> uses[i].name]
  BY DEF NamesOf
<1>2. newLog \in Seq(Tool)
  BY NamesAreTyped
<1>3. /\ DOMAIN results = DOMAIN uses
      /\ \A j \in DOMAIN uses : results[j].answers = <<j, uses[j]>>
  BY DEF Results
<1>4. Answers(uses, results)
  BY <1>3 DEF Answers
<1>5. questions.asks = uses /\ replies.results = results
  OBVIOUS
<1> HIDE DEF results, questions, replies
<1>6. /\ more \in Seq(Z) /\ Len(more) = 2 * n + 2
      /\ \A i \in 1 .. 2 * n : more[i] = turns[i]
      /\ more[2 * n + 1] = questions /\ more[2 * n + 2] = replies
  <2>1. Len(turns) = 2 * n /\ turns \in Seq(Z) /\ questions \in Z /\ replies \in Z
    BY DEF InPairs
  <2> HIDE DEF Z
  <2> QED
    BY <2>1, TwoMore
<1> HIDE DEF more
<1>7. \A k \in 1 .. n + 1 : k \in 1 .. n \/ k = n + 1
  OBVIOUS
<1>8. \A k \in 1 .. n : 2 * k - 1 \in 1 .. 2 * n /\ 2 * k \in 1 .. 2 * n
  OBVIOUS
<1>9. \A k \in 1 .. n : more[2 * k - 1] = turns[2 * k - 1] /\ more[2 * k] = turns[2 * k]
  BY <1>6, <1>8
<1>10. more[2 * (n + 1) - 1] = questions /\ more[2 * (n + 1)] = replies
  <2>1. 2 * (n + 1) - 1 = 2 * n + 1 /\ 2 * (n + 1) = 2 * n + 2
    OBVIOUS
  <2> QED
    BY <1>6, <2>1
<1>11. \A k \in 1 .. n + 1 : /\ more[2 * k - 1].asks \in ToolUses
                             /\ Answers(more[2 * k - 1].asks, more[2 * k].results)
  BY <1>4, <1>5, <1>7, <1>9, <1>10 DEF InPairs
<1>12. newLog = NamesIn(Asked(more, n + 1))
  <2>1. PICK a, b : a = Asked(turns, n) /\ b = Asked(more, n + 1)
    OBVIOUS
  <2>2. a \in [1 .. n -> ToolUses] /\ b \in [1 .. n + 1 -> ToolUses]
    BY <1>11, <2>1 DEF Asked, InPairs
  <2>3. (\A k \in 1 .. n : a[k] = b[k]) /\ b[n + 1] = uses
    BY <1>5, <1>9, <1>10, <2>1 DEF Asked
  <2>4. NamesIn(b) = NamesIn(a) \o NamesOf(b[n + 1])
    BY <2>2, <2>3, LogGrows
  <2> QED
    BY <2>1, <2>3, <2>4 DEF InPairs
<1>13. InPairs(more, newLog, n + 1)
  BY <1>6, <1>11, <1>12 DEF InPairs
<1> QED
  BY <1>1, <1>2, <1>6, <1>13 DEF more, questions, replies, results
-----------------------------------------------------------------------------
(* A run that starts, is refused or raises.                                    *)
LEMMA RunMoves ==
  ASSUME NEW run, RunInv(run), run.stage \in {"idle", "asking"},
         NEW to \in Stage \ {"idle"}
  PROVE  LET new == [run EXCEPT !.stage = to]
         IN RunInv(new) /\ new.stage = to
<1> DEFINE new == [run EXCEPT !.stage = to]
<1>1. PICK S : run \in RunOver(S)
  BY DEF RunInv
<1>2. /\ new \in RunOver(S) /\ new.stage = to /\ new.step = run.step
      /\ new.turns = run.turns /\ new.log = run.log
  BY <1>1 DEF RunOver
<1> HIDE DEF new
<1>3. RunInv(new)
  BY <1>2 DEF RunInv
<1> QED
  BY <1>2, <1>3 DEF new

(* A run that fails.                                                           *)
LEMMA RunFails ==
  ASSUME NEW run, RunInv(run), run.stage = "asking"
  PROVE  LET new == [run EXCEPT !.stage = "ended", !.ok = FALSE]
         IN RunInv(new) /\ new.stage = "ended" /\ new.ok = FALSE
<1> DEFINE new == [run EXCEPT !.stage = "ended", !.ok = FALSE]
<1>1. PICK S : run \in RunOver(S)
  BY DEF RunInv
<1>2. /\ new \in RunOver(S) /\ new.stage = "ended" /\ new.ok = FALSE /\ new.step = run.step
      /\ new.turns = run.turns /\ new.log = run.log
  BY <1>1 DEF RunOver, Stage
<1> HIDE DEF new
<1>3. RunInv(new)
  BY <1>2 DEF RunInv
<1> QED
  BY <1>2, <1>3 DEF new

(* A run that is answered.                                                     *)
LEMMA RunAnswered ==
  ASSUME NEW run, RunInv(run), run.stage = "asking"
  PROVE  LET new == [run EXCEPT !.stage = "ended", !.step = run.step + 1, !.ok = TRUE]
         IN RunInv(new) /\ new.stage = "ended" /\ new.ok = TRUE
<1> DEFINE new == [run EXCEPT !.stage = "ended", !.step = run.step + 1, !.ok = TRUE]
<1>1. PICK S : run \in RunOver(S)
  BY DEF RunInv
<1>2. run.step \in Nat /\ run.step + 1 \in 0 .. StepMax
  BY <1>1, AgentAssumption DEF RunOver, RunInv
<1>3. /\ new \in RunOver(S) /\ new.stage = "ended" /\ new.ok = TRUE
      /\ new.step = run.step + 1 /\ new.turns = run.turns /\ new.log = run.log
  BY <1>1, <1>2 DEF RunOver, Stage
<1> HIDE DEF new
<1>4. PICK n \in 0 .. run.step : InPairs(run.turns, run.log, n)
  BY DEF RunInv
<1>5. n \in 0 .. new.step
  BY <1>2, <1>3, <1>4
<1>6. RunInv(new)
  BY <1>3, <1>4, <1>5 DEF RunInv
<1> QED
  BY <1>3, <1>6 DEF new

(* A run that is given what it asked for.                                      *)
LEMMA RunAsks ==
  ASSUME NEW run, RunInv(run), run.stage = "asking", NEW uses \in ToolUses
  PROVE  LET new == [run EXCEPT
               !.turns = @ \o << [asks |-> uses], [results |-> Results(uses)] >>,
               !.log = @ \o [i \in DOMAIN uses |-> uses[i].name],
               !.step = @ + 1]
         IN /\ new.step # StepMax => RunInv(new) /\ new.stage = "asking"
            /\ LET last == [new EXCEPT !.stage = "ended", !.ok = TRUE]
               IN RunInv(last) /\ last.stage = "ended" /\ last.ok
<1>1. PICK S : run \in RunOver(S)
  BY DEF RunInv
<1>2. /\ run.turns \in Seq(S) /\ run.log \in Seq(Tool) /\ run.step \in Nat
      /\ run.step < StepMax /\ StepMax \in Nat
      /\ InPairs(run.turns, run.log, run.step)
  BY <1>1, AgentAssumption DEF RunOver, RunInv
<1>3. PICK turns, log : /\ turns = run.turns \o << [asks |-> uses], [results |-> Results(uses)] >>
                        /\ log = run.log \o [i \in DOMAIN uses |-> uses[i].name]
  OBVIOUS
<1>4. PICK Z : turns \in Seq(Z) /\ log \in Seq(Tool) /\ InPairs(turns, log, run.step + 1)
  BY <1>2, <1>3, PairAdded
<1> DEFINE new == [run EXCEPT !.turns = turns, !.log = log, !.step = run.step + 1]
           last == [new EXCEPT !.stage = "ended", !.ok = TRUE]
<1>5. /\ run.step + 1 \in 0 .. StepMax /\ run.step + 1 \in 0 .. run.step + 1
      /\ run.step + 1 # StepMax => run.step + 1 < StepMax
  BY <1>2
<1>6. /\ new \in RunOver(Z) /\ last \in RunOver(Z)
      /\ new.turns = turns /\ new.log = log /\ new.step = run.step + 1 /\ new.stage = "asking"
      /\ last.turns = turns /\ last.log = log /\ last.step = run.step + 1
      /\ last.stage = "ended" /\ last.ok
  BY <1>1, <1>4, <1>5 DEF RunOver, Stage
<1> HIDE DEF last, new
<1>7. new.step # StepMax => RunInv(new)
  BY <1>4, <1>5, <1>6 DEF RunInv
<1>8. RunInv(last)
  BY <1>4, <1>5, <1>6 DEF RunInv
<1> QED
  BY <1>3, <1>6, <1>7, <1>8 DEF new, last
-----------------------------------------------------------------------------
(* The runs that failed are those the observer counts.                         *)
Fails(run) == run.stage = "ended" /\ ~run.ok

Failures == {r \in AgentRun : runs[r].stage = "ended" /\ ~runs[r].ok}

(* Every run is made of pairs; the totals count those that failed.           *)
RunsInv ==
  /\ DOMAIN runs = AgentRun /\ \A r \in AgentRun : RunInv(runs[r])
  /\ IsFiniteSet(Failures) /\ totals.errors = Cardinality(Failures)

(* The buffer of the agents holds news that came.                            *)
BufferInv ==
  /\ came \in 0 .. Len(AgentNews)
  /\ agentBuffer \in Seq(ToSet(AgentNews)) /\ Len(agentBuffer) <= BufferMax

AgentInv == BufferInv /\ RecordsInv /\ RunsInv

(* The agents start idle, with nothing on record.                            *)
LEMMA InitAgents == AgentInit => AgentInv
<1> SUFFICES ASSUME AgentInit
             PROVE  AgentInv
  OBVIOUS
<1>1. BufferInv
  BY AgentAssumption DEF AgentInit, BufferInv
<1>2. RecordsInv
  <2>1. Narrations = {}
    BY DEF AgentInit, Narrations
  <2> QED
    BY <2>1, ObserverAssumption, FS_EmptySet DEF AgentInit, ObserverInit, RecordsInv
<1>3. RunsInv
  <2>1. Idle \in RunOver({})
    BY AgentAssumption DEF Idle, RunOver, Stage
  <2>2. InPairs(Idle.turns, Idle.log, 0)
    <3>1. NamesIn(Asked(<<>>, 0)) = <<>>
      <4>1. Asked(<<>>, 0) \in [1 .. 0 -> ToolUses]
        BY DEF Asked
      <4> QED
        BY <4>1, LogStartsEmpty
    <3> QED
      BY <3>1 DEF InPairs, Idle
  <2>3. RunInv(Idle)
    <3>1. Idle.step = 0 /\ Idle.step < StepMax
      BY AgentAssumption DEF Idle
    <3> QED
      BY <2>1, <2>2, <3>1 DEF RunInv
  <2>4. Failures = {}
    BY DEF AgentInit, Failures, Idle
  <2> QED
    BY <2>3, <2>4, FS_EmptySet DEF RunsInv, AgentInit, ObserverInit
<1> QED
  BY <1>1, <1>2, <1>3 DEF AgentInv

(* One run moves, and fails or does not.                                       *)
LEMMA RunPut ==
  ASSUME RunsInv, totals.errors \in Nat, NEW r \in AgentRun,
         runs[r].stage \in {"idle", "asking"}, NEW new, RunInv(new),
         runs' = [runs EXCEPT ![r] = new],
         totals'.errors = totals.errors + (IF Fails(new) THEN 1 ELSE 0)
  PROVE  RunsInv'
<1> USE DEF RunsInv
<1>1. /\ DOMAIN runs' = AgentRun /\ runs'[r] = new
      /\ \A q \in AgentRun : q # r => runs'[q] = runs[q]
  OBVIOUS
<1>2. \A q \in AgentRun : RunInv(runs'[q])
  BY <1>1
<1>3. r \notin Failures
  BY DEF Failures
<1>4. CASE Fails(new)
  <2>1. Failures' = Failures \cup {r}
    BY <1>1, <1>4 DEF Failures, Fails
  <2>2. IsFiniteSet(Failures \cup {r}) /\ Cardinality(Failures \cup {r}) = Cardinality(Failures) + 1
    BY <1>3, FS_AddElement
  <2> QED
    BY <1>1, <1>2, <1>4, <2>1, <2>2
<1>5. CASE ~Fails(new)
  <2>1. Failures' = Failures
    BY <1>1, <1>3, <1>5 DEF Failures, Fails
  <2> QED
    BY <1>1, <1>2, <1>5, <2>1
<1> QED
  BY <1>4, <1>5

(* An event that comes.                                                        *)
LEMMA BufferKeeps == BufferInv /\ EventComes => BufferInv'
<1> SUFFICES ASSUME BufferInv, EventComes
             PROVE  BufferInv'
  OBVIOUS
<1>1. /\ came + 1 \in 1 .. Len(AgentNews) /\ came' = came + 1
      /\ came' \in 0 .. Len(AgentNews)
  BY AgentAssumption DEF BufferInv, EventComes
<1>2. AgentNews[came + 1] \in ToSet(AgentNews)
  BY <1>1, AgentAssumption DEF ToSet
<1>3. Append(agentBuffer, AgentNews[came + 1]) \in Seq(ToSet(AgentNews))
  BY <1>2 DEF BufferInv
<1>4. BufferMax \in Nat \ {0}
  BY AgentAssumption
<1>5. PICK s \in Seq(ToSet(AgentNews)) : s = Append(agentBuffer, AgentNews[came + 1])
  BY <1>3
<1>6. /\ LastOf(s, BufferMax) \in Seq(ToSet(AgentNews)) /\ Len(s) \in Nat
      /\ Len(LastOf(s, BufferMax)) = IF Len(s) > BufferMax THEN BufferMax ELSE Len(s)
  BY <1>4, LastOfFacts
<1>7. agentBuffer' = LastOf(s, BufferMax)
  BY <1>5 DEF EventComes
<1> QED
  BY <1>1, <1>4, <1>6, <1>7 DEF BufferInv

(* Every step of the agents keeps the pairs, the log and the totals.         *)
LEMMA AgentStep == AgentInv /\ [AgentNext]_agentVars => AgentInv'
<1> SUFFICES ASSUME AgentInv, [AgentNext]_agentVars
             PROVE  AgentInv'
  OBVIOUS
<1>0. BufferInv /\ RecordsInv /\ RunsInv /\ totals.errors \in Nat
  BY DEF AgentInv, RecordsInv
<1>a. ASSUME UNCHANGED <<recorded, observerVars>>
      PROVE  RecordsInv' /\ totals' = totals
  BY <1>0, <1>a DEF RecordsInv, Narrations, observerVars
<1>b. ASSUME UNCHANGED <<agentBuffer, came>>
      PROVE  BufferInv'
  BY <1>0, <1>b DEF BufferInv
<1>c. ASSUME UNCHANGED runs, totals'.errors = totals.errors
      PROVE  RunsInv'
  BY <1>0, <1>c DEF RunsInv, Failures
<1>1. CASE EventComes
  BY <1>0, <1>1, <1>a, <1>c, BufferKeeps DEF EventComes, AgentInv
<1>2. CASE NarrationSkipped
  <2> DEFINE c == Skipped("narration", "haiku", "rate_budget_exhausted")
  <2>1. c \in RecordedCall /\ c.kind = "narration" /\ c.ok
    BY CallsAreTyped
  <2> HIDE DEF c
  <2>2. Record(c) /\ recorded' = Append(recorded, c.kind)
    BY <1>2, <2>1 DEF NarrationSkipped, c
  <2>3. RecordsInv' /\ totals'.errors = totals.errors
    BY <1>0, <2>1, <2>2, CallIsKept
  <2> QED
    BY <1>2, <1>b, <1>c, <2>3 DEF NarrationSkipped, AgentInv
<1>3. ASSUME NEW r \in AgentRun, StartAgent(r)
      PROVE  AgentInv'
  <2>1. RunInv(runs[r]) /\ runs[r].stage = "idle"
    BY <1>0, <1>3 DEF RunsInv, StartAgent
  <2> DEFINE to == IF agentKey THEN "asking" ELSE "refused"
             new == [runs[r] EXCEPT !.stage = to]
  <2>4. runs' = [runs EXCEPT ![r] = new]
    BY <1>3 DEF StartAgent
  <2>5. to \in Stage \ {"idle"} /\ runs[r].stage \in {"idle", "asking"}
    BY <2>1 DEF Stage
  <2> HIDE DEF to
  <2>6. RunInv(new) /\ new.stage = to
    BY <2>1, <2>5, RunMoves
  <2>7. ~Fails(new)
    BY <2>6 DEF Fails, to
  <2>8. totals' = totals
    BY <1>3 DEF StartAgent, observerVars
  <2> HIDE DEF new
  <2>9. totals'.errors = totals.errors + (IF Fails(new) THEN 1 ELSE 0)
    BY <1>0, <2>7, <2>8
  <2>10. RunsInv'
    BY <1>0, <2>1, <2>4, <2>6, <2>9, RunPut
  <2> QED
    BY <1>3, <1>a, <1>b, <2>10 DEF StartAgent, AgentInv
<1>4. ASSUME NEW r \in AgentRun, ModelFails(r)
      PROVE  AgentInv'
  <2> DEFINE c == Failed(AgentKind[r], "haiku", 1, "unreachable")
             new == [runs[r] EXCEPT !.stage = "ended", !.ok = FALSE]
  <2>1. RunInv(runs[r]) /\ runs[r].stage = "asking"
    BY <1>0, <1>4 DEF RunsInv, ModelFails
  <2>4. runs' = [runs EXCEPT ![r] = new]
    BY <1>4 DEF ModelFails, End
  <2>5. RunInv(new) /\ new.stage = "ended" /\ new.ok = FALSE
    BY <2>1, RunFails
  <2>6. c \in RecordedCall /\ c.kind = AgentKind[r] /\ ~c.ok
    BY CallsAreTyped
  <2>7. Record(c) /\ recorded' = Append(recorded, c.kind)
    BY <1>4, <2>6 DEF ModelFails, End
  <2> HIDE DEF c, new
  <2>8. RecordsInv' /\ totals'.errors = totals.errors + 1
    BY <1>0, <2>6, <2>7, CallIsKept
  <2>9. RunsInv'
    <3>1. Fails(new)
      BY <2>5 DEF Fails
    <3>2. totals'.errors = totals.errors + (IF Fails(new) THEN 1 ELSE 0)
      BY <2>8, <3>1
    <3> QED
      BY <1>0, <2>1, <2>4, <2>5, <3>2, RunPut
  <2> QED
    BY <1>4, <1>b, <2>8, <2>9 DEF ModelFails, AgentInv
<1>5. ASSUME NEW r \in AgentRun, ModelAnswers(r)
      PROVE  AgentInv'
  <2> DEFINE c == Answered(AgentKind[r], "haiku", 1, 1)
             new == [runs[r] EXCEPT !.stage = "ended", !.step = runs[r].step + 1, !.ok = TRUE]
  <2>1. RunInv(runs[r]) /\ runs[r].stage = "asking"
    BY <1>0, <1>5 DEF RunsInv, ModelAnswers
  <2>2. PICK S : runs[r] \in RunOver(S)
    BY <2>1 DEF RunInv
  <2>4. runs' = [runs EXCEPT ![r] = new]
    BY <1>5, <2>2 DEF ModelAnswers, End, RunOver
  <2>5. RunInv(new) /\ new.stage = "ended" /\ new.ok = TRUE
    BY <2>1, RunAnswered
  <2>6. c \in RecordedCall /\ c.kind = AgentKind[r] /\ c.ok
    BY CallsAreTyped
  <2>7. Record(c) /\ recorded' = Append(recorded, c.kind)
    BY <1>5, <2>6 DEF ModelAnswers, End
  <2> HIDE DEF c, new
  <2>8. RecordsInv' /\ totals'.errors = totals.errors
    BY <1>0, <2>6, <2>7, CallIsKept
  <2>9. RunsInv'
    <3>1. ~Fails(new)
      BY <2>5 DEF Fails
    <3>2. totals'.errors = totals.errors + (IF Fails(new) THEN 1 ELSE 0)
      BY <1>0, <2>8, <3>1
    <3> QED
      BY <1>0, <2>1, <2>4, <2>5, <3>2, RunPut
  <2> QED
    BY <1>5, <1>b, <2>8, <2>9 DEF ModelAnswers, AgentInv
<1>6. ASSUME NEW r \in AgentRun, NEW uses \in ToolUses, ModelAsksTools(r, uses)
      PROVE  AgentInv'
  <2> DEFINE run == [runs[r] EXCEPT
               !.turns = @ \o << [asks |-> uses], [results |-> Results(uses)] >>,
               !.log = @ \o [i \in DOMAIN uses |-> uses[i].name],
               !.step = @ + 1]
             last == [run EXCEPT !.stage = "ended", !.ok = TRUE]
             c == Answered(AgentKind[r], "haiku", 0, 1)
  <2>1. RunInv(runs[r]) /\ runs[r].stage = "asking"
    BY <1>0, <1>6 DEF RunsInv, ModelAsksTools
  <2>2. /\ run.step # StepMax => RunInv(run) /\ run.stage = "asking"
        /\ RunInv(last) /\ last.stage = "ended" /\ last.ok
    BY <2>1, RunAsks
  <2>3. \/ /\ run.step = StepMax /\ runs' = [runs EXCEPT ![r] = last]
           /\ recorded' = Append(recorded, AgentKind[r]) /\ Record(c)
        \/ /\ run.step # StepMax /\ runs' = [runs EXCEPT ![r] = run]
           /\ UNCHANGED <<recorded, observerVars>>
    BY <1>6 DEF ModelAsksTools, End
  <2>4. c \in RecordedCall /\ c.kind = AgentKind[r] /\ c.ok
    BY CallsAreTyped
  <2>5. BufferInv'
    BY <1>6, <1>b DEF ModelAsksTools
  <2> HIDE DEF run, last, c
  <2>6. CASE run.step = StepMax
    <3>1. RecordsInv' /\ totals'.errors = totals.errors
      <4>1. Record(c) /\ recorded' = Append(recorded, c.kind)
        BY <2>3, <2>4, <2>6
      <4> QED
        BY <1>0, <2>4, <4>1, CallIsKept
    <3>2. totals'.errors = totals.errors + (IF Fails(last) THEN 1 ELSE 0)
      BY <1>0, <2>2, <3>1 DEF Fails
    <3>3. runs' = [runs EXCEPT ![r] = last]
      BY <2>3, <2>6
    <3>4. RunsInv'
      BY <1>0, <2>1, <2>2, <3>2, <3>3, RunPut
    <3> QED
      BY <2>5, <3>1, <3>4 DEF AgentInv
  <2>7. CASE run.step # StepMax
    <3>1. RecordsInv' /\ totals' = totals
      BY <1>a, <2>3, <2>7
    <3>2. totals'.errors = totals.errors + (IF Fails(run) THEN 1 ELSE 0)
      BY <1>0, <2>2, <2>7, <3>1 DEF Fails
    <3>3. runs' = [runs EXCEPT ![r] = run]
      BY <2>3, <2>7
    <3>4. RunsInv'
      BY <1>0, <2>1, <2>2, <2>7, <3>2, <3>3, RunPut
    <3> QED
      BY <2>5, <3>1, <3>4 DEF AgentInv
  <2> QED
    BY <2>6, <2>7
<1>7. ASSUME NEW r \in AgentRun, NEW uses \in ToolUses, ToolRaises(r, uses)
      PROVE  AgentInv'
  <2>1. RunInv(runs[r]) /\ runs[r].stage = "asking"
    BY <1>0, <1>7 DEF RunsInv, ToolRaises
  <2> DEFINE new == [runs[r] EXCEPT !.stage = "raised"]
  <2>9. /\ "raised" \in Stage \ {"idle"}
        /\ runs[r].stage \in {"idle", "asking"}
    BY <2>1 DEF Stage
  <2>4. runs' = [runs EXCEPT ![r] = new]
    BY <1>7 DEF ToolRaises
  <2>5. RunInv(new) /\ new.stage = "raised"
    BY <2>1, <2>9, RunMoves
  <2>6. totals' = totals
    BY <1>7 DEF ToolRaises, observerVars
  <2> HIDE DEF new
  <2>7. totals'.errors = totals.errors + (IF Fails(new) THEN 1 ELSE 0)
    BY <1>0, <2>5, <2>6 DEF Fails
  <2>8. RunsInv'
    BY <1>0, <2>1, <2>4, <2>5, <2>7, RunPut
  <2> QED
    BY <1>7, <1>a, <1>b, <2>8 DEF ToolRaises, AgentInv
<1>8. CASE UNCHANGED agentVars
  BY <1>8, <1>a, <1>b, <1>c DEF agentVars, observerVars, AgentInv
<1> QED
  BY <1>1, <1>2, <1>3, <1>4, <1>5, <1>6, <1>7, <1>8 DEF AgentNext

(* What the invariant of the agents says of their runs and records.          *)
LEMMA AgentsHold == AgentInv => AgentTypeOK /\ AgentsAccounted
<1> SUFFICES ASSUME AgentInv
             PROVE  AgentTypeOK /\ AgentsAccounted
  OBVIOUS
<1>0. BufferInv /\ RecordsInv /\ RunsInv
  BY DEF AgentInv
<1>1. ASSUME NEW r \in AgentRun
      PROVE  /\ runs[r].stage \in Stage /\ runs[r].step \in 0 .. StepMax /\ runs[r].ok \in BOOLEAN
             /\ TurnsAnswered(runs[r])
  <2>1. RunInv(runs[r])
    BY <1>0 DEF RunsInv
  <2>2. PICK S : runs[r] \in RunOver(S)
    BY <2>1 DEF RunInv
  <2>3. runs[r].stage \in Stage /\ runs[r].step \in 0 .. StepMax /\ runs[r].ok \in BOOLEAN
    BY <2>2 DEF RunOver
  <2>4. PICK n \in 0 .. runs[r].step : InPairs(runs[r].turns, runs[r].log, n)
    BY <2>1 DEF RunInv
  <2>5. n \in 0 .. StepMax
    BY <2>3, <2>4, AgentAssumption
  <2>6. TurnsAnswered(runs[r])
    BY <2>4, <2>5 DEF TurnsAnswered, InPairs, Answers, Asked
  <2> QED
    BY <2>3, <2>6
<1>2. [i \in DOMAIN ring |-> ring[i].kind] = LastOf(recorded, RingMax)
  <2> DEFINE s == LastOf(recorded, RingMax)
  <2>1. /\ s \in Seq(Kind) /\ Len(s) \in Nat /\ Len(recorded) \in Nat
        /\ Len(s) = IF Len(recorded) > RingMax THEN RingMax ELSE Len(recorded)
        /\ \A i \in 1 .. Len(s) : s[i] = recorded[(Len(recorded) - Len(s)) + i]
    <3>1. recorded \in Seq(Kind) /\ RingMax \in Nat \ {0}
      BY <1>0, ObserverAssumption DEF RecordsInv
    <3> QED
      BY <3>1, LastOfFacts
  <2> HIDE DEF s
  <2>2. Len(s) = Len(ring) /\ DOMAIN ring = 1 .. Len(s) /\ DOMAIN s = 1 .. Len(s)
    BY <1>0, <2>1 DEF RecordsInv
  <2>3. \A i \in 1 .. Len(s) : ring[i].kind = s[i]
    BY <1>0, <2>1, <2>2 DEF RecordsInv
  <2>4. s = [i \in 1 .. Len(s) |-> s[i]]
    BY <2>1
  <2> QED
    BY <2>2, <2>3, <2>4 DEF s
<1>3. /\ totals.calls = Len(recorded)
      /\ totals.errors = Cardinality({r \in AgentRun : runs[r].stage = "ended" /\ ~runs[r].ok})
      /\ totals.skips = Cardinality({i \in DOMAIN recorded : recorded[i] = "narration"})
  BY <1>0 DEF RecordsInv, RunsInv, Failures, Narrations
<1>4. LET byKind == Stats(ring).byKind
      IN /\ "narration" \in DOMAIN byKind => byKind["narration"].p95 = 0
         /\ \A k \in DOMAIN byKind : byKind[k].p50 <= 2 * byKind[k].p95
  BY <1>0, StatsOfKinds
<1>5. AgentsAccounted
  BY <1>1, <1>2, <1>3, <1>4 DEF AgentsAccounted
<1>6. Len(ring) <= RingMax
  BY <1>0, ObserverAssumption DEF RecordsInv
<1>7. AgentTypeOK
  BY <1>0, <1>1, <1>6 DEF AgentTypeOK, Stage, BufferInv
<1> QED
  BY <1>5, <1>7

(* Whatever the agents ask, whichever tool raises or call fails, and         *)
(* however narrations come between: each turn of a run that asks for tools   *)
(* is followed by one that answers each use in order, the log of the run     *)
(* names exactly those tools, the ring of the observer holds the newest      *)
(* calls, its totals count every call, failure and skip ever recorded, and   *)
(* its medians stay below twice the 95th percentile (agents.py,              *)
(* llm_obs.py).                                                              *)
THEOREM RunsAccounted == AgentSpec => []AgentsAccounted
BY InitAgents, AgentStep, AgentsHold, PTL DEF AgentSpec
==============================================================================
