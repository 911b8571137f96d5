------------------------------ MODULE LlmGuard ------------------------------
(* services/llm.py: what the token bucket, the circuit breaker, failover       *)
(* between providers and the two-sample reading let through.  All of it runs   *)
(* on the event loop, which is given up only while a provider is asked.        *)
EXTENDS Clock, Sequences, FiniteSets, FiniteSetsExt

CONSTANTS Narration, Enrichment, Impact,  \* the calls of each kind
          Providers,      \* how many are configured
          Capacities,     \* what LLM_BUCKET_CAPACITY may be set to
          Refill,         \* tokens a tick adds
          Threshold,      \* _CB_THRESHOLD
          Cooldown,       \* _CB_COOLDOWN_SEC
          MaxRebuilds,    \* bound: changes of the bucket settings
          GuardEnd,       \* bound: the last tick
          Plate, Look     \* what may be read of a plate, and of a vehicle

ASSUME GuardAssumption ==
  /\ Enrichment \cap (Narration \cup Impact) = {}
  /\ Providers \in {1, 2}
  /\ Capacities \subseteq Nat \ {0} /\ Capacities # {}
  /\ Refill \in Nat /\ Threshold \in Nat \ {0} /\ Cooldown \in Nat
  /\ MaxRebuilds \in Nat /\ GuardEnd \in Nat
  /\ None \notin Plate \cup Look \cup Nat

VARIABLES capacity, tokens, lastRefill,  \* _HAIKU_BUCKET
          failures, openedAt,            \* _CB_STATE
          stage,                         \* where each call waits
          rebuilds,                      \* history: buckets built since the start
          spent,                         \* history: tokens this bucket gave
          spentBefore,                   \* history: those it had given before each tick
          outcomes,                      \* history: newest results the breaker was told
          trials                         \* history: enrichments begun after a cooldown

bucket == <<capacity, tokens, lastRefill, rebuilds, spent, spentBefore>>
breaker == <<failures, openedAt, outcomes>>
calls == <<stage, trials>>
guardVars == <<bucket, breaker, calls>>

Completion == Narration \cup Impact
Call == Completion \cup Enrichment

Readability == {"clear", "partial", "unreadable"}
Reading == [plate : Plate \cup {None}, look : Look, readability : Readability]

GuardTypeOK ==
  /\ capacity \in Capacities
  /\ tokens \in 0 .. capacity /\ lastRefill \in 0 .. now
  /\ failures \in Nat
  /\ openedAt \in (0 .. now) \cup {None}
  /\ stage \in [Call -> {"idle", "primary", "secondary", "one", "two", "second"}]

GuardInit ==
  /\ capacity \in Capacities
  /\ tokens = capacity /\ lastRefill = 0
  /\ failures = 0 /\ openedAt = None
  /\ stage = [c \in Call |-> "idle"]
  /\ rebuilds = 0 /\ spent = 0 /\ spentBefore = [t \in 0 .. GuardEnd |-> 0]
  /\ outcomes = <<>> /\ trials = {}
-----------------------------------------------------------------------------
(* _TokenBucket *)

Available == Min({capacity, tokens + (now - lastRefill) * Refill})

(* Mistake: a refused call does not move the time of the last refill.          *)
TryAcquireForgets(n, granted) ==
  /\ granted = (Available >= n)
  /\ tokens' = IF granted THEN Available - n ELSE Available
  /\ lastRefill' = IF granted THEN now ELSE lastRefill
  /\ spent' = IF granted THEN spent + n ELSE spent
  /\ UNCHANGED <<capacity, rebuilds, spentBefore>>

(* try_acquire(): nothing waits inside its lock.                               *)
TryAcquire(n, granted) ==
  /\ granted = (Available >= n)
  /\ tokens' = IF granted THEN Available - n ELSE Available
  /\ lastRefill' = now
  /\ spent' = IF granted THEN spent + n ELSE spent
  /\ UNCHANGED <<capacity, rebuilds, spentBefore>>

(* _rebuild_haiku_bucket(): a new bucket is full.                              *)
RebuildBucket(new) ==
  /\ rebuilds < MaxRebuilds
  /\ new # capacity
  /\ capacity' = new /\ tokens' = new /\ lastRefill' = now
  /\ rebuilds' = rebuilds + 1
  /\ spent' = 0 /\ spentBefore' = [t \in 0 .. GuardEnd |-> 0]
  /\ UNCHANGED <<breaker, calls, now>>
-----------------------------------------------------------------------------
(* The breaker *)

CircuitOpen == openedAt # None /\ now - openedAt < Cooldown

(* Mistake: only the failure that reaches the threshold opens it.              *)
CbRecordOnce(ok) ==
  /\ failures' = IF ok THEN 0 ELSE failures + 1
  /\ openedAt' = IF ok THEN None
                 ELSE IF failures + 1 = Threshold THEN now ELSE openedAt
  /\ outcomes' = LET all == Append(outcomes, [ok |-> ok, at |-> now])
                 IN IF Len(all) > Threshold THEN Tail(all) ELSE all

CbRecord(ok) ==
  /\ failures' = IF ok THEN 0 ELSE failures + 1
  /\ openedAt' = IF ok THEN None
                 ELSE IF failures + 1 >= Threshold THEN now ELSE openedAt
  /\ outcomes' = LET all == Append(outcomes, [ok |-> ok, at |-> now])
                 IN IF Len(all) > Threshold THEN Tail(all) ELSE all
-----------------------------------------------------------------------------
(* narrate_event(), analyze_settings_impact() *)

Goes(c, where) == stage' = [stage EXCEPT ![c] = where]

(* Only the impact narrative asks the breaker.                                 *)
StartCompletion(c) ==
  /\ stage[c] = "idle"
  /\ c \in Impact => ~CircuitOpen
  /\ \/ TryAcquire(1, TRUE) /\ Goes(c, "primary")
     \/ TryAcquire(1, FALSE) /\ UNCHANGED stage
  /\ UNCHANGED <<breaker, trials, now>>

(* _complete(): an answer, or the next provider if there is one.               *)
EndCompletion(c) ==
  /\ stage[c] \in {"primary", "secondary"}
  /\ \/ Goes(c, "idle")
     \/ stage[c] = "primary" /\ Providers = 2 /\ Goes(c, "secondary")
  /\ UNCHANGED <<bucket, breaker, trials, now>>
-----------------------------------------------------------------------------
(* enrich_event() *)

(* With a failure on record one sample is asked for, else two.                 *)
StartEnrichment(c) ==
  /\ stage[c] = "idle"
  /\ ~CircuitOpen
  /\ LET n == IF failures > 0 THEN 1 ELSE 2
     IN \/ /\ TryAcquire(n, TRUE)
           /\ Goes(c, IF n = 1 THEN "one" ELSE "two")
           /\ trials' = IF openedAt = None THEN trials ELSE trials \cup {c}
        \/ TryAcquire(n, FALSE) /\ UNCHANGED calls
  /\ UNCHANGED <<breaker, now>>

(* _vision_call() answers, after a second request where structured outputs are *)
(* not to be had.                                                              *)
ReadSample(c) ==
  /\ stage[c] = "two"
  /\ Goes(c, "second")
  /\ UNCHANGED <<bucket, breaker, trials, now>>

FinishEnrichment(c) ==
  /\ stage[c] \in {"one", "second"}
  /\ Goes(c, "idle")
  /\ trials' = trials \ {c}
  /\ CbRecord(TRUE)
  /\ UNCHANGED <<bucket, now>>

(* One sample that fails is enough; what the other answers is not looked at.   *)
EnrichmentFails(c) ==
  /\ stage[c] \in {"one", "two", "second"}
  /\ Goes(c, "idle")
  /\ trials' = trials \ {c}
  /\ CbRecord(FALSE)
  /\ UNCHANGED <<bucket, now>>

Lower(r) == IF r = "clear" THEN "partial" ELSE "unreadable"

(* Mistake: only plates that contradict each other count as disagreement.      *)
MergeContradicting(a, b) ==
  LET agree == a.plate = b.plate \/ None \in {a.plate, b.plate}
      seen == IF agree THEN a.readability ELSE "partial"
  IN [plate |-> IF agree THEN a.plate ELSE None,
      look |-> a.look,
      readability |-> IF a.look = b.look THEN seen ELSE Lower(seen)]

(* _merge_self_consistency() *)
Merge(a, b) ==
  LET agree == a.plate = b.plate
      seen == IF agree THEN a.readability ELSE "partial"
  IN [plate |-> IF agree THEN a.plate ELSE None,
      look |-> a.look,
      readability |-> IF a.look = b.look THEN seen ELSE Lower(seen)]

(* What is given out of a single sample.                                       *)
Single(a) == [a EXCEPT !.readability = Lower(@)]
-----------------------------------------------------------------------------
GuardTick ==
  /\ Tick(GuardEnd)
  /\ spentBefore' = [spentBefore EXCEPT ![now + 1] = spent]
  /\ UNCHANGED <<capacity, tokens, lastRefill, rebuilds, spent, breaker, calls>>

GuardNext ==
  \/ GuardTick
  \/ \E new \in Capacities : RebuildBucket(new)
  \/ \E c \in Completion : StartCompletion(c) \/ EndCompletion(c)
  \/ \E c \in Enrichment : \/ StartEnrichment(c) \/ ReadSample(c)
                           \/ FinishEnrichment(c) \/ EnrichmentFails(c)

GuardSpec == GuardInit /\ ClockInit /\ [][GuardNext]_<<guardVars, now>>
-----------------------------------------------------------------------------
(* Over any stretch of time one bucket gives no more than its capacity and     *)
(* what was refilled meanwhile, however many calls come and are refused.       *)
BudgetKept ==
  \A t \in DOMAIN spentBefore :
    t <= now => spent - spentBefore[t] <= capacity + (now - t) * Refill

(* After so many failures in a row, of calls that overlap as they may, no      *)
(* enrichment is begun for the length of the cooldown after the last.          *)
Tripped ==
  /\ Len(outcomes) = Threshold
  /\ \A i \in 1 .. Threshold : ~outcomes[i].ok
  /\ now - outcomes[Threshold].at < Cooldown

RestsAfterFailures ==
  [][\A c \in Enrichment : stage[c] = "idle" /\ stage'[c] # "idle" => ~Tripped]_guardVars

(* An enrichment is clear only if two samples agree on plate and vehicle, and  *)
(* two samples never name a plate that one of them did not read.               *)
ClearMeansAgreed ==
  /\ \A a \in Reading : Single(a).readability # "clear"
  /\ \A a, b \in Reading :
       /\ Merge(a, b).readability = "clear" => a.plate = b.plate /\ a.look = b.look
       /\ Merge(a, b).plate \in {a.plate, None} /\ Merge(a, b).plate \in {b.plate, None}
-----------------------------------------------------------------------------
(* What comments say and the code does not do.                                 *)

(* "HALF-OPEN -> one trial call after cooldown".                               *)
OneTrial == Cardinality(trials) <= 1
=============================================================================
