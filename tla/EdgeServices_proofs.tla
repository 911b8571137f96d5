------------------------- MODULE EdgeServices_proofs -------------------------
(* Theorems about the services that EdgeServices composes.  Of the guard of    *)
(* the LLM calls: what the bucket gives, when the breaker rests and when a     *)
(* reading is clear.  Of the Slack notifier: that no alert is lost or posted   *)
(* twice.  Of the feedback loop: that a sample leaves by an export only.  Of a *)
(* slot's perception: that the rate band follows the speed.  Of all services   *)
(* together: that each keeps its types and its promises whichever runs.  What  *)
(* is particular to the event feed and to the services that look at the others *)
(* has modules of its own.                                                     *)
EXTENDS EdgeServices, EventFeed_proofs, Oversight_proofs

(* Tokens that flow in over two stretches of time, and over one.               *)
LEMMA Inflow ==
  ASSUME NEW m \in Nat, NEW n \in Nat
  PROVE  /\ m * Refill \in Nat
         /\ (m + n) * Refill = m * Refill + n * Refill
<1>1. Refill \in Nat
  BY GuardAssumption
<1>2. ASSUME NEW r \in Nat
      PROVE  m * r \in Nat /\ (m + n) * r = m * r + n * r
  OBVIOUS
<1> QED
  BY <1>1, <1>2

(* What is spent is what is left no more.                                      *)
LEMMA Exchange ==
  ASSUME NEW s \in Int, NEW k \in Int, NEW before \in Int,
         NEW sNew \in Int, NEW kNew \in Int, sNew + kNew = s + k
  PROVE  (sNew - before) + kNew = (s - before) + k
OBVIOUS
-----------------------------------------------------------------------------
(* What is left in the bucket bounds what it can have given since a tick that  *)
(* came before the last refill; it gave nothing since a tick that came after.  *)
Balance(t) ==
  IF t <= lastRefill
  THEN (spent - spentBefore[t]) + tokens <= capacity + (lastRefill - t) * Refill
  ELSE spent = spentBefore[t]

BucketInv ==
  /\ now \in 0 .. GuardEnd
  /\ capacity \in Capacities
  /\ tokens \in 0 .. capacity /\ lastRefill \in 0 .. now
  /\ spent \in Nat
  /\ spentBefore \in [0 .. GuardEnd -> Nat]
  /\ \A t \in 0 .. now : Balance(t)

(* A refilled bucket holds at most its capacity.                            *)
LEMMA AvailableFits ==
  ASSUME BucketInv
  PROVE  /\ Available \in 0 .. capacity
         /\ Available <= tokens + (now - lastRefill) * Refill
<1>1. now - lastRefill \in Nat /\ capacity \in Nat /\ tokens \in Nat
  BY GuardAssumption DEF BucketInv
<1> DEFINE in == (now - lastRefill) * Refill
<1>2. in \in Nat
  BY <1>1, Inflow
<1>3. Available = Min({capacity, tokens + in})
  BY DEF Available
<1> HIDE DEF in
<1>4. capacity \in Int /\ tokens + in \in Int /\ tokens + in >= 0
  BY <1>1, <1>2
<1>5. /\ Available \in {capacity, tokens + in}
      /\ Available <= capacity
      /\ Available <= tokens + in
  BY <1>3, <1>4, MinOfTwo
<1>6. Available \in 0 .. capacity
  BY <1>1, <1>4, <1>5
<1> QED
  BY <1>5, <1>6 DEF in

(* A call that asks for tokens, be it given them or not.                       *)
LEMMA AcquireKeeps ==
  ASSUME BucketInv, NEW n \in Nat, NEW granted \in BOOLEAN,
         TryAcquire(n, granted), now' = now
  PROVE  BucketInv'
<1>1. /\ Available \in 0 .. capacity
      /\ Available <= tokens + (now - lastRefill) * Refill
  BY AvailableFits
<1>2. /\ tokens' \in 0 .. capacity /\ spent' \in Nat
      /\ spent' + tokens' = spent + Available
      /\ lastRefill' = now /\ capacity' = capacity /\ spentBefore' = spentBefore
  <2>1. capacity \in Nat /\ spent \in Nat /\ Available \in Nat
    BY <1>1, GuardAssumption DEF BucketInv
  <2>2. CASE granted
    <3>1. tokens' = Available - n /\ spent' = spent + n /\ Available >= n
      BY <2>2 DEF TryAcquire
    <3>2. lastRefill' = now /\ capacity' = capacity /\ spentBefore' = spentBefore
      BY DEF TryAcquire
    <3>3. spent' \in Nat /\ spent' + tokens' = spent + Available
      BY <2>1, <3>1
    <3>4. tokens' \in 0 .. capacity
      BY <1>1, <2>1, <3>1
    <3> QED
      BY <3>2, <3>3, <3>4
  <2>3. CASE ~granted
    BY <1>1, <2>1, <2>3 DEF TryAcquire
  <2> QED
    BY <2>2, <2>3
<1>3. ASSUME NEW t \in 0 .. now
      PROVE  Balance(t)'
  <2>1. /\ t \in Nat /\ now \in Nat /\ lastRefill \in 0 .. now /\ capacity \in Nat
        /\ tokens \in Nat /\ spent \in Nat /\ spentBefore[t] \in Nat /\ Balance(t)
    BY GuardAssumption DEF BucketInv
  <2>6. /\ spent' \in Int /\ tokens' \in Int /\ Available \in Int
        /\ spent' + tokens' = spent + Available /\ Available <= capacity
    <3>1. Available \in 0 .. capacity
      BY <1>1
    <3>2. tokens' \in 0 .. capacity /\ spent' \in Nat /\ spent' + tokens' = spent + Available
      BY <1>2
    <3>3. Available \in Int /\ Available <= capacity
      BY <3>1
    <3>4. spent' \in Int /\ tokens' \in Int
      BY <3>2
    <3> QED
      BY <3>2, <3>3, <3>4
  <2>7. now - t \in Nat
    BY <2>1
  <2>2. (now - t) * Refill \in Nat
    BY <2>7, Inflow
  <2>3. SUFFICES (spent' - spentBefore[t]) + tokens' <= capacity + (now - t) * Refill
    BY <1>2, <2>1 DEF Balance
  <2>4. CASE t <= lastRefill
    <3>1. lastRefill - t \in Nat /\ now - lastRefill \in Nat
          /\ (lastRefill - t) + (now - lastRefill) = now - t
      BY <2>1, <2>4
    <3>2. /\ (lastRefill - t) * Refill \in Nat /\ (now - lastRefill) * Refill \in Nat
          /\ (now - t) * Refill = (lastRefill - t) * Refill + (now - lastRefill) * Refill
      BY <3>1, Inflow
    <3>3. (spent - spentBefore[t]) + tokens <= capacity + (lastRefill - t) * Refill
      BY <2>1, <2>4 DEF Balance
    <3> DEFINE x == (lastRefill - t) * Refill
               y == (now - lastRefill) * Refill
               z == (now - t) * Refill
    <3>4. /\ x \in Nat /\ y \in Nat /\ z = x + y
          /\ (spent - spentBefore[t]) + tokens <= capacity + x
          /\ Available <= tokens + y
      BY <1>1, <3>2, <3>3
    <3> HIDE DEF x, y, z
    <3>5. spent \in Int /\ spentBefore[t] \in Int /\ tokens \in Int /\ capacity \in Int
      BY <2>1
    <3>6. (spent' - spentBefore[t]) + tokens' = (spent - spentBefore[t]) + Available
      <4> DEFINE sNew == spent'
                 kNew == tokens'
                 before == spentBefore[t]
                 k == Available
      <4>1. /\ sNew \in Int /\ kNew \in Int /\ k \in Int /\ spent \in Int /\ before \in Int
            /\ sNew + kNew = spent + k
        BY <2>6, <3>5
      <4> HIDE DEF sNew, kNew, before, k
      <4>2. (sNew - before) + kNew = (spent - before) + k
        BY <4>1, Exchange
      <4> QED
        BY <4>2 DEF sNew, kNew, before, k
    <3>7. (spent - spentBefore[t]) + Available <= (capacity + x) + y
      BY <2>6, <3>4, <3>5
    <3>8. (spent' - spentBefore[t]) + tokens' <= capacity + z
      BY <3>4, <3>5, <3>6, <3>7
    <3> QED
      BY <3>8 DEF z
  <2>5. CASE ~(t <= lastRefill)
    <3>1. spent = spentBefore[t]
      BY <2>1, <2>5 DEF Balance
    <3> DEFINE z == (now - t) * Refill
    <3>2. z \in Nat
      BY <2>2
    <3> HIDE DEF z
    <3>3. (spent' - spentBefore[t]) + tokens' <= capacity + z
      BY <2>1, <2>6, <3>1, <3>2
    <3> QED
      BY <3>3 DEF z
  <2> QED
    BY <2>4, <2>5
<1> QED
  BY <1>2, <1>3 DEF BucketInv

(* A bucket built for a new rate starts full and has given nothing.         *)
LEMMA RebuildKeeps ==
  ASSUME BucketInv, NEW new \in Capacities, RebuildBucket(new)
  PROVE  BucketInv'
<1>1. new \in Nat /\ now \in Nat
  BY GuardAssumption DEF BucketInv
<1>2. /\ capacity' = new /\ tokens' = new /\ lastRefill' = now /\ spent' = 0 /\ now' = now
      /\ spentBefore' = [t \in 0 .. GuardEnd |-> 0]
  BY DEF RebuildBucket
<1>3. ASSUME NEW t \in 0 .. now
      PROVE  Balance(t)'
  <2>1. t <= now /\ now - t \in Nat /\ t \in 0 .. GuardEnd
    <3>1. now \in 0 .. GuardEnd /\ GuardEnd \in Nat
      BY GuardAssumption DEF BucketInv
    <3> QED
      BY <1>1, <3>1
  <2>2. (now - t) * Refill \in Nat
    BY <2>1, Inflow
  <2> DEFINE z == (now - t) * Refill
  <2> HIDE DEF z
  <2>3. (0 - 0) + new <= new + z
    BY <1>1, <2>2 DEF z
  <2>4. (spent' - spentBefore'[t]) + tokens' <= capacity' + (lastRefill' - t) * Refill
    BY <1>2, <2>1, <2>3 DEF z
  <2> QED
    BY <1>2, <2>1, <2>4 DEF Balance
<1> QED
  BY <1>1, <1>2, <1>3 DEF BucketInv

(* A tick records what was spent before it; the balance stays.              *)
LEMMA TickKeeps ==
  ASSUME BucketInv, GuardTick
  PROVE  BucketInv'
<1>1. /\ now' = now + 1 /\ now < GuardEnd /\ now \in Nat /\ GuardEnd \in Nat
      /\ spentBefore' = [spentBefore EXCEPT ![now + 1] = spent]
      /\ UNCHANGED <<capacity, tokens, lastRefill, spent>>
  BY GuardAssumption DEF BucketInv, GuardTick, Tick
<1>2. lastRefill \in 0 .. now /\ spent \in Nat /\ spentBefore \in [0 .. GuardEnd -> Nat]
  BY DEF BucketInv
<1>3. ASSUME NEW t \in 0 .. now'
      PROVE  Balance(t)'
  <2>1. CASE t = now + 1
    BY <1>1, <1>2, <2>1 DEF Balance
  <2>2. CASE t \in 0 .. now
    <3>1. Balance(t) /\ spentBefore'[t] = spentBefore[t]
      BY <1>1, <1>2, <2>2 DEF BucketInv
    <3> QED
      BY <1>1, <3>1 DEF Balance
  <2> QED
    BY <1>1, <2>1, <2>2
<1> QED
  BY <1>1, <1>2, <1>3 DEF BucketInv

(* The steps that change neither the bucket nor the clock.                  *)
LEMMA BucketUntouched ==
  ASSUME BucketInv, UNCHANGED <<bucket, now>>
  PROVE  BucketInv'
BY DEF BucketInv, Balance, bucket

(* Every step of the guard keeps the balance of the bucket.                 *)
LEMMA BucketStep ==
  ASSUME BucketInv, [GuardNext]_<<guardVars, now>>
  PROVE  BucketInv'
<1>1. CASE GuardTick
  BY <1>1, TickKeeps
<1>2. ASSUME NEW new \in Capacities, RebuildBucket(new)
      PROVE  BucketInv'
  BY <1>2, RebuildKeeps
<1>3. ASSUME NEW c \in Completion, StartCompletion(c)
      PROVE  BucketInv'
  BY <1>3, AcquireKeeps DEF StartCompletion
<1>4. ASSUME NEW c \in Enrichment, StartEnrichment(c)
      PROVE  BucketInv'
  <2>1. PICK n \in {1, 2}, granted \in BOOLEAN : TryAcquire(n, granted) /\ now' = now
    BY <1>4 DEF StartEnrichment
  <2> QED
    BY <2>1, AcquireKeeps
<1>5. ASSUME NEW c \in Completion, EndCompletion(c)
      PROVE  BucketInv'
  BY <1>5, BucketUntouched DEF EndCompletion
<1>6. ASSUME NEW c \in Enrichment, ReadSample(c) \/ FinishEnrichment(c) \/ EnrichmentFails(c)
      PROVE  BucketInv'
  BY <1>6, BucketUntouched DEF ReadSample, FinishEnrichment, EnrichmentFails
<1>7. CASE UNCHANGED <<guardVars, now>>
  BY <1>7, BucketUntouched DEF guardVars
<1> QED
  BY <1>1, <1>2, <1>3, <1>4, <1>5, <1>6, <1>7 DEF GuardNext

(* The bucket of a new process is in balance.                               *)
LEMMA BucketStart ==
  ASSUME GuardInit, ClockInit
  PROVE  BucketInv
<1>1. /\ now = 0 /\ lastRefill = 0 /\ spent = 0 /\ tokens = capacity
      /\ capacity \in Capacities /\ capacity \in Nat /\ GuardEnd \in Nat
      /\ spentBefore = [t \in 0 .. GuardEnd |-> 0]
  BY GuardAssumption DEF GuardInit, ClockInit
<1>2. (0 - 0) * Refill \in Nat
  BY Inflow
<1>3. Balance(0)
  BY <1>1, <1>2 DEF Balance
<1>4. \A t \in 0 .. now : t = 0
  BY <1>1
<1> QED
  BY <1>1, <1>3, <1>4 DEF BucketInv

-----------------------------------------------------------------------------
(* Every step of the guard keeps the types of its variables.                *)
LEMMA TypesStep ==
  ASSUME BucketInv, GuardTypeOK, [GuardNext]_<<guardVars, now>>
  PROVE  GuardTypeOK'
<1> USE DEF GuardTypeOK
<1>1. BucketInv' /\ now \in Nat
  BY BucketStep DEF BucketInv
<1>2. /\ capacity' \in Capacities
      /\ tokens' \in 0 .. capacity' /\ lastRefill' \in 0 .. now'
  BY <1>1 DEF BucketInv
<1>3. now' \in Nat /\ now <= now'
  <2>1. now' = now + 1 \/ now' = now
    <3>1. CASE GuardTick
      BY <3>1 DEF GuardTick, Tick
    <3>2. CASE ~GuardTick
      BY <3>2 DEF GuardNext, RebuildBucket, StartCompletion, EndCompletion,
                  StartEnrichment, ReadSample, FinishEnrichment, EnrichmentFails
    <3> QED
      BY <3>1, <3>2
  <2> QED
    BY <1>1, <2>1
<1>4. failures' \in Nat /\ openedAt' \in (0 .. now') \cup {None}
  <2>1. ASSUME NEW ok \in BOOLEAN, CbRecord(ok)
        PROVE  failures' \in Nat /\ openedAt' \in (0 .. now') \cup {None}
    BY <1>1, <1>3, <2>1 DEF CbRecord
  <2>2. ASSUME UNCHANGED breaker
        PROVE  failures' \in Nat /\ openedAt' \in (0 .. now') \cup {None}
    BY <1>1, <1>3, <2>2 DEF breaker
  <2>3. UNCHANGED breaker \/ \E ok \in BOOLEAN : CbRecord(ok)
    BY DEF GuardNext, GuardTick, RebuildBucket, StartCompletion, EndCompletion,
           StartEnrichment, ReadSample, FinishEnrichment, EnrichmentFails, guardVars
  <2> QED
    BY <2>1, <2>2, <2>3
<1>5. stage' \in [Call -> {"idle", "primary", "secondary", "one", "two", "second"}]
  BY DEF GuardNext, GuardTick, RebuildBucket, StartCompletion, EndCompletion, StartEnrichment,
         ReadSample, FinishEnrichment, EnrichmentFails, guardVars, calls, Goes
<1> QED
  BY <1>2, <1>4, <1>5

(* The variables hold what the code can put in them: the bucket never more     *)
(* than its capacity, the breaker no time that has not come.                   *)
THEOREM GuardTypeCorrect == GuardSpec => []GuardTypeOK
<1>1. GuardInit /\ ClockInit => BucketInv /\ GuardTypeOK
  <2>1. GuardInit /\ ClockInit => BucketInv
    BY BucketStart
  <2>2. BucketInv /\ GuardInit => GuardTypeOK
    BY DEF BucketInv, GuardInit, GuardTypeOK
  <2> QED
    BY <2>1, <2>2
<1>2. BucketInv /\ GuardTypeOK /\ [GuardNext]_<<guardVars, now>> => (BucketInv /\ GuardTypeOK)'
  BY BucketStep, TypesStep
<1> QED
  BY <1>1, <1>2, PTL DEF GuardSpec
-----------------------------------------------------------------------------
(* Over any stretch of time one bucket gives no more than its capacity and     *)
(* what was refilled meanwhile, whatever the settings and the number of calls. *)
THEOREM BucketKeepsBudget == GuardSpec => []BudgetKept
<1>1. GuardInit /\ ClockInit => BucketInv
  BY BucketStart
<1>2. BucketInv /\ [GuardNext]_<<guardVars, now>> => BucketInv'
  BY BucketStep
<1>3. BucketInv => BudgetKept
  <2> SUFFICES ASSUME BucketInv, NEW t \in DOMAIN spentBefore, t <= now
               PROVE  spent - spentBefore[t] <= capacity + (now - t) * Refill
    BY DEF BudgetKept
  <2>1. /\ t \in 0 .. now /\ now \in Nat /\ lastRefill \in 0 .. now /\ capacity \in Nat
        /\ tokens \in Nat /\ spent \in Nat /\ spentBefore[t] \in Nat /\ Balance(t)
    BY GuardAssumption DEF BucketInv
  <2>2. now - t \in Nat
    BY <2>1
  <2>5. (now - t) * Refill \in Nat
    BY <2>2, Inflow
  <2>3. CASE t <= lastRefill
    <3>1. lastRefill - t \in Nat /\ now - lastRefill \in Nat
          /\ (lastRefill - t) + (now - lastRefill) = now - t
      BY <2>1, <2>3
    <3> DEFINE x == (lastRefill - t) * Refill
               y == (now - lastRefill) * Refill
               z == (now - t) * Refill
    <3>2. x \in Nat /\ y \in Nat /\ z = x + y
      BY <3>1, Inflow
    <3>3. (spent - spentBefore[t]) + tokens <= capacity + x
      BY <2>1, <2>3 DEF Balance
    <3> HIDE DEF x, y, z
    <3>4. spent - spentBefore[t] <= capacity + z
      BY <2>1, <3>2, <3>3
    <3> QED
      BY <3>4 DEF z
  <2>4. CASE ~(t <= lastRefill)
    <3>1. spent = spentBefore[t]
      BY <2>1, <2>4 DEF Balance
    <3> DEFINE z == (now - t) * Refill
    <3>2. z \in Nat
      BY <2>5
    <3> HIDE DEF z
    <3>3. spent - spentBefore[t] <= capacity + z
      BY <2>1, <3>1, <3>2
    <3> QED
      BY <3>3 DEF z
  <2> QED
    BY <2>3, <2>4
<1> QED
  BY <1>1, <1>2, <1>3, PTL DEF GuardSpec
-----------------------------------------------------------------------------
(* The breaker counts the failures in a row, and from the threshold on the     *)
(* newest of them says when it opened.                                         *)
Result == [ok : BOOLEAN, at : Nat]

AllFailed(k) == \A j \in 0 .. k - 1 : ~outcomes[Len(outcomes) - j].ok

BreakerInv ==
  /\ now \in Nat
  /\ outcomes \in Seq(Result) /\ Len(outcomes) <= Threshold
  /\ failures \in Nat
  /\ \A k \in 0 .. Len(outcomes) : AllFailed(k) => failures >= k
  /\ failures >= Threshold =>
       Len(outcomes) > 0 /\ openedAt = outcomes[Len(outcomes)].at

(* The window over the newest results moves on by one.                         *)
LEMMA WindowMoves ==
  ASSUME NEW s \in Seq(Result), Len(s) <= Threshold, NEW r \in Result, NEW w,
         w = IF Len(Append(s, r)) > Threshold THEN Tail(Append(s, r)) ELSE Append(s, r)
  PROVE  /\ w \in Seq(Result)
         /\ Len(w) \in 1 .. Threshold /\ Len(w) <= Len(s) + 1
         /\ w[Len(w)] = r
         /\ \A j \in 1 .. Len(w) - 1 : w[Len(w) - j] = s[Len(s) - (j - 1)]
<1> DEFINE a == Append(s, r)
<1>1. /\ a \in Seq(Result) /\ Len(a) = Len(s) + 1 /\ a[Len(a)] = r
      /\ \A i \in 1 .. Len(s) : a[i] = s[i]
      /\ Len(s) \in Nat
  OBVIOUS
<1>2. Threshold \in Nat /\ Threshold >= 1
  BY GuardAssumption
<1> HIDE DEF a
<1>3. CASE Len(a) > Threshold
  <2>1. w = Tail(a) /\ Len(s) = Threshold
    BY <1>1, <1>2, <1>3 DEF a
  <2>2. w \in Seq(Result) /\ Len(w) = Threshold /\ \A i \in 1 .. Len(w) : w[i] = a[i + 1]
    BY <1>1, <1>2, <2>1
  <2> QED
    BY <1>1, <1>2, <2>1, <2>2
<1>4. CASE ~(Len(a) > Threshold)
  <2>1. w = a
    BY <1>4 DEF a
  <2> QED
    BY <1>1, <1>2, <1>4, <2>1
<1> QED
  BY <1>3, <1>4

(* An outcome enters the window, which drops its oldest when it is full.    *)
LEMMA RecordKeeps ==
  ASSUME BreakerInv, NEW ok \in BOOLEAN, CbRecord(ok), now' = now
  PROVE  BreakerInv'
<1> DEFINE r == [ok |-> ok, at |-> now]
<1>1. /\ outcomes \in Seq(Result) /\ Len(outcomes) <= Threshold /\ r \in Result
      /\ failures \in Nat /\ now \in Nat /\ r.ok = ok /\ r.at = now
  BY DEF BreakerInv, Result
<1>2. outcomes' = IF Len(Append(outcomes, r)) > Threshold THEN Tail(Append(outcomes, r))
                  ELSE Append(outcomes, r)
  BY DEF CbRecord
<1>3. /\ failures' = IF ok THEN 0 ELSE failures + 1
      /\ openedAt' = IF ok THEN None ELSE IF failures + 1 >= Threshold THEN now ELSE openedAt
  BY DEF CbRecord
<1> HIDE DEF r
<1>4. /\ outcomes' \in Seq(Result)
      /\ Len(outcomes') \in 1 .. Threshold /\ Len(outcomes') <= Len(outcomes) + 1
      /\ outcomes'[Len(outcomes')] = r
      /\ \A j \in 1 .. Len(outcomes') - 1 :
           outcomes'[Len(outcomes') - j] = outcomes[Len(outcomes) - (j - 1)]
  BY <1>1, <1>2, WindowMoves
<1>5. Threshold \in Nat /\ Threshold >= 1 /\ Len(outcomes) \in Nat /\ Len(outcomes') \in Nat
  BY <1>1, <1>4, GuardAssumption
<1>6. failures' \in Nat
  BY <1>1, <1>3
<1>7. ASSUME NEW k \in 0 .. Len(outcomes'), AllFailed(k)'
      PROVE  failures' >= k
  <2>1. CASE k = 0
    BY <1>6, <2>1
  <2>2. CASE k > 0
    <3>1. \A j \in 0 .. k - 1 : ~outcomes'[Len(outcomes') - j].ok
      BY <1>7 DEF AllFailed
    <3>2. ~outcomes'[Len(outcomes') - 0].ok
      BY <1>5, <2>2, <3>1
    <3>3. ~ok
      BY <1>1, <1>4, <1>5, <3>2
    <3>4. k - 1 \in 0 .. Len(outcomes)
      BY <1>4, <1>5, <2>2
    <3>5. AllFailed(k - 1)
      <4> SUFFICES ASSUME NEW j \in 0 .. (k - 1) - 1
                   PROVE  ~outcomes[Len(outcomes) - j].ok
        BY DEF AllFailed
      <4>1. j + 1 \in 1 .. Len(outcomes') - 1 /\ j + 1 \in 0 .. k - 1 /\ (j + 1) - 1 = j
        BY <1>5, <2>2
      <4> QED
        BY <1>4, <3>1, <4>1
    <3>6. failures >= k - 1
      BY <3>4, <3>5 DEF BreakerInv
    <3> QED
      BY <1>1, <1>3, <3>3, <3>6
  <2> QED
    BY <2>1, <2>2
<1>8. failures' >= Threshold =>
        Len(outcomes') > 0 /\ openedAt' = outcomes'[Len(outcomes')].at
  <2>1. CASE ok
    BY <1>3, <1>5, <2>1
  <2>2. CASE ~ok
    BY <1>1, <1>3, <1>4, <1>5, <2>2
  <2> QED
    BY <2>1, <2>2
<1> QED
  BY <1>1, <1>4, <1>5, <1>6, <1>7, <1>8 DEF BreakerInv

(* Every step of the guard keeps the window and the count of failures.      *)
LEMMA BreakerStep ==
  ASSUME BreakerInv, [GuardNext]_<<guardVars, now>>
  PROVE  BreakerInv'
<1>1. ASSUME UNCHANGED breaker, now' \in Nat
      PROVE  BreakerInv'
  BY <1>1 DEF BreakerInv, AllFailed, breaker
<1>2. CASE GuardTick
  BY <1>1, <1>2 DEF GuardTick, Tick, BreakerInv
<1>3. ASSUME NEW new \in Capacities, RebuildBucket(new)
      PROVE  BreakerInv'
  BY <1>1, <1>3 DEF RebuildBucket, BreakerInv
<1>4. ASSUME NEW c \in Completion, StartCompletion(c) \/ EndCompletion(c)
      PROVE  BreakerInv'
  BY <1>1, <1>4 DEF StartCompletion, EndCompletion, BreakerInv
<1>5. ASSUME NEW c \in Enrichment, StartEnrichment(c) \/ ReadSample(c)
      PROVE  BreakerInv'
  BY <1>1, <1>5 DEF StartEnrichment, ReadSample, BreakerInv
<1>6. ASSUME NEW c \in Enrichment, FinishEnrichment(c) \/ EnrichmentFails(c)
      PROVE  BreakerInv'
  BY <1>6, RecordKeeps DEF FinishEnrichment, EnrichmentFails
<1>7. CASE UNCHANGED <<guardVars, now>>
  BY <1>1, <1>7 DEF guardVars, BreakerInv
<1> QED
  BY <1>2, <1>3, <1>4, <1>5, <1>6, <1>7 DEF GuardNext

(* Only StartEnrichment begins an enrichment, and the breaker it finds open    *)
(* while the newest failures are as many as the threshold and fresh.           *)
LEMMA OpenWhileTripped ==
  ASSUME BreakerInv, Tripped
  PROVE  CircuitOpen
<1>1. Threshold \in Nat /\ Threshold >= 1 /\ Cooldown \in Nat /\ None \notin Nat
  BY GuardAssumption
<1>2. /\ Len(outcomes) = Threshold /\ \A i \in 1 .. Threshold : ~outcomes[i].ok
      /\ now - outcomes[Threshold].at < Cooldown
  BY DEF Tripped
<1>3. AllFailed(Threshold)
  BY <1>1, <1>2 DEF AllFailed
<1>4. failures >= Threshold
  BY <1>1, <1>2, <1>3 DEF BreakerInv
<1>5. openedAt = outcomes[Threshold].at
  BY <1>2, <1>4 DEF BreakerInv
<1>6. outcomes[Threshold] \in Result
  BY <1>1, <1>2 DEF BreakerInv
<1> QED
  BY <1>1, <1>2, <1>5, <1>6 DEF CircuitOpen, Result

(* After a threshold of failures in a row, of calls that overlap as they may,  *)
(* no enrichment begins for the length of the cooldown.                        *)
THEOREM BreakerRests == GuardSpec => RestsAfterFailures
<1>1. GuardInit /\ ClockInit => BreakerInv
  <2> SUFFICES ASSUME GuardInit, ClockInit
               PROVE  BreakerInv
    OBVIOUS
  <2>1. outcomes = <<>> /\ failures = 0 /\ now = 0 /\ Threshold \in Nat \ {0}
    BY GuardAssumption DEF GuardInit, ClockInit
  <2>2. Len(outcomes) = 0 /\ outcomes \in Seq(Result)
    BY <2>1
  <2> QED
    BY <2>1, <2>2 DEF BreakerInv
<1>2. BreakerInv /\ [GuardNext]_<<guardVars, now>> => BreakerInv'
  BY BreakerStep
<1>3. BreakerInv /\ GuardTypeOK /\ [GuardNext]_<<guardVars, now>> =>
        [\A c \in Enrichment : stage[c] = "idle" /\ stage'[c] # "idle" => ~Tripped]_guardVars
  <2> SUFFICES ASSUME BreakerInv, GuardTypeOK, GuardNext,
                      NEW c \in Enrichment, stage[c] = "idle", stage'[c] # "idle", Tripped
               PROVE  FALSE
    BY DEF guardVars
  <2>1. CircuitOpen
    BY OpenWhileTripped
  <2>2. /\ stage \in [Call -> {"idle", "primary", "secondary", "one", "two", "second"}]
        /\ c \in Call /\ c \notin Completion
    BY GuardAssumption DEF GuardTypeOK, Call, Completion
  <2>3. \A d \in Completion : ~StartCompletion(d) /\ ~EndCompletion(d)
    BY <2>2 DEF StartCompletion, EndCompletion, Goes
  <2>4. \A d \in Enrichment : ~StartEnrichment(d)
    BY <2>1 DEF StartEnrichment
  <2>5. \A d \in Enrichment : ~ReadSample(d) /\ ~FinishEnrichment(d) /\ ~EnrichmentFails(d)
    BY <2>2 DEF ReadSample, FinishEnrichment, EnrichmentFails, Goes
  <2>6. ~GuardTick /\ \A new \in Capacities : ~RebuildBucket(new)
    BY DEF GuardTick, RebuildBucket, calls
  <2> QED
    BY <2>3, <2>4, <2>5, <2>6 DEF GuardNext
<1>4. GuardSpec => []GuardTypeOK
  BY GuardTypeCorrect
<1> QED
  BY <1>1, <1>2, <1>3, <1>4, PTL DEF GuardSpec, RestsAfterFailures
-----------------------------------------------------------------------------
(* An enrichment is clear only if two samples agree on plate and vehicle, and  *)
(* two samples never name a plate that one of them did not read.               *)
THEOREM ClearIsAgreed == ClearMeansAgreed
<1>1. ASSUME NEW a \in Reading
      PROVE  Single(a).readability # "clear"
  BY DEF Single, Lower, Reading, Readability
<1>2. ASSUME NEW a \in Reading, NEW b \in Reading
      PROVE  /\ Merge(a, b).readability = "clear" => a.plate = b.plate /\ a.look = b.look
             /\ Merge(a, b).plate \in {a.plate, None} /\ Merge(a, b).plate \in {b.plate, None}
  BY DEF Merge, Lower, Reading, Readability
<1> QED
  BY <1>1, <1>2 DEF ClearMeansAgreed
-----------------------------------------------------------------------------
(* The Slack notifier: an alert is in one place.                               *)

DigestType == [lines : Seq(Alert), more : Nat, alerts : SUBSET Alert]
CardType == [alert : Alert, image : BOOLEAN, stage : {"upload", "post"}]
PostType == [kind : {"card", "medium", "low"}, alerts : SUBSET Alert, result : Outcome]

Spot == {"told", "medium", "low", "cards", "medium digest", "low digest", "posted"}

InDigest(t) == IF digests[t] = None THEN {} ELSE digests[t].alerts

(* The alerts that posts were made of.                                         *)
Named(posts) == {a \in Alert : \E p \in posts : a \in p.alerts}

(* The alerts in each place.                                                   *)
AlertsAt ==
  [x \in Spot |->
     CASE x = "told" -> Range(told)
       [] x = "medium" -> Range(mediumBuffer)
       [] x = "low" -> Range(lowBuffer)
       [] x = "cards" -> {c.alert : c \in cards}
       [] x = "medium digest" -> InDigest("medium")
       [] x = "low digest" -> InDigest("low")
       [] x = "posted" -> Named(outcome)]

NoneShared(P) == \A x, y \in Spot : x # y => P[x] \cap P[y] = {}

(* What each place holds, it holds once.                                       *)
OnceInPlace ==
  /\ told \in Seq(Alert) /\ mediumBuffer \in Seq(Alert) /\ lowBuffer \in Seq(Alert)
  /\ Distinct(told) /\ Distinct(mediumBuffer) /\ Distinct(lowBuffer)
  /\ cards \subseteq CardType
  /\ \A c, d \in cards : c.alert = d.alert => c = d
  /\ outcome \subseteq PostType
  /\ \A p, q \in outcome : p.alerts \cap q.alerts # {} => p = q

DigestsComplete ==
  /\ digests \in [Tier -> DigestType \cup {None}]
  /\ \A t \in Tier : digests[t] # None =>
       Len(digests[t].lines) + digests[t].more = Cardinality(digests[t].alerts)

OnePlace ==
  /\ alerted \subseteq Alert
  /\ NoneShared(AlertsAt)
  /\ \A a : a \in alerted <=> \E x \in Spot : a \in AlertsAt[x]

AlertsInv == OnceInPlace /\ DigestsComplete /\ OnePlace

(* The same, place by place, in a state and the next.                          *)
ByPlace ==
  /\ AlertsAt["told"] = Range(told)
  /\ AlertsAt["medium"] = Range(mediumBuffer)
  /\ AlertsAt["low"] = Range(lowBuffer)
  /\ AlertsAt["cards"] = {c.alert : c \in cards}
  /\ AlertsAt["medium digest"] = InDigest("medium")
  /\ AlertsAt["low digest"] = InDigest("low")
  /\ AlertsAt["posted"] = Named(outcome)

(* The function that gives the alerts of each place, unfolded.              *)
LEMMA AlertsByPlace == ByPlace /\ ByPlace'
<1>1. ByPlace
  BY DEF ByPlace, AlertsAt, Spot
<1>2. ByPlace'
  BY DEF ByPlace, AlertsAt, Spot
<1> QED
  BY <1>1, <1>2

(* Alerts that go from one place to another.                                   *)
LEMMA Moving ==
  ASSUME NEW P, NEW Q, NEW x \in Spot, NEW y \in Spot, x # y, NEW A,
         NoneShared(P), A \subseteq P[x],
         Q[x] \subseteq P[x] \ A, P[x] \subseteq Q[x] \cup A, Q[y] = P[y] \cup A,
         \A z \in Spot \ {x, y} : Q[z] = P[z]
  PROVE  /\ NoneShared(Q)
         /\ \A a : (\E z \in Spot : a \in P[z]) <=> (\E z \in Spot : a \in Q[z])
<1>1. \A z \in Spot : z = x \/ z = y \/ Q[z] = P[z]
  OBVIOUS
<1>2. ASSUME NEW v \in Spot, NEW w \in Spot, v # w, NEW a, a \in Q[v], a \in Q[w]
      PROVE  FALSE
  <2>1. CASE a \in A
    BY <1>1, <1>2, <2>1 DEF NoneShared
  <2>2. CASE a \notin A
    <3>1. a \in P[v] /\ a \in P[w]
      BY <1>1, <1>2, <2>2
    <3> QED
      BY <1>2, <3>1 DEF NoneShared
  <2> QED
    BY <2>1, <2>2
<1>3. ASSUME NEW a
      PROVE  (\E z \in Spot : a \in P[z]) <=> (\E z \in Spot : a \in Q[z])
  <2>1. ASSUME NEW z \in Spot, a \in P[z]
        PROVE  \E w \in Spot : a \in Q[w]
    <3>1. CASE z = x
      BY <2>1, <3>1
    <3>2. CASE z = y
      BY <2>1, <3>2
    <3>3. CASE z # x /\ z # y
      BY <1>1, <2>1, <3>3
    <3> QED
      BY <3>1, <3>2, <3>3
  <2>2. ASSUME NEW z \in Spot, a \in Q[z]
        PROVE  \E w \in Spot : a \in P[w]
    <3>1. CASE z = x
      BY <2>2, <3>1
    <3>2. CASE z = y
      BY <2>2, <3>2
    <3>3. CASE z # x /\ z # y
      BY <1>1, <2>2, <3>3
    <3> QED
      BY <3>1, <3>2, <3>3
  <2> QED
    BY <2>1, <2>2
<1>4. NoneShared(Q)
  BY <1>2 DEF NoneShared
<1> QED
  BY <1>3, <1>4

(* Before the first event every place is empty.                             *)
LEMMA InitAlerts == SlackInit => AlertsInv
<1> SUFFICES ASSUME SlackInit
             PROVE  AlertsInv
  OBVIOUS
<1> USE DEF SlackInit
<1>1. <<>> \in Seq(Alert) /\ Len(<<>>) = 0 /\ Range(<<>>) = {}
  BY DEF Range
<1>2. OnceInPlace
  BY <1>1 DEF OnceInPlace, Distinct
<1>3. digests \in [Tier -> DigestType \cup {None}] /\ \A t \in Tier : digests[t] = None
  OBVIOUS
<1>4. DigestsComplete
  BY <1>3 DEF DigestsComplete
<1>5. \A x \in Spot : AlertsAt[x] = {}
  <2>1. ByPlace
    BY AlertsByPlace
  <2>2. InDigest("medium") = {} /\ InDigest("low") = {}
    BY <1>3 DEF InDigest, Tier
  <2>3. {c.alert : c \in cards} = {} /\ Named(outcome) = {}
    BY DEF Named
  <2> QED
    BY <1>1, <2>1, <2>2, <2>3 DEF ByPlace, Spot
<1>6. OnePlace
  BY <1>5 DEF OnePlace, NoneShared
<1> QED
  BY <1>2, <1>4, <1>6 DEF AlertsInv

(* An event is emitted: it is new to all places.                               *)
LEMMA EmitKeeps ==
  ASSUME AlertsInv, NEW a \in Alert, EmitAlert(a)
  PROVE  AlertsInv'
<1> USE DEF AlertsInv
<1>1. /\ a \notin alerted /\ alerted' = alerted \cup {a} /\ told' = Append(told, a)
      /\ UNCHANGED <<mediumBuffer, lowBuffer, cards, digests, outcome>>
  BY DEF EmitAlert
<1> DEFINE P == AlertsAt
           Q == AlertsAt'
<1>2. \A x \in Spot : a \notin P[x]
  BY <1>1 DEF OnePlace
<1>3. a \notin Range(told)
  <2>1. "told" \in Spot
    BY DEF Spot
  <2> QED
    BY <1>2, <2>1, AlertsByPlace DEF ByPlace
<1>4. /\ told' \in Seq(Alert) /\ Distinct(told') /\ Range(told') = Range(told) \cup {a}
  BY <1>1, <1>3, DistinctAppend DEF OnceInPlace
<1>5. OnceInPlace'
  BY <1>1, <1>4 DEF OnceInPlace
<1>6. DigestsComplete'
  BY <1>1 DEF DigestsComplete
<1>7. Q["told"] = P["told"] \cup {a}
  <2>1. P["told"] = Range(told) /\ Q["told"] = Range(told')
    BY AlertsByPlace DEF ByPlace
  <2> QED
    BY <1>4, <2>1
<1>8. \A x \in Spot \ {"told"} : Q[x] = P[x]
  BY <1>1, AlertsByPlace DEF ByPlace, Spot, InDigest
<1> HIDE DEF P, Q
<1>9. /\ NoneShared(P) /\ \A b : b \in alerted <=> \E x \in Spot : b \in P[x]
      /\ "told" \in Spot
  BY DEF OnePlace, P, Spot
<1>10. NoneShared(Q)
  <2> SUFFICES ASSUME NEW x \in Spot, NEW y \in Spot, x # y
               PROVE  Q[x] \cap Q[y] = {}
    BY DEF NoneShared
  <2>1. P[x] \cap P[y] = {}
    BY <1>9 DEF NoneShared
  <2> QED
    BY <1>2, <1>7, <1>8, <2>1
<1>11. \A b : b \in alerted' <=> \E x \in Spot : b \in Q[x]
  BY <1>1, <1>7, <1>8, <1>9
<1>12. OnePlace'
  BY <1>1, <1>10, <1>11 DEF OnePlace, Q
<1> QED
  BY <1>5, <1>6, <1>12


(* A post of alerts that none was of is added.                                 *)
LEMMA Posting ==
  ASSUME NEW O, \A p, q \in O : p.alerts \cap q.alerts # {} => p = q,
         NEW r, r.alerts \subseteq Alert, r.alerts \cap Named(O) = {}
  PROVE  /\ \A p, q \in O \cup {r} : p.alerts \cap q.alerts # {} => p = q
         /\ Named(O \cup {r}) = Named(O) \cup r.alerts
<1>1. ASSUME NEW p \in O
      PROVE  p.alerts \cap r.alerts = {} /\ r.alerts \cap p.alerts = {}
  BY DEF Named
<1>2. ASSUME NEW p \in O \cup {r}, NEW q \in O \cup {r}, p.alerts \cap q.alerts # {}
      PROVE  p = q
  <2>1. CASE p \in O /\ q \in O
    BY <1>2, <2>1
  <2>2. CASE p = r /\ q = r
    BY <2>2
  <2>3. CASE p \in O /\ q = r
    BY <1>1, <1>2, <2>3
  <2>4. CASE p = r /\ q \in O
    BY <1>1, <1>2, <2>4
  <2> QED
    BY <2>1, <2>2, <2>3, <2>4
<1>3. Named(O \cup {r}) = Named(O) \cup r.alerts
  BY DEF Named
<1> QED
  BY <1>2, <1>3

(* An alert that goes from one place to another is still in one.            *)
LEMMA MoveKeeps ==
  ASSUME OnePlace, NEW x \in Spot, NEW y \in Spot, x # y, NEW A,
         A \subseteq AlertsAt[x],
         AlertsAt'[x] \subseteq AlertsAt[x] \ A, AlertsAt[x] \subseteq AlertsAt'[x] \cup A,
         AlertsAt'[y] = AlertsAt[y] \cup A,
         \A z \in Spot \ {x, y} : AlertsAt'[z] = AlertsAt[z],
         alerted' = alerted
  PROVE  OnePlace'
<1> DEFINE P == AlertsAt
           Q == AlertsAt'
<1>1. /\ A \subseteq P[x] /\ Q[x] \subseteq P[x] \ A /\ P[x] \subseteq Q[x] \cup A
      /\ Q[y] = P[y] \cup A
      /\ \A z \in Spot \ {x, y} : Q[z] = P[z]
  OBVIOUS
<1>2. NoneShared(P) /\ \A a : a \in alerted <=> \E z \in Spot : a \in P[z]
  BY DEF OnePlace
<1> HIDE DEF P, Q
<1>3. NoneShared(Q) /\ \A a : (\E z \in Spot : a \in P[z]) <=> (\E z \in Spot : a \in Q[z])
  BY <1>1, <1>2, Moving
<1>4. \A a : a \in alerted <=> \E z \in Spot : a \in Q[z]
  BY <1>2, <1>3
<1> QED
  BY <1>3, <1>4 DEF OnePlace, Q

(* A task that runs hands its alert to a buffer, a card or a post that is off. *)
LEMMA NotifyKeeps ==
  ASSUME AlertsInv, NotifyEvent
  PROVE  AlertsInv'
<1> USE DEF AlertsInv
<1> DEFINE a == Head(told)
<1>1. /\ told # <<>> /\ told' = Tail(told)
      /\ UNCHANGED <<digests, alerted>>
      /\ told \in Seq(Alert) /\ Distinct(told)
  BY DEF NotifyEvent, OnceInPlace
<1>2. /\ a \in Alert /\ told' \in Seq(Alert) /\ Distinct(told')
      /\ Range(told) = {a} \cup Range(told') /\ a \notin Range(told')
  BY <1>1, DistinctTail
<1>3. /\ "told" \in Spot /\ "medium" \in Spot /\ "low" \in Spot /\ "cards" \in Spot
      /\ "posted" \in Spot
  BY DEF Spot
<1>4. ByPlace /\ ByPlace'
  BY AlertsByPlace
<1>5. \A x \in Spot : a \in AlertsAt[x] => x = "told"
  <2>1. a \in AlertsAt["told"]
    BY <1>2, <1>4 DEF ByPlace
  <2> QED
    BY <1>3, <2>1 DEF OnePlace, NoneShared
<1>6. /\ a \notin Range(mediumBuffer) /\ a \notin Range(lowBuffer)
      /\ \A c \in cards : c.alert # a
      /\ \A p \in outcome : a \notin p.alerts
  <2>1. a \notin Named(outcome)
    BY <1>3, <1>4, <1>5 DEF ByPlace
  <2> QED
    BY <1>2, <1>3, <1>4, <1>5, <2>1 DEF ByPlace, Named
<1> HIDE DEF a
<1>7. /\ {a} \subseteq AlertsAt["told"]
      /\ AlertsAt'["told"] \subseteq AlertsAt["told"] \ {a}
      /\ AlertsAt["told"] \subseteq AlertsAt'["told"] \cup {a}
  BY <1>2, <1>4 DEF ByPlace
<1>8. /\ AlertsAt'["medium digest"] = AlertsAt["medium digest"]
      /\ AlertsAt'["low digest"] = AlertsAt["low digest"]
  BY <1>1, <1>4 DEF ByPlace, InDigest
<1>9. DigestsComplete'
  BY <1>1 DEF DigestsComplete
<1>10. CASE mediumBuffer' = Append(mediumBuffer, a) /\ UNCHANGED <<lowBuffer, cards, outcome>>
  <2>1. /\ mediumBuffer' \in Seq(Alert) /\ Distinct(mediumBuffer')
        /\ Range(mediumBuffer') = Range(mediumBuffer) \cup {a}
    BY <1>2, <1>6, <1>10, DistinctAppend DEF OnceInPlace
  <2>2. OnceInPlace'
    BY <1>2, <1>10, <2>1 DEF OnceInPlace
  <2>3. /\ AlertsAt'["medium"] = AlertsAt["medium"] \cup {a}
        /\ \A z \in Spot \ {"told", "medium"} : AlertsAt'[z] = AlertsAt[z]
    BY <1>4, <1>8, <1>10, <2>1 DEF ByPlace, Spot
  <2>4. OnePlace'
    BY <1>1, <1>3, <1>7, <2>3, MoveKeeps
  <2> QED
    BY <1>9, <2>2, <2>4
<1>11. CASE lowBuffer' = Append(lowBuffer, a) /\ UNCHANGED <<mediumBuffer, cards, outcome>>
  <2>1. /\ lowBuffer' \in Seq(Alert) /\ Distinct(lowBuffer')
        /\ Range(lowBuffer') = Range(lowBuffer) \cup {a}
    BY <1>2, <1>6, <1>11, DistinctAppend DEF OnceInPlace
  <2>2. OnceInPlace'
    BY <1>2, <1>11, <2>1 DEF OnceInPlace
  <2>3. /\ AlertsAt'["low"] = AlertsAt["low"] \cup {a}
        /\ \A z \in Spot \ {"told", "low"} : AlertsAt'[z] = AlertsAt[z]
    BY <1>4, <1>8, <1>11, <2>1 DEF ByPlace, Spot
  <2>4. OnePlace'
    BY <1>1, <1>3, <1>7, <2>3, MoveKeeps
  <2> QED
    BY <1>9, <2>2, <2>4
<1>12. CASE /\ \E c \in CardType : c.alert = a /\ cards' = cards \cup {c}
            /\ UNCHANGED <<mediumBuffer, lowBuffer, outcome>>
  <2>1. PICK c \in CardType : c.alert = a /\ cards' = cards \cup {c}
    BY <1>12
  <2>2. OnceInPlace'
    BY <1>2, <1>6, <1>12, <2>1 DEF OnceInPlace
  <2>3. {d.alert : d \in cards'} = {d.alert : d \in cards} \cup {a}
    BY <2>1
  <2>4. /\ AlertsAt'["cards"] = AlertsAt["cards"] \cup {a}
        /\ \A z \in Spot \ {"told", "cards"} : AlertsAt'[z] = AlertsAt[z]
    BY <1>4, <1>8, <1>12, <2>3 DEF ByPlace, Spot
  <2>5. OnePlace'
    BY <1>1, <1>3, <1>7, <2>4, MoveKeeps
  <2> QED
    BY <1>9, <2>2, <2>5
<1>13. CASE /\ outcome' = outcome \cup {Post("card", {a}, "off")}
            /\ UNCHANGED <<mediumBuffer, lowBuffer, cards>>
  <2> DEFINE q == Post("card", {a}, "off")
  <2>1. q \in PostType /\ q.alerts = {a}
    BY <1>2 DEF Post, PostType, Outcome
  <2>2. outcome' = outcome \cup {q}
    BY <1>13
  <2> HIDE DEF q
  <2>3. /\ \A r, s \in outcome' : r.alerts \cap s.alerts # {} => r = s
        /\ Named(outcome') = Named(outcome) \cup {a}
    <3>1. q.alerts \subseteq Alert /\ q.alerts \cap Named(outcome) = {}
      BY <1>2, <1>6, <2>1 DEF Named
    <3> QED
      BY <2>1, <2>2, <3>1, Posting DEF OnceInPlace
  <2>4. OnceInPlace'
    BY <1>2, <1>13, <2>1, <2>2, <2>3 DEF OnceInPlace
  <2>5. /\ AlertsAt'["posted"] = AlertsAt["posted"] \cup {a}
        /\ \A z \in Spot \ {"told", "posted"} : AlertsAt'[z] = AlertsAt[z]
    BY <1>4, <1>8, <1>13, <2>3 DEF ByPlace, Spot
  <2>6. OnePlace'
    BY <1>1, <1>3, <1>7, <2>5, MoveKeeps
  <2> QED
    BY <1>9, <2>4, <2>6
<1>14. \/ mediumBuffer' = Append(mediumBuffer, a) /\ UNCHANGED <<lowBuffer, cards, outcome>>
       \/ lowBuffer' = Append(lowBuffer, a) /\ UNCHANGED <<mediumBuffer, cards, outcome>>
       \/ NotifyHigh(a) /\ UNCHANGED <<mediumBuffer, lowBuffer>>
  <2>1. AlertRisk[a] \in {"high", "medium", "low"}
    BY <1>2, SlackAssumption
  <2> QED
    BY <2>1 DEF NotifyEvent, a
<1>15. ASSUME NotifyHigh(a), UNCHANGED <<mediumBuffer, lowBuffer>>
       PROVE  AlertsInv'
  <2>1. CASE webhook
    <3>1. PICK picture \in BOOLEAN :
            cards' = cards \cup {[alert |-> a, image |-> FALSE,
                                  stage |-> IF relay /\ picture THEN "upload" ELSE "post"]}
      BY <1>15, <2>1 DEF NotifyHigh
    <3> DEFINE c == [alert |-> a, image |-> FALSE,
                     stage |-> IF relay /\ picture THEN "upload" ELSE "post"]
    <3>2. c \in CardType /\ c.alert = a
      BY <1>2 DEF CardType
    <3> QED
      BY <1>12, <1>15, <2>1, <3>1, <3>2 DEF NotifyHigh
  <2>2. CASE ~webhook
    BY <1>13, <1>15, <2>2 DEF NotifyHigh
  <2> QED
    BY <2>1, <2>2
<1> QED
  BY <1>10, <1>11, <1>14, <1>15

(* A card whose upload has ended stays the card of its alert.                  *)
LEMMA UploadKeeps ==
  ASSUME AlertsInv, NEW c \in cards, EndUpload(c)
  PROVE  AlertsInv'
<1> USE DEF AlertsInv
<1>1. PICK image \in BOOLEAN :
        cards' = (cards \ {c}) \cup {[c EXCEPT !.image = image, !.stage = "post"]}
  BY DEF EndUpload
<1> DEFINE d == [c EXCEPT !.image = image, !.stage = "post"]
<1>2. UNCHANGED <<told, mediumBuffer, lowBuffer, digests, outcome, alerted>>
  BY DEF EndUpload
<1>3. c \in CardType /\ d \in CardType /\ d.alert = c.alert
  BY DEF OnceInPlace, CardType
<1> HIDE DEF d
<1>4. cards' = (cards \ {c}) \cup {d}
  BY <1>1 DEF d
<1>5. \A e, f \in cards' : e.alert = f.alert => e = f
  BY <1>3, <1>4 DEF OnceInPlace
<1>6. OnceInPlace' /\ DigestsComplete'
  BY <1>2, <1>3, <1>4, <1>5 DEF OnceInPlace, DigestsComplete
<1>7. {e.alert : e \in cards'} = {e.alert : e \in cards}
  BY <1>3, <1>4
<1>8. \A x \in Spot : AlertsAt'[x] = AlertsAt[x]
  <2>1. ByPlace /\ ByPlace'
    BY AlertsByPlace
  <2> QED
    BY <1>2, <1>7, <2>1 DEF ByPlace, Spot, InDigest
<1>9. OnePlace'
  BY <1>2, <1>8 DEF OnePlace, NoneShared
<1> QED
  BY <1>6, <1>9

(* A card that ended leaves its alert to its post.                             *)
LEMMA CardKeeps ==
  ASSUME AlertsInv, NEW c \in cards, NEW result \in Outcome, EndCard(c, result)
  PROVE  AlertsInv'
<1> USE DEF AlertsInv
<1> DEFINE q == Post("card", {c.alert}, result)
<1>1. /\ cards' = cards \ {c} /\ outcome' = outcome \cup {q}
      /\ UNCHANGED <<told, mediumBuffer, lowBuffer, digests, alerted>>
  BY DEF EndCard
<1>2. c.alert \in Alert
  BY DEF OnceInPlace, CardType
<1>3. q \in PostType /\ q.alerts = {c.alert}
  BY <1>2 DEF Post, PostType
<1> HIDE DEF q
<1>4. ByPlace /\ ByPlace' /\ "cards" \in Spot /\ "posted" \in Spot
  BY AlertsByPlace DEF Spot
<1>5. c.alert \in AlertsAt["cards"]
  BY <1>4 DEF ByPlace
<1>6. c.alert \notin Named(outcome)
  <2>1. AlertsAt["cards"] \cap AlertsAt["posted"] = {}
    BY <1>4 DEF OnePlace, NoneShared
  <2> QED
    BY <1>4, <1>5, <2>1 DEF ByPlace
<1>7. /\ \A r, s \in outcome' : r.alerts \cap s.alerts # {} => r = s
      /\ Named(outcome') = Named(outcome) \cup {c.alert}
  <2>1. q.alerts \subseteq Alert /\ q.alerts \cap Named(outcome) = {}
    BY <1>2, <1>3, <1>6
  <2> QED
    BY <1>1, <1>3, <2>1, Posting DEF OnceInPlace
<1>8. OnceInPlace' /\ DigestsComplete'
  BY <1>1, <1>3, <1>7 DEF OnceInPlace, DigestsComplete
<1>9. /\ {d.alert : d \in cards'} \subseteq {d.alert : d \in cards} \ {c.alert}
      /\ {d.alert : d \in cards} \subseteq {d.alert : d \in cards'} \cup {c.alert}
  BY <1>1 DEF OnceInPlace
<1>10. /\ {c.alert} \subseteq AlertsAt["cards"]
       /\ AlertsAt'["cards"] \subseteq AlertsAt["cards"] \ {c.alert}
       /\ AlertsAt["cards"] \subseteq AlertsAt'["cards"] \cup {c.alert}
       /\ AlertsAt'["posted"] = AlertsAt["posted"] \cup {c.alert}
       /\ \A z \in Spot \ {"cards", "posted"} : AlertsAt'[z] = AlertsAt[z]
  BY <1>1, <1>4, <1>5, <1>7, <1>9 DEF ByPlace, Spot, InDigest
<1>11. OnePlace'
  BY <1>1, <1>4, <1>10, MoveKeeps
<1> QED
  BY <1>8, <1>11

(* A digest names or counts each alert of a buffer.                            *)
LEMMA DigestOf ==
  ASSUME NEW s \in Seq(Alert), Distinct(s)
  PROVE  /\ Digest(s) \in DigestType /\ Digest(s) # None
         /\ Digest(s).alerts = Range(s)
         /\ Len(Digest(s).lines) + Digest(s).more = Cardinality(Digest(s).alerts)
<1> DEFINE n == Min({Len(s), DigestLines})
           lines == SubSeq(s, 1, n)
<1>1. n \in 0 .. Len(s) /\ Len(s) \in Nat
  <2>1. DigestLines \in Nat
    BY SlackAssumption
  <2>2. Len(s) \in Nat
    OBVIOUS
  <2>3. n \in {Len(s), DigestLines} /\ n <= Len(s)
    <3>1. Len(s) \in Int /\ DigestLines \in Int
      BY <2>1, <2>2
    <3> QED
      BY <3>1, MinOfTwo
  <2> HIDE DEF n
  <2> QED
    BY <2>1, <2>2, <2>3
<1> HIDE DEF n
<1>2. lines \in Seq(Alert) /\ Len(lines) = n
  BY <1>1
<1>3. ToSet(s) = Range(s) /\ Range(s) \subseteq Alert /\ Cardinality(Range(s)) = Len(s)
  <2>1. ToSet(s) = Range(s)
    BY DEF ToSet, Range
  <2> QED
    BY <2>1, RangeOfSeq, SizeOfRange
<1>4. Digest(s) = [lines |-> lines, more |-> Len(s) - n, alerts |-> ToSet(s)]
  BY DEF Digest, n
<1> HIDE DEF lines
<1>5. /\ Digest(s).lines = lines /\ Digest(s).more = Len(s) - n
      /\ Digest(s).alerts = Range(s)
  BY <1>3, <1>4
<1>6. Digest(s) \in DigestType
  BY <1>1, <1>2, <1>3, <1>4 DEF DigestType
<1>7. Digest(s) # None
  BY <1>6, NoDigestAssumption DEF DigestType
<1>8. Len(lines) + (Len(s) - n) = Len(s)
  BY <1>1, <1>2
<1> QED
  BY <1>3, <1>5, <1>6, <1>7, <1>8

(* The places a tier's alerts go through.                                      *)
DigestPlace == [medium |-> "medium digest", low |-> "low digest"]

(* The places of a tier are its buffer and its digest.                      *)
LEMMA TierPlaces ==
  ASSUME NEW t \in Tier
  PROVE  /\ t \in Spot /\ DigestPlace[t] \in Spot /\ "posted" \in Spot
         /\ t # DigestPlace[t] /\ t # "posted" /\ DigestPlace[t] # "posted"
         /\ AlertsAt[t] = Range(Buffer(t)) /\ AlertsAt'[t] = Range(Buffer(t)')
         /\ AlertsAt[DigestPlace[t]] = InDigest(t) /\ AlertsAt'[DigestPlace[t]] = InDigest(t)'
         /\ AlertsAt["posted"] = Named(outcome) /\ AlertsAt'["posted"] = Named(outcome')
<1>1. ByPlace /\ ByPlace'
  BY AlertsByPlace
<1>2. CASE t = "medium"
  BY <1>1, <1>2 DEF ByPlace, Spot, DigestPlace, Buffer
<1>3. CASE t = "low"
  BY <1>1, <1>3 DEF ByPlace, Spot, DigestPlace, Buffer
<1> QED
  BY <1>2, <1>3 DEF Tier

(* There is no other place than those of the tiers and three more.          *)
LEMMA PlacesOfTiers ==
  \A z \in Spot : z \in {"told", "cards", "posted"} \/ \E u \in Tier : z = u \/ z = DigestPlace[u]
<1>1. /\ DigestPlace["medium"] = "medium digest" /\ DigestPlace["low"] = "low digest"
      /\ "medium" \in Tier /\ "low" \in Tier
  BY DEF DigestPlace, Tier
<1> QED
  BY <1>1 DEF Spot

(* A flush empties a buffer into a digest, or into a post that is off.         *)
LEMMA FlushKeeps ==
  ASSUME AlertsInv, NEW t \in Tier, Flush(t)
  PROVE  AlertsInv'
<1> USE DEF AlertsInv
<1> DEFINE s == Buffer(t)
           A == Range(s)
           y == DigestPlace[t]
<1>1. /\ UNCHANGED <<told, cards, alerted>>
      /\ digests[t] = None /\ Clear(t)
      /\ s \in Seq(Alert) /\ Distinct(s)
  BY DEF Flush, OnceInPlace, Buffer
<1>2. A \subseteq Alert
  BY <1>1, RangeOfSeq
<1>3. /\ Buffer(t)' = <<>>
      /\ mediumBuffer' \in {mediumBuffer, <<>>} /\ lowBuffer' \in {lowBuffer, <<>>}
      /\ \A u \in Tier \ {t} : Buffer(u)' = Buffer(u)
  BY <1>1 DEF Clear, Buffer, Tier
<1>4. /\ mediumBuffer' \in Seq(Alert) /\ Distinct(mediumBuffer')
      /\ lowBuffer' \in Seq(Alert) /\ Distinct(lowBuffer')
  <2>1. <<>> \in Seq(Alert) /\ Distinct(<<>>)
    BY DEF Distinct
  <2> QED
    BY <1>3, <2>1 DEF OnceInPlace
<1> HIDE DEF s, A, y
<1>5. /\ t \in Spot /\ y \in Spot /\ "posted" \in Spot
      /\ t # y /\ t # "posted" /\ y # "posted"
      /\ AlertsAt[t] = A /\ AlertsAt'[t] = {}
      /\ AlertsAt[y] = {}
      /\ AlertsAt["posted"] = Named(outcome)
  <2>1. AlertsAt[t] = A /\ AlertsAt'[t] = Range(Buffer(t)')
    BY TierPlaces DEF s, A
  <2>2. Range(<<>>) = {}
    BY DEF Range
  <2>3. InDigest(t) = {}
    BY <1>1 DEF InDigest
  <2> QED
    BY <1>3, <2>1, <2>2, <2>3, TierPlaces DEF y
<1>6. \A z \in Spot \ {t, y, "posted"} :
        z \in {"told", "cards"} \/ \E u \in Tier \ {t} : z = u \/ z = DigestPlace[u]
  BY PlacesOfTiers DEF y
<1>7. /\ AlertsAt'["told"] = AlertsAt["told"] /\ AlertsAt'["cards"] = AlertsAt["cards"]
      /\ \A u \in Tier \ {t} : AlertsAt'[u] = AlertsAt[u]
  <2>1. ByPlace /\ ByPlace'
    BY AlertsByPlace
  <2>2. \A u \in Tier : AlertsAt[u] = Range(Buffer(u)) /\ AlertsAt'[u] = Range(Buffer(u)')
    BY TierPlaces
  <2> QED
    BY <1>1, <1>3, <2>1, <2>2 DEF ByPlace
<1>8. CASE webhook
  <2>1. digests' = [digests EXCEPT ![t] = Digest(s)] /\ outcome' = outcome
    BY <1>8 DEF Flush, s
  <2>2. /\ Digest(s) \in DigestType /\ Digest(s) # None /\ Digest(s).alerts = A
        /\ Len(Digest(s).lines) + Digest(s).more = Cardinality(Digest(s).alerts)
    BY <1>1, DigestOf DEF A
  <2> DEFINE D == Digest(s)
  <2> HIDE DEF D
  <2>3. /\ digests' = [digests EXCEPT ![t] = D] /\ D \in DigestType /\ D # None /\ D.alerts = A
        /\ Len(D.lines) + D.more = Cardinality(D.alerts)
    BY <2>1, <2>2 DEF D
  <2>4. DigestsComplete'
    BY <2>3 DEF DigestsComplete
  <2>5. OnceInPlace'
    BY <1>1, <1>4, <2>1 DEF OnceInPlace
  <2>6. InDigest(t)' = A /\ \A u \in Tier \ {t} : InDigest(u)' = InDigest(u)
    BY <2>3 DEF InDigest, DigestsComplete
  <2>7. /\ AlertsAt'[y] = A
        /\ \A u \in Tier \ {t} : AlertsAt'[DigestPlace[u]] = AlertsAt[DigestPlace[u]]
    BY <2>6, TierPlaces DEF y
  <2>8. AlertsAt'["posted"] = AlertsAt["posted"]
    BY <2>1, TierPlaces
  <2>9. \A z \in Spot \ {t, y} : AlertsAt'[z] = AlertsAt[z]
    BY <1>6, <1>7, <2>7, <2>8
  <2>10. OnePlace'
    <3>1. /\ AlertsAt'[t] \subseteq AlertsAt[t] \ A /\ AlertsAt[t] \subseteq AlertsAt'[t] \cup A
          /\ AlertsAt'[y] = AlertsAt[y] \cup A
      BY <1>5, <2>7
    <3> QED
      BY <1>1, <1>5, <2>9, <3>1, MoveKeeps
  <2> QED
    BY <2>4, <2>5, <2>10
<1>9. CASE ~webhook
  <2> DEFINE q == Post(t, A, "off")
  <2>1. digests' = digests /\ outcome' = outcome \cup {q}
    <3>1. ToSet(s) = A
      BY DEF ToSet, Range, A
    <3> QED
      BY <1>9, <3>1 DEF Flush, s
  <2>2. q \in PostType /\ q.alerts = A
    BY <1>2 DEF Post, PostType, Tier, Outcome
  <2> HIDE DEF q
  <2>3. A \cap Named(outcome) = {}
    BY <1>5 DEF OnePlace, NoneShared
  <2>4. /\ \A r, p \in outcome' : r.alerts \cap p.alerts # {} => r = p
        /\ Named(outcome') = Named(outcome) \cup A
    BY <1>2, <2>1, <2>2, <2>3, Posting DEF OnceInPlace
  <2>5. OnceInPlace' /\ DigestsComplete'
    BY <1>1, <1>4, <2>1, <2>2, <2>4 DEF OnceInPlace, DigestsComplete
  <2>6. /\ AlertsAt'["posted"] = AlertsAt["posted"] \cup A
        /\ \A u \in Tier : AlertsAt'[DigestPlace[u]] = AlertsAt[DigestPlace[u]]
    <3>1. \A u \in Tier : InDigest(u)' = InDigest(u)
      BY <2>1 DEF InDigest
    <3>2. AlertsAt["posted"] = Named(outcome) /\ AlertsAt'["posted"] = Named(outcome')
      BY TierPlaces
    <3> QED
      BY <2>4, <3>1, <3>2, TierPlaces
  <2>7. \A z \in Spot \ {t, "posted"} : AlertsAt'[z] = AlertsAt[z]
    BY <1>6, <1>7, <2>6 DEF y
  <2>8. OnePlace'
    BY <1>1, <1>5, <2>6, <2>7, MoveKeeps
  <2> QED
    BY <2>5, <2>8
<1> QED
  BY <1>8, <1>9

(* A digest that ended leaves its alerts to its post.                          *)
LEMMA DigestKeeps ==
  ASSUME AlertsInv, NEW t \in Tier, NEW result \in Outcome, EndDigest(t, result)
  PROVE  AlertsInv'
<1> USE DEF AlertsInv
<1> DEFINE A == digests[t].alerts
           x == DigestPlace[t]
           q == Post(t, A, result)
<1>1. /\ UNCHANGED <<told, mediumBuffer, lowBuffer, cards, alerted>>
      /\ digests[t] # None /\ digests' = [digests EXCEPT ![t] = None]
      /\ outcome' = outcome \cup {q}
  BY DEF EndDigest
<1>2. A \subseteq Alert
  BY <1>1 DEF DigestsComplete, DigestType
<1>3. q \in PostType /\ q.alerts = A
  BY <1>2 DEF Post, PostType, Tier
<1>4. /\ InDigest(t) = A /\ InDigest(t)' = {}
      /\ \A u \in Tier \ {t} : InDigest(u)' = InDigest(u)
  BY <1>1 DEF InDigest, DigestsComplete
<1> HIDE DEF A, q, x
<1>5. /\ x \in Spot /\ "posted" \in Spot /\ x # "posted"
      /\ AlertsAt[x] = A /\ AlertsAt'[x] = {}
      /\ AlertsAt["posted"] = Named(outcome) /\ AlertsAt'["posted"] = Named(outcome')
  BY <1>4, TierPlaces DEF x
<1>6. A \cap Named(outcome) = {}
  BY <1>5 DEF OnePlace, NoneShared
<1>7. /\ \A r, p \in outcome' : r.alerts \cap p.alerts # {} => r = p
      /\ Named(outcome') = Named(outcome) \cup A
  BY <1>1, <1>2, <1>3, <1>6, Posting DEF OnceInPlace
<1>8. OnceInPlace'
  BY <1>1, <1>3, <1>7 DEF OnceInPlace
<1>9. DigestsComplete'
  BY <1>1 DEF DigestsComplete
<1>10. \A z \in Spot \ {x, "posted"} : AlertsAt'[z] = AlertsAt[z]
  <2>1. ByPlace /\ ByPlace'
    BY AlertsByPlace
  <2>2. \A u \in Tier \ {t} : AlertsAt'[DigestPlace[u]] = AlertsAt[DigestPlace[u]]
    BY <1>4, TierPlaces
  <2>3. \A z \in Spot \ {x, "posted"} :
          z \in {"told", "medium", "low", "cards"} \/ \E u \in Tier \ {t} : z = DigestPlace[u]
    BY PlacesOfTiers DEF Tier, x
  <2> QED
    BY <1>1, <2>1, <2>2, <2>3 DEF ByPlace
<1>11. OnePlace'
  BY <1>1, <1>5, <1>7, <1>10, MoveKeeps
<1> QED
  BY <1>8, <1>9, <1>11

(* Every step of the notifier keeps each alert in one place.                *)
LEMMA NextAlerts == AlertsInv /\ [SlackNext]_<<slackVars, now>> => AlertsInv'
<1> SUFFICES ASSUME AlertsInv, [SlackNext]_<<slackVars, now>>
             PROVE  AlertsInv'
  OBVIOUS
<1>1. ASSUME NEW a \in Alert, EmitAlert(a)
      PROVE  AlertsInv'
  BY <1>1, EmitKeeps
<1>2. CASE NotifyEvent
  BY <1>2, NotifyKeeps
<1>3. ASSUME NEW c \in cards, EndUpload(c)
      PROVE  AlertsInv'
  BY <1>3, UploadKeeps
<1>4. ASSUME NEW c \in cards, NEW result \in Outcome, EndCard(c, result)
      PROVE  AlertsInv'
  BY <1>4, CardKeeps
<1>5. ASSUME NEW t \in Tier, Flush(t)
      PROVE  AlertsInv'
  BY <1>5, FlushKeeps
<1>6. ASSUME NEW t \in Tier, NEW result \in Outcome, EndDigest(t, result)
      PROVE  AlertsInv'
  BY <1>6, DigestKeeps
<1>7. CASE UNCHANGED <<told, mediumBuffer, lowBuffer, cards, digests, outcome, alerted>>
  <2>1. AlertsAt' = AlertsAt
    BY <1>7 DEF AlertsAt, InDigest
  <2> QED
    BY <1>7, <2>1 DEF AlertsInv, OnceInPlace, DigestsComplete, OnePlace
<1> QED
  BY <1>1, <1>2, <1>3, <1>4, <1>5, <1>6, <1>7
     DEF SlackNext, SlackTick, MoveFloor, FlushNothing, slackVars

(* Places that are disjoint and hold all that was emitted, counted.            *)
LEMMA AlertsInPlaces == AlertsInv => AlertsAccounted
<1> SUFFICES ASSUME AlertsInv
             PROVE  AlertsAccounted
  OBVIOUS
<1> USE DEF AlertsInv
<1>1. ASSUME NEW a \in alerted
      PROVE  Places(a) = 1
  <2> DEFINE InTold == {i \in DOMAIN told : told[i] = a}
             InMedium == {i \in DOMAIN mediumBuffer : mediumBuffer[i] = a}
             InLow == {i \in DOMAIN lowBuffer : lowBuffer[i] = a}
             OnCards == {c \in cards : c.alert = a}
             InDigests == {t \in Tier : digests[t] # None /\ a \in digests[t].alerts}
             InPosts == {p \in outcome : a \in p.alerts}
             At(x) == a \in AlertsAt[x]
  <2>1. ByPlace
    BY AlertsByPlace
  <2>2. /\ Cardinality(InTold) = IF At("told") THEN 1 ELSE 0
        /\ Cardinality(InMedium) = IF At("medium") THEN 1 ELSE 0
        /\ Cardinality(InLow) = IF At("low") THEN 1 ELSE 0
    <3>1. /\ told \in Seq(Alert) /\ mediumBuffer \in Seq(Alert) /\ lowBuffer \in Seq(Alert)
          /\ Distinct(told) /\ Distinct(mediumBuffer) /\ Distinct(lowBuffer)
      BY DEF OnceInPlace
    <3>2. /\ At("told") <=> a \in Range(told)
          /\ At("medium") <=> a \in Range(mediumBuffer)
          /\ At("low") <=> a \in Range(lowBuffer)
      BY <2>1 DEF ByPlace
    <3> HIDE DEF At
    <3>3. Cardinality(InTold) = IF At("told") THEN 1 ELSE 0
      BY <3>1, <3>2, OccursOnce
    <3>4. Cardinality(InMedium) = IF At("medium") THEN 1 ELSE 0
      BY <3>1, <3>2, OccursOnce
    <3>5. Cardinality(InLow) = IF At("low") THEN 1 ELSE 0
      BY <3>1, <3>2, OccursOnce
    <3> QED
      BY <3>3, <3>4, <3>5
  <2>3. Cardinality(OnCards) = IF At("cards") THEN 1 ELSE 0
    <3>1. CASE At("cards")
      <4>1. PICK c \in cards : c.alert = a
        BY <2>1, <3>1 DEF ByPlace
      <4>2. OnCards = {c}
        BY <4>1 DEF OnceInPlace
      <4> HIDE DEF OnCards
      <4> QED
        BY <3>1, <4>2, FS_Singleton
    <3>2. CASE ~At("cards")
      <4>1. OnCards = {}
        BY <2>1, <3>2 DEF ByPlace
      <4> HIDE DEF OnCards
      <4> QED
        BY <3>2, <4>1, FS_EmptySet
    <3> QED
      BY <3>1, <3>2
  <2>4. Cardinality(InPosts) = IF At("posted") THEN 1 ELSE 0
    <3>1. CASE At("posted")
      <4>1. PICK p \in outcome : a \in p.alerts
        BY <2>1, <3>1 DEF ByPlace, Named
      <4>2. \A q \in outcome : a \in q.alerts => q = p
        BY <4>1 DEF OnceInPlace
      <4>3. InPosts = {p}
        BY <4>1, <4>2
      <4> HIDE DEF InPosts
      <4> QED
        BY <3>1, <4>3, FS_Singleton
    <3>2. CASE ~At("posted")
      <4>1. InPosts = {}
        BY <1>1, <2>1, <3>2 DEF ByPlace, Named, OnePlace
      <4> HIDE DEF InPosts
      <4> QED
        BY <3>2, <4>1, FS_EmptySet
    <3> QED
      BY <3>1, <3>2
  <2>5. \A t \in Tier : t \in InDigests <=> At(DigestPlace[t])
    BY TierPlaces DEF InDigest
  <2>6. InDigests \subseteq {"medium", "low"}
    BY DEF Tier
  <2>7. /\ "medium" \in InDigests <=> At("medium digest")
        /\ "low" \in InDigests <=> At("low digest")
    BY <2>5 DEF Tier, DigestPlace
  <2>8. PICK x \in Spot : At(x)
    BY <1>1 DEF OnePlace
  <2>9. \A z \in Spot : At(z) => z = x
    BY <2>8 DEF OnePlace, NoneShared
  <2> DEFINE Told == Cardinality(InTold)
             Medium == Cardinality(InMedium)
             Low == Cardinality(InLow)
             Cards == Cardinality(OnCards)
             Digests == Cardinality(InDigests)
             Posts == Cardinality(InPosts)
  <2>10. Digests = IF At("medium digest") \/ At("low digest") THEN 1 ELSE 0
    <3> HIDE DEF InDigests, At
    <3>1. ~(At("medium digest") /\ At("low digest"))
      BY <2>9 DEF Spot
    <3>2. CASE At("medium digest")
      <4>1. InDigests = {"medium"}
        BY <2>6, <2>7, <3>1, <3>2
      <4> QED
        BY <3>2, <4>1, FS_Singleton
    <3>3. CASE At("low digest")
      <4>1. InDigests = {"low"}
        BY <2>6, <2>7, <3>1, <3>3
      <4> QED
        BY <3>3, <4>1, FS_Singleton
    <3>4. CASE ~At("medium digest") /\ ~At("low digest")
      <4>1. InDigests = {}
        BY <2>6, <2>7, <3>4
      <4> QED
        BY <3>4, <4>1, FS_EmptySet
    <3> QED
      BY <3>2, <3>3, <3>4
  <2>11. Places(a) = Told + Medium + Low + Cards + Digests + Posts
    BY DEF Places
  <2> HIDE DEF Told, Medium, Low, Cards, Digests, Posts, At
  <2>12. Told + Medium + Low + Cards + Digests + Posts = 1
    <3>1. /\ Told = IF At("told") THEN 1 ELSE 0
          /\ Medium = IF At("medium") THEN 1 ELSE 0
          /\ Low = IF At("low") THEN 1 ELSE 0
          /\ Cards = IF At("cards") THEN 1 ELSE 0
          /\ Digests = IF At("medium digest") \/ At("low digest") THEN 1 ELSE 0
          /\ Posts = IF At("posted") THEN 1 ELSE 0
      BY <2>2, <2>3, <2>4, <2>10 DEF Told, Medium, Low, Cards, Posts
    <3>2. \A z \in Spot : At(z) <=> z = x
      BY <2>8, <2>9
    <3>3. /\ At("told") <=> x = "told"
          /\ At("medium") <=> x = "medium"
          /\ At("low") <=> x = "low"
          /\ At("cards") <=> x = "cards"
          /\ At("medium digest") <=> x = "medium digest"
          /\ At("low digest") <=> x = "low digest"
          /\ At("posted") <=> x = "posted"
      BY <3>2 DEF Spot
    <3>4. /\ Told = IF x = "told" THEN 1 ELSE 0
          /\ Medium = IF x = "medium" THEN 1 ELSE 0
          /\ Low = IF x = "low" THEN 1 ELSE 0
          /\ Cards = IF x = "cards" THEN 1 ELSE 0
          /\ Digests = IF x = "medium digest" \/ x = "low digest" THEN 1 ELSE 0
          /\ Posts = IF x = "posted" THEN 1 ELSE 0
      BY <3>1, <3>3
    <3>5. CASE x = "told"
      BY <3>4, <3>5
    <3>6. CASE x = "medium"
      BY <3>4, <3>6
    <3>7. CASE x = "low"
      BY <3>4, <3>7
    <3>8. CASE x = "cards"
      BY <3>4, <3>8
    <3>9. CASE x = "medium digest"
      <4>1. /\ Told = 0 /\ Medium = 0 /\ Low = 0 /\ Cards = 0
            /\ Digests = 1 /\ Posts = 0
        BY <3>4, <3>9
      <4> QED
        BY <4>1
    <3>10. CASE x = "low digest"
      <4>1. /\ Told = 0 /\ Medium = 0 /\ Low = 0 /\ Cards = 0
            /\ Digests = 1 /\ Posts = 0
        BY <3>4, <3>10
      <4> QED
        BY <4>1
    <3>11. CASE x = "posted"
      BY <3>4, <3>11
    <3> QED
      BY <2>8, <3>5, <3>6, <3>7, <3>8, <3>9, <3>10, <3>11 DEF Spot
  <2> QED
    BY <2>11, <2>12
<1>2. \A t \in Tier : digests[t] # None =>
        Len(digests[t].lines) + digests[t].more = Cardinality(digests[t].alerts)
  BY DEF DigestsComplete
<1> QED
  BY <1>1, <1>2 DEF AlertsAccounted

(* AlertsAccounted: whatever is flushed, posted and emitted meanwhile, an      *)
(* event is in one place, and a digest names or counts each.                   *)
THEOREM AlertsInOnePlace == SlackSpec => []AlertsAccounted
BY AlertsInPlaces, InitAlerts, NextAlerts, PTL DEF SlackSpec
-----------------------------------------------------------------------------
(* The feedback loop: what leaves the directory of samples is in a zip.        *)

Sample == [n : Nat, whole : BOOLEAN]

SamplesTyped ==
  /\ samples \in [DOMAIN samples -> Sample]
  /\ writes \in Nat
  /\ \A e \in DOMAIN samples : samples[e].n <= writes

(* A number in a manifest is of a text that was written, and the sample has    *)
(* that text or a later one as long as it is there.                            *)
ManifestInv(b) ==
  \A pair \in b.manifest :
    /\ pair[2] \in Nat /\ pair[2] <= writes
    /\ pair[1] \in DOMAIN samples => pair[2] <= samples[pair[1]].n

(* An export has still to do what it found; when it clears and no other opened *)
(* its zip, the zip is what it read.                                           *)
BatchInv(b) ==
  /\ b = [phase |-> b.phase, found |-> b.found, todo |-> b.todo, manifest |-> b.manifest,
          second |-> b.second, contested |-> b.contested]
  /\ b.phase \in {"read", "zip", "clear"}
  /\ b.todo \subseteq b.found
  /\ ManifestInv(b)
  /\ b.phase = "clear" /\ ~b.contested
       => b.second \in DOMAIN archives /\ archives[b.second] = b.manifest

(* An export is contested as long as another has the zip of its second open.   *)
AloneInv ==
  \A x, y \in Exporter :
    /\ x # y /\ (In(x, "zip") \/ In(x, "clear"))
    /\ In(y, "zip") /\ exporting[x].second = exporting[y].second
    => exporting[x].contested

BatchesInv ==
  /\ DOMAIN exporting = Exporter
  /\ \A x \in Exporter : exporting[x] # None => BatchInv(exporting[x])

ExportInv == SamplesTyped /\ BatchesInv /\ AloneInv

(* Before the first verdict there is no sample and no export.                  *)
LEMMA InitExport == FeedbackInit => ExportInv
BY DEF FeedbackInit, ExportInv, SamplesTyped, BatchesInv, AloneInv, In

(* What an export has read stays true of samples that are written or removed.  *)
LEMMA BatchesKeep ==
  ASSUME ExportInv, UNCHANGED <<exporting, archives>>, writes \in Nat, writes' \in Nat,
         writes <= writes',
         \A e \in DOMAIN samples' :
           \/ e \in DOMAIN samples /\ samples'[e].n = samples[e].n
           \/ samples'[e].n = writes'
  PROVE  BatchesInv' /\ AloneInv'
<1>1. ASSUME NEW x \in Exporter, exporting[x] # None
      PROVE  BatchInv(exporting[x])'
  <2>1. BatchInv(exporting[x]) /\ exporting'[x] = exporting[x] /\ archives' = archives
    BY <1>1 DEF ExportInv, BatchesInv
  <2>2. ASSUME NEW pair \in exporting[x].manifest
        PROVE  /\ pair[2] \in Nat /\ pair[2] <= writes'
               /\ pair[1] \in DOMAIN samples' => pair[2] <= samples'[pair[1]].n
    <3>1. /\ pair[2] \in Nat /\ pair[2] <= writes
          /\ pair[1] \in DOMAIN samples => pair[2] <= samples[pair[1]].n
      BY <2>1 DEF BatchInv, ManifestInv
    <3>2. pair[2] <= writes'
      BY <3>1
    <3> QED
      BY <3>1, <3>2
  <2> QED
    BY <2>1, <2>2 DEF BatchInv, ManifestInv
<1>2. AloneInv'
  BY DEF ExportInv, AloneInv, In
<1> QED
  BY <1>1, <1>2 DEF ExportInv, BatchesInv

(* A sample that is written, over an older one or not.                         *)
LEMMA PersistKeeps ==
  ASSUME ExportInv, NEW e, Persist(e), UNCHANGED <<exporting, archives>>
  PROVE  ExportInv' /\ DOMAIN samples \subseteq DOMAIN samples'
<1>1. CASE UNCHANGED <<samples, writes>>
  BY <1>1 DEF ExportInv, SamplesTyped, BatchesInv, BatchInv, ManifestInv, AloneInv, In
<1>2. CASE /\ writes' = writes + 1
           /\ samples' = [d \in DOMAIN samples \cup {e} |->
                           IF d = e THEN [n |-> writes + 1, whole |-> FALSE] ELSE samples[d]]
  <2> DEFINE new == [n |-> writes + 1, whole |-> FALSE]
  <2>1. new \in Sample /\ new.n = writes + 1
    BY DEF ExportInv, SamplesTyped, Sample
  <2> HIDE DEF new
  <2>2. /\ DOMAIN samples' = DOMAIN samples \cup {e}
        /\ samples' = [d \in DOMAIN samples \cup {e} |-> IF d = e THEN new ELSE samples[d]]
    BY <1>2 DEF new
  <2>3. writes \in Nat /\ writes' = writes + 1 /\ writes' \in Nat /\ writes <= writes'
    BY <1>2 DEF ExportInv, SamplesTyped
  <2>4. SamplesTyped'
    <3>2. ASSUME NEW d \in DOMAIN samples'
          PROVE  samples'[d] \in Sample /\ samples'[d].n <= writes'
      <4>1. CASE d = e
        BY <2>1, <2>2, <2>3, <4>1
      <4>2. CASE d # e
        <5>1. samples'[d] = samples[d] /\ d \in DOMAIN samples
          BY <2>2, <3>2, <4>2
        <5>2. samples[d] \in Sample /\ samples[d].n <= writes
          BY <5>1 DEF ExportInv, SamplesTyped
        <5>3. samples[d].n \in Nat
          BY <5>2 DEF Sample
        <5> QED
          BY <2>3, <5>1, <5>2, <5>3
      <4> QED
        BY <4>1, <4>2
    <3>3. samples' \in [DOMAIN samples' -> Sample]
      BY <2>2, <3>2
    <3> QED
      BY <2>3, <3>2, <3>3 DEF SamplesTyped
  <2>5. \A d \in DOMAIN samples' :
          \/ d \in DOMAIN samples /\ samples'[d].n = samples[d].n
          \/ samples'[d].n = writes'
    BY <2>1, <2>2, <2>3
  <2> QED
    BY <2>2, <2>3, <2>4, <2>5, BatchesKeep DEF ExportInv
<1> QED
  BY <1>1, <1>2 DEF Persist

(* The writing of a sample ends: its number stays.                             *)
LEMMA EndPersistKeeps ==
  ASSUME ExportInv, EndPersist
  PROVE  ExportInv' /\ DOMAIN samples \subseteq DOMAIN samples'
<1>1. UNCHANGED <<exporting, archives, writes>>
  BY DEF EndPersist, onThread
<1>2. /\ DOMAIN samples' = DOMAIN samples
      /\ samples' \in [DOMAIN samples' -> Sample]
      /\ \A e \in DOMAIN samples : samples'[e].n = samples[e].n
  BY DEF EndPersist, ExportInv, SamplesTyped, Sample
<1>3. SamplesTyped'
  BY <1>1, <1>2 DEF ExportInv, SamplesTyped
<1>4. writes \in Nat /\ writes' \in Nat /\ writes <= writes'
  BY <1>1 DEF ExportInv, SamplesTyped
<1> QED
  BY <1>1, <1>2, <1>3, <1>4, BatchesKeep DEF ExportInv

(* An export starts.                                                           *)
LEMMA StartKeeps ==
  ASSUME ExportInv, NEW x \in Exporter, StartExport(x)
  PROVE  ExportInv'
<1> DEFINE b == [phase |-> "read", found |-> DOMAIN samples, todo |-> DOMAIN samples,
                 manifest |-> {}, second |-> second', contested |-> FALSE]
<1>1. /\ exporting' = [exporting EXCEPT ![x] = b]
      /\ UNCHANGED <<samples, writes, archives>>
  BY DEF StartExport, onLoop
<1>3. /\ DOMAIN exporting' = Exporter /\ exporting'[x] = b
      /\ \A y \in Exporter \ {x} : exporting'[y] = exporting[y]
  BY <1>1 DEF ExportInv, BatchesInv
<1>2. BatchInv(exporting[x])' /\ b.phase = "read"
  BY <1>3 DEF BatchInv, ManifestInv
<1> HIDE DEF b
<1>4. \A y \in Exporter : exporting'[y] # None => BatchInv(exporting[y])'
  BY <1>1, <1>2, <1>3 DEF ExportInv, BatchesInv, BatchInv, ManifestInv
<1>5. AloneInv'
  BY <1>2, <1>3 DEF ExportInv, AloneInv, In
<1> QED
  BY <1>1, <1>3, <1>4, <1>5 DEF ExportInv, BatchesInv, SamplesTyped

(* An export reads a record, or passes over it.                                *)
LEMMA ReadKeeps ==
  ASSUME ExportInv, NEW x \in Exporter, NEW e \in Labelled, ReadRecord(x, e)
  PROVE  ExportInv'
<1> DEFINE b == exporting[x]
<1>1. BatchInv(b) /\ b.phase = "read" /\ UNCHANGED <<samples, writes, archives>>
  BY DEF ReadRecord, In, onLoop, ExportInv, BatchesInv
<1>2. /\ DOMAIN exporting' = Exporter
      /\ \A y \in Exporter \ {x} : exporting'[y] = exporting[y]
  BY DEF ReadRecord, ExportInv, BatchesInv
<1>3. \E read \in {{}, {<<e, samples[e].n>>}} :
        /\ read # {} => e \in DOMAIN samples
        /\ exporting'[x] = [b EXCEPT !.todo = @ \ {e}, !.manifest = @ \cup read]
  <2>1. CASE /\ e \in DOMAIN samples
             /\ exporting' = [exporting EXCEPT ![x].todo = @ \ {e},
                                               ![x].manifest = @ \cup {<<e, samples[e].n>>}]
    BY <2>1 DEF ExportInv, BatchesInv
  <2>2. CASE exporting' = [exporting EXCEPT ![x].todo = @ \ {e}]
    <3>1. exporting'[x] = [b EXCEPT !.todo = @ \ {e}]
      BY <2>2 DEF ExportInv, BatchesInv
    <3>2. [b EXCEPT !.todo = @ \ {e}] = [b EXCEPT !.todo = @ \ {e}, !.manifest = @ \cup {}]
      BY <1>1 DEF BatchInv
    <3> QED
      BY <3>1, <3>2
  <2> QED
    BY <2>1, <2>2 DEF ReadRecord
<1>4. PICK read \in {{}, {<<e, samples[e].n>>}} :
        /\ read # {} => e \in DOMAIN samples
        /\ exporting'[x] = [b EXCEPT !.todo = @ \ {e}, !.manifest = @ \cup read]
  BY <1>3
<1>5. /\ exporting'[x].phase = "read" /\ exporting'[x].second = b.second
      /\ exporting'[x].found = b.found /\ exporting'[x].todo \subseteq b.todo
      /\ exporting'[x].manifest = b.manifest \cup read
      /\ exporting'[x] = [phase |-> exporting'[x].phase, found |-> exporting'[x].found,
                          todo |-> exporting'[x].todo, manifest |-> exporting'[x].manifest,
                          second |-> exporting'[x].second,
                          contested |-> exporting'[x].contested]
  BY <1>1, <1>4 DEF BatchInv
<1>6. \A pair \in read : /\ pair[1] \in DOMAIN samples /\ pair[2] = samples[pair[1]].n
                         /\ pair[2] \in Nat /\ pair[2] <= writes
  BY <1>4 DEF ExportInv, SamplesTyped, Sample
<1>7. ManifestInv(exporting[x])'
  <2> SUFFICES ASSUME NEW pair \in b.manifest \cup read
               PROVE  /\ pair[2] \in Nat /\ pair[2] <= writes
                      /\ pair[1] \in DOMAIN samples => pair[2] <= samples[pair[1]].n
    BY <1>1, <1>5 DEF ManifestInv
  <2>1. CASE pair \in b.manifest
    BY <1>1, <2>1 DEF BatchInv, ManifestInv
  <2>2. CASE pair \in read
    <3>1. samples[pair[1]].n \in Nat
      BY <1>6, <2>2
    <3> QED
      BY <1>6, <2>2, <3>1
  <2> QED
    BY <2>1, <2>2
<1>8. \A y \in Exporter : exporting'[y] # None => BatchInv(exporting[y])'
  <2>1. BatchInv(exporting[x])'
    BY <1>1, <1>5, <1>7 DEF BatchInv
  <2>2. \A y \in Exporter \ {x} : exporting'[y] # None => BatchInv(exporting[y])'
    BY <1>1, <1>2 DEF ExportInv, BatchesInv, BatchInv, ManifestInv
  <2> QED
    BY <2>1, <2>2
<1>9. AloneInv'
  BY <1>2, <1>5 DEF ExportInv, AloneInv, In
<1> QED
  BY <1>1, <1>2, <1>8, <1>9 DEF ExportInv, BatchesInv, SamplesTyped

(* An export opens its zip, whoever has it open or counts on it.               *)
LEMMA OpenKeeps ==
  ASSUME ExportInv, NEW x \in Exporter, OpenZip(x)
  PROVE  ExportInv'
<1> DEFINE s == exporting[x].second
           rivals == {y \in Exporter \ {x} :
                        (In(y, "zip") \/ In(y, "clear")) /\ exporting[y].second = s}
           mine == \E r \in rivals : In(r, "zip")
<1>1. /\ In(x, "read") /\ UNCHANGED <<samples, writes>>
      /\ archives' = [r \in DOMAIN archives \cup {s} |-> IF r = s THEN {} ELSE archives[r]]
      /\ exporting' = [y \in Exporter |->
           IF y = x THEN [exporting[x] EXCEPT !.phase = "zip", !.contested = mine]
           ELSE IF y \in rivals THEN [exporting[y] EXCEPT !.contested = TRUE]
           ELSE exporting[y]]
  BY DEF OpenZip, Archive, onLoop
<1>2. /\ DOMAIN exporting' = Exporter
      /\ exporting'[x] = [exporting[x] EXCEPT !.phase = "zip", !.contested = mine]
      /\ \A y \in rivals : exporting'[y] = [exporting[y] EXCEPT !.contested = TRUE]
      /\ \A y \in Exporter \ {x} : y \notin rivals => exporting'[y] = exporting[y]
  BY <1>1
<1>3. \A y \in Exporter : exporting[y] # None => BatchInv(exporting[y])
  BY DEF ExportInv, BatchesInv
<1>4. exporting[x] # None /\ \A y \in rivals : exporting[y] # None
  BY <1>1 DEF In
<1>5. BatchInv(exporting[x])' /\ exporting'[x].phase = "zip" /\ exporting'[x].second = s
      /\ exporting'[x].contested = mine
  <2>1. BatchInv(exporting[x])
    BY <1>3, <1>4
  <2> HIDE DEF mine, rivals
  <2>2. /\ exporting'[x].phase = "zip" /\ exporting'[x].second = s
        /\ exporting'[x].contested = mine
        /\ exporting'[x].manifest = exporting[x].manifest
        /\ exporting'[x].found = exporting[x].found /\ exporting'[x].todo = exporting[x].todo
        /\ exporting'[x] = [phase |-> exporting'[x].phase, found |-> exporting'[x].found,
                            todo |-> exporting'[x].todo, manifest |-> exporting'[x].manifest,
                            second |-> exporting'[x].second,
                            contested |-> exporting'[x].contested]
    BY <1>2, <2>1 DEF BatchInv
  <2>3. ManifestInv(exporting[x])'
    BY <1>1, <2>1, <2>2 DEF BatchInv, ManifestInv
  <2> QED
    BY <2>1, <2>2, <2>3 DEF BatchInv
<1>6. ASSUME NEW y \in rivals
      PROVE  /\ BatchInv(exporting[y])' /\ exporting'[y].contested
             /\ exporting'[y].phase = exporting[y].phase
             /\ exporting'[y].second = exporting[y].second
  <2>1. BatchInv(exporting[y]) /\ exporting'[y] = [exporting[y] EXCEPT !.contested = TRUE]
    BY <1>2, <1>3, <1>4
  <2> HIDE DEF mine, rivals
  <2>2. /\ exporting'[y].phase = exporting[y].phase /\ exporting'[y].contested
        /\ exporting'[y].second = exporting[y].second
        /\ exporting'[y].manifest = exporting[y].manifest
        /\ exporting'[y].found = exporting[y].found /\ exporting'[y].todo = exporting[y].todo
        /\ exporting'[y] = [phase |-> exporting'[y].phase, found |-> exporting'[y].found,
                            todo |-> exporting'[y].todo, manifest |-> exporting'[y].manifest,
                            second |-> exporting'[y].second,
                            contested |-> exporting'[y].contested]
    BY <2>1 DEF BatchInv
  <2>3. ManifestInv(exporting[y])'
    BY <1>1, <2>1, <2>2 DEF BatchInv, ManifestInv
  <2> QED
    BY <2>1, <2>2, <2>3 DEF BatchInv
<1>7. ASSUME NEW y \in Exporter \ {x}, y \notin rivals, exporting[y] # None
      PROVE  BatchInv(exporting[y])'
  <2>1. BatchInv(exporting[y]) /\ exporting'[y] = exporting[y]
    BY <1>2, <1>3, <1>7
  <2>2. exporting[y].phase = "clear" => exporting[y].second # s
    BY <1>7 DEF In
  <2>3. exporting[y].phase = "clear" /\ ~exporting[y].contested
          => /\ exporting[y].second \in DOMAIN archives'
             /\ archives'[exporting[y].second] = exporting[y].manifest
    <3>1. SUFFICES ASSUME exporting[y].phase = "clear", ~exporting[y].contested
                   PROVE  /\ exporting[y].second \in DOMAIN archives'
                          /\ archives'[exporting[y].second] = exporting[y].manifest
      OBVIOUS
    <3>2. /\ exporting[y].second # s /\ exporting[y].second \in DOMAIN archives
          /\ archives[exporting[y].second] = exporting[y].manifest
      BY <2>1, <2>2, <3>1 DEF BatchInv
    <3> QED
      BY <1>1, <3>2, <3>1
  <2> QED
    BY <1>1, <2>1, <2>3 DEF BatchInv, ManifestInv
<1>8. \A y \in Exporter : exporting'[y] # None => BatchInv(exporting[y])'
  BY <1>2, <1>5, <1>6, <1>7
<1>9. AloneInv'
  <2> SUFFICES ASSUME NEW v \in Exporter, NEW w \in Exporter, v # w,
                      (In(v, "zip") \/ In(v, "clear"))', In(w, "zip")',
                      exporting'[v].second = exporting'[w].second
               PROVE  exporting'[v].contested
    BY DEF AloneInv
  <2>1. CASE v = x
    <3>1. In(w, "zip") /\ exporting[w].second = s
      BY <1>2, <1>5, <1>6, <2>1 DEF In
    <3> QED
      BY <1>5, <2>1, <3>1
  <2>2. CASE w = x
    <3>1. (In(v, "zip") \/ In(v, "clear")) /\ exporting[v].second = s
      BY <1>2, <1>5, <1>6, <2>2 DEF In
    <3> QED
      BY <1>6, <2>2, <3>1
  <2>3. CASE v # x /\ w # x /\ v \notin rivals
    <3>1. (In(v, "zip") \/ In(v, "clear")) /\ exporting'[v] = exporting[v]
      BY <1>2, <2>3 DEF In
    <3>2. In(w, "zip") /\ exporting[v].second = exporting[w].second
      BY <1>2, <1>6, <2>3, <3>1 DEF In
    <3> QED
      BY <3>1, <3>2 DEF ExportInv, AloneInv
  <2>4. CASE v \in rivals
    BY <1>6, <2>4
  <2> QED
    BY <2>1, <2>2, <2>3, <2>4
<1> QED
  BY <1>1, <1>2, <1>8, <1>9 DEF ExportInv, BatchesInv, SamplesTyped

(* What an export that has its zip open writes there, only an export that is   *)
(* contested counts on.                                                        *)
LEMMA ArchiveKeeps ==
  ASSUME ExportInv, NEW x \in Exporter, In(x, "zip"), NEW content,
         Archive(exporting[x].second, content), UNCHANGED <<samples, writes>>,
         \A y \in Exporter \ {x} : exporting'[y] = exporting[y]
  PROVE  /\ exporting[x].second \in DOMAIN archives'
         /\ archives'[exporting[x].second] = content
         /\ \A y \in Exporter \ {x} : exporting'[y] # None => BatchInv(exporting[y])'
<1> DEFINE s == exporting[x].second
<1>1. archives' = [r \in DOMAIN archives \cup {s} |-> IF r = s THEN content ELSE archives[r]]
  BY DEF Archive
<1>2. ASSUME NEW y \in Exporter \ {x}, exporting[y] # None
      PROVE  /\ BatchInv(exporting[y])
             /\ exporting[y].phase = "clear" /\ ~exporting[y].contested
                  => /\ exporting[y].second \in DOMAIN archives'
                     /\ archives'[exporting[y].second] = exporting[y].manifest
  <2>1. BatchInv(exporting[y])
    BY <1>2 DEF ExportInv, BatchesInv
  <2>2. SUFFICES ASSUME exporting[y].phase = "clear", ~exporting[y].contested
                 PROVE  /\ exporting[y].second \in DOMAIN archives'
                        /\ archives'[exporting[y].second] = exporting[y].manifest
    BY <2>1
  <2>3. exporting[y].second # s
    BY <1>2, <2>2 DEF ExportInv, AloneInv, In
  <2>4. /\ exporting[y].second \in DOMAIN archives
        /\ archives[exporting[y].second] = exporting[y].manifest
    BY <2>1, <2>2 DEF BatchInv
  <2> QED
    BY <1>1, <2>3, <2>4
<1> QED
  BY <1>1, <1>2 DEF BatchInv, ManifestInv

(* An export closes its zip: if it is not contested, what it read is in it.    *)
LEMMA CloseKeeps ==
  ASSUME ExportInv, NEW x \in Exporter, CloseZip(x)
  PROVE  ExportInv'
<1> DEFINE b == exporting[x]
<1>1. PICK content : /\ Archive(exporting[x].second, content)
                     /\ b.contested \/ content = b.manifest
  BY DEF CloseZip, Leaves
<1>2. /\ In(x, "zip") /\ UNCHANGED <<samples, writes>>
      /\ exporting' = [exporting EXCEPT ![x].phase = "clear", ![x].todo = b.found]
  BY DEF CloseZip, onLoop
<1>3. BatchInv(b) /\ b.phase = "zip"
  BY <1>2 DEF In, ExportInv, BatchesInv
<1>4. /\ DOMAIN exporting' = Exporter
      /\ exporting'[x] = [b EXCEPT !.phase = "clear", !.todo = b.found]
      /\ \A y \in Exporter \ {x} : exporting'[y] = exporting[y]
  BY <1>2 DEF ExportInv, BatchesInv
<1>5. /\ exporting'[x].phase = "clear" /\ exporting'[x].second = b.second
      /\ exporting'[x].manifest = b.manifest /\ exporting'[x].contested = b.contested
      /\ exporting'[x].todo = b.found /\ exporting'[x].found = b.found
      /\ exporting'[x] = [phase |-> exporting'[x].phase, found |-> exporting'[x].found,
                          todo |-> exporting'[x].todo, manifest |-> exporting'[x].manifest,
                          second |-> exporting'[x].second,
                          contested |-> exporting'[x].contested]
  BY <1>3, <1>4 DEF BatchInv
<1>6. /\ b.second \in DOMAIN archives' /\ archives'[b.second] = content
      /\ \A y \in Exporter \ {x} : exporting'[y] # None => BatchInv(exporting[y])'
  <2>1. /\ In(x, "zip") /\ Archive(exporting[x].second, content)
        /\ UNCHANGED <<samples, writes>>
        /\ \A y \in Exporter \ {x} : exporting'[y] = exporting[y]
    BY <1>1, <1>2, <1>4
  <2> HIDE DEF b
  <2>2. /\ exporting[x].second \in DOMAIN archives'
        /\ archives'[exporting[x].second] = content
        /\ \A y \in Exporter \ {x} : exporting'[y] # None => BatchInv(exporting[y])'
    BY <2>1, ArchiveKeeps
  <2> QED
    BY <2>2 DEF b
<1>7. BatchInv(exporting[x])'
  <2>1. ManifestInv(exporting[x])'
    BY <1>2, <1>3, <1>5 DEF BatchInv, ManifestInv
  <2> QED
    BY <1>1, <1>5, <1>6, <2>1 DEF BatchInv
<1>8. \A y \in Exporter : exporting'[y] # None => BatchInv(exporting[y])'
  BY <1>4, <1>6, <1>7
<1>9. AloneInv'
  <2> SUFFICES ASSUME NEW v \in Exporter, NEW w \in Exporter, v # w,
                      (In(v, "zip") \/ In(v, "clear"))', In(w, "zip")',
                      exporting'[v].second = exporting'[w].second
               PROVE  exporting'[v].contested
    BY DEF AloneInv
  <2>1. w # x
    BY <1>5 DEF In
  <2>2. In(w, "zip") /\ exporting'[w].second = exporting[w].second
    BY <1>4, <2>1 DEF In
  <2>3. /\ In(v, "zip") \/ In(v, "clear")
        /\ exporting'[v].second = exporting[v].second
        /\ exporting'[v].contested = exporting[v].contested
    BY <1>2, <1>4, <1>5 DEF In
  <2> QED
    BY <2>1, <2>2, <2>3 DEF ExportInv, AloneInv
<1> QED
  BY <1>2, <1>4, <1>8, <1>9 DEF ExportInv, BatchesInv, SamplesTyped

(* An export fails, maybe in the middle of its zip.                            *)
LEMMA FailKeeps ==
  ASSUME ExportInv, NEW x \in Exporter, ExportFails(x)
  PROVE  ExportInv'
<1>1. /\ exporting' = [exporting EXCEPT ![x] = None] /\ UNCHANGED <<samples, writes>>
  BY DEF ExportFails, onLoop
<1>2. /\ DOMAIN exporting' = Exporter /\ exporting'[x] = None
      /\ \A y \in Exporter \ {x} : exporting'[y] = exporting[y]
  BY <1>1 DEF ExportInv, BatchesInv
<1>3. \A y \in Exporter \ {x} : exporting'[y] # None => BatchInv(exporting[y])'
  <2>1. CASE UNCHANGED archives
    BY <1>1, <1>2, <2>1 DEF ExportInv, BatchesInv, BatchInv, ManifestInv
  <2>2. CASE In(x, "zip") /\ \E content : Archive(exporting[x].second, content)
    BY <1>1, <1>2, <2>2, ArchiveKeeps
  <2> QED
    BY <2>1, <2>2 DEF ExportFails
<1>4. \A y \in Exporter : exporting'[y] # None => BatchInv(exporting[y])'
  BY <1>2, <1>3
<1>5. AloneInv'
  BY <1>2 DEF ExportInv, AloneInv, In
<1> QED
  BY <1>1, <1>2, <1>4, <1>5 DEF ExportInv, BatchesInv, SamplesTyped

(* Clearing a record removes at most that sample, whoever has it in a batch.   *)
LEMMA ClearKeeps ==
  ASSUME ExportInv, NEW x \in Exporter, NEW e \in Labelled, ClearRecord(x, e)
  PROVE  /\ ExportInv'
         /\ DOMAIN samples \ DOMAIN samples' \subseteq {e}
         /\ \A d \in DOMAIN samples' : d \in DOMAIN samples /\ samples'[d] = samples[d]
<1> DEFINE b == exporting[x]
<1>1. /\ In(x, "clear") /\ BatchInv(b) /\ UNCHANGED <<archives, writes>>
      /\ exporting' = [exporting EXCEPT ![x] = Rest(x, e)]
  BY DEF ClearRecord, In, onLoop, ExportInv, BatchesInv
<1>2. /\ DOMAIN samples \ DOMAIN samples' \subseteq {e}
      /\ \A d \in DOMAIN samples' : d \in DOMAIN samples /\ samples'[d] = samples[d]
      /\ samples' \in [DOMAIN samples' -> Sample]
  <2>1. CASE UNCHANGED samples
    BY <2>1 DEF ExportInv, SamplesTyped
  <2>2. CASE samples' = Restrict(samples, DOMAIN samples \ {e})
    BY <2>2 DEF Restrict, ExportInv, SamplesTyped
  <2> QED
    BY <2>1, <2>2 DEF ClearRecord
<1>3. SamplesTyped'
  BY <1>1, <1>2 DEF ExportInv, SamplesTyped
<1>4. /\ DOMAIN exporting' = Exporter
      /\ exporting'[x] = Rest(x, e)
      /\ \A y \in Exporter \ {x} : exporting'[y] = exporting[y]
  BY <1>1 DEF ExportInv, BatchesInv
<1>6. ASSUME exporting'[x] # None
      PROVE  /\ BatchInv(exporting'[x]) /\ exporting'[x].phase = "clear"
             /\ exporting'[x].second = b.second /\ exporting'[x].contested = b.contested
  <2>1. exporting'[x] = [b EXCEPT !.todo = b.todo \ {e}] /\ b.phase = "clear"
    BY <1>1, <1>4, <1>6 DEF In, Rest
  <2>2. /\ exporting'[x].phase = "clear" /\ exporting'[x].second = b.second
        /\ exporting'[x].found = b.found /\ exporting'[x].todo = b.todo \ {e}
        /\ exporting'[x].manifest = b.manifest /\ exporting'[x].contested = b.contested
        /\ exporting'[x] = [phase |-> exporting'[x].phase, found |-> exporting'[x].found,
                            todo |-> exporting'[x].todo, manifest |-> exporting'[x].manifest,
                            second |-> exporting'[x].second,
                            contested |-> exporting'[x].contested]
    BY <1>1, <2>1 DEF BatchInv
  <2>3. ManifestInv(exporting'[x])
    BY <1>1, <2>2 DEF BatchInv, ManifestInv
  <2> QED
    BY <1>1, <2>1, <2>2, <2>3 DEF BatchInv
<1>7. \A y \in Exporter : exporting'[y] # None => BatchInv(exporting'[y])
  BY <1>4, <1>6 DEF ExportInv, BatchesInv
<1>8. \A y \in Exporter : exporting'[y] # None => BatchInv(exporting[y])'
  BY <1>1, <1>2, <1>7 DEF BatchInv, ManifestInv
<1>9. AloneInv'
  BY <1>1, <1>4, <1>6 DEF ExportInv, AloneInv, In
<1> QED
  BY <1>2, <1>3, <1>4, <1>8, <1>9 DEF ExportInv, BatchesInv

(* Every step keeps the exports in order, and only clearing removes a sample.  *)
LEMMA ExportStep ==
  ASSUME ExportInv, [FeedbackNext]_feedbackVars
  PROVE  /\ ExportInv'
         /\ \/ DOMAIN samples \subseteq DOMAIN samples'
            \/ \E x \in Exporter, e \in Labelled : ClearRecord(x, e)
<1>1. CASE \E x \in Exporter, e \in Labelled : ClearRecord(x, e)
  BY <1>1, ClearKeeps
<1>2. CASE EndPersist
  BY <1>2, EndPersistKeeps
<1>3. ASSUME NEW x \in Exporter,
             \/ StartExport(x) \/ OpenZip(x) \/ CloseZip(x) \/ ExportFails(x)
             \/ \E e \in Labelled : ReadRecord(x, e)
      PROVE  ExportInv' /\ DOMAIN samples \subseteq DOMAIN samples'
  <2>1. UNCHANGED samples
    BY <1>3 DEF StartExport, OpenZip, CloseZip, ExportFails, ReadRecord
  <2>2. ExportInv'
    BY <1>3, StartKeeps, ReadKeeps, OpenKeeps, CloseKeeps, FailKeeps
  <2> QED
    BY <2>1, <2>2
<1>4. CASE UNCHANGED <<samples, writes, exporting, archives>>
  BY <1>4 DEF ExportInv, SamplesTyped, BatchesInv, BatchInv, ManifestInv, AloneInv, In
<1>5. CASE (\E e : Persist(e)) /\ UNCHANGED <<exporting, archives>>
  BY <1>5, PersistKeeps
<1>6. ASSUME NEW e \in Labelled, EmitEvent(e)
      PROVE  \/ UNCHANGED <<samples, writes, exporting, archives>>
             \/ (\E d : Persist(d)) /\ UNCHANGED <<exporting, archives>>
  BY <1>6 DEF EmitEvent, onThread
<1>7. ASSUME RunHook
      PROVE  \/ UNCHANGED <<samples, writes, exporting, archives>>
             \/ (\E d : Persist(d)) /\ UNCHANGED <<exporting, archives>>
  BY <1>7 DEF RunHook, onThread
<1>8. ASSUME \/ DecayScores \/ UNCHANGED feedbackVars
             \/ \E e \in Labelled, says \in Verdict : PostFeedback(e, says)
      PROVE  UNCHANGED <<samples, writes, exporting, archives>>
  BY <1>8 DEF DecayScores, PostFeedback, feedbackVars, onThread
<1> QED
  BY <1>1, <1>2, <1>3, <1>4, <1>5, <1>6, <1>7, <1>8 DEF FeedbackNext

(* SamplesLeaveByExport: what leaves the pending directory an export found     *)
(* there, and if it read it, it is in its archive or another export has opened *)
(* that archive too, however many exports run at once, however often the loop  *)
(* writes the sample meanwhile and whichever files fail.                       *)
THEOREM SamplesArchived == FeedbackSpec => SamplesLeaveByExport
<1>1. ExportInv /\ [FeedbackNext]_feedbackVars
        => [\A e \in DOMAIN samples \ DOMAIN samples' : \E x \in Exporter :
              /\ Clears(x, e)
              /\ \A pair \in Read(x, e) :
                   /\ pair \in archives[exporting[x].second] \/ exporting[x].contested
                   /\ pair[2] <= samples[e].n]_feedbackVars
  <2> SUFFICES ASSUME ExportInv, [FeedbackNext]_feedbackVars,
                      NEW e \in DOMAIN samples \ DOMAIN samples'
               PROVE  \E x \in Exporter :
                        /\ Clears(x, e)
                        /\ \A pair \in Read(x, e) :
                             /\ \/ pair \in archives[exporting[x].second]
                                \/ exporting[x].contested
                             /\ pair[2] <= samples[e].n
    OBVIOUS
  <2>1. PICK x \in Exporter, d \in Labelled : ClearRecord(x, d)
    BY ExportStep
  <2>2. d = e
    BY <2>1, ClearKeeps
  <2>3. /\ In(x, "clear") /\ e \in exporting[x].todo /\ BatchInv(exporting[x])
        /\ exporting'[x] = Rest(x, e)
    BY <2>1, <2>2 DEF ClearRecord, In, ExportInv, BatchesInv
  <2>4. Clears(x, e)
    <3>1. exporting[x] # None /\ e \in exporting[x].found
      BY <2>3 DEF In, BatchInv
    <3>2. exporting[x].todo # {e} => exporting'[x].todo # exporting[x].todo
      BY <2>3 DEF BatchInv, Rest
    <3> QED
      BY <2>3, <3>1, <3>2 DEF Clears, Rest
  <2>5. \A pair \in Read(x, e) :
          /\ pair \in archives[exporting[x].second] \/ exporting[x].contested
          /\ pair[2] <= samples[e].n
    BY <2>3 DEF In, BatchInv, ManifestInv, Read
  <2> QED
    BY <2>4, <2>5
<1>2. ExportInv /\ [FeedbackNext]_feedbackVars => ExportInv'
  BY ExportStep
<1> QED
  BY <1>1, <1>2, InitExport, PTL DEF FeedbackSpec, SamplesLeaveByExport
-----------------------------------------------------------------------------
(* The rate controller of a slot: a band follows the speed it was chosen for.  *)

Maybe(S) == S \cup {None}

Controller ==
  [enabled : BOOLEAN, floor : Nat, ceil : Nat, tuple : Nat, band : Band,
   bandAt : Maybe(Int), speed : Maybe(Nat), updatedAt : Maybe(Int), gps : Maybe(Nat),
   gpsAt : Maybe(Int), processedAt : Maybe(Int), degraded : BOOLEAN]

(* What BandFollowsSpeed says of a controller that judged its band at j.       *)
BandFollows(c, j) ==
  c.enabled /\ j # None /\ c.band.of = c.tuple
  => \/ c.bandAt # None /\ 0 < j - c.bandAt /\ j - c.bandAt < Dwell
     \/ BandFits(c.band.name, c.speed)

FrameTimesInv ==
  /\ now \in Nat /\ frameAt \in Int /\ frameAt <= now
  /\ pass \in {"idle", "updated", "admitted"} /\ (pass # "idle" => frameAt = now)
  /\ egoAt # None => egoAt \in Int /\ egoAt <= frameAt /\ (pass # "idle" => egoAt < frameAt)
  /\ judgedAt \in Int \cup {None}
  /\ lastFlow # None => lastFlow.speed \in Nat

RateInv ==
  /\ controller \in Controller
  /\ controller.bandAt # None => controller.bandAt <= frameAt
  /\ chosen \in Band \cup {None} /\ (pass # "updated" => chosen = None)
  /\ BandFollows(Committed(controller, chosen, frameAt), judgedAt)

(* A band that is built has the name and the tuple it was built for.        *)
LEMMA BandIsTyped ==
  ASSUME NEW name \in BandName, NEW of \in Nat, NEW lo \in Nat, NEW hi \in Nat
  PROVE  /\ BandOf(name, of, lo, hi) \in Band
         /\ BandOf(name, of, lo, hi) # None
         /\ BandOf(name, of, lo, hi).name = name
         /\ BandOf(name, of, lo, hi).of = of
BY RateAssumption DEF BandOf, Band, BandName

(* The hysteresis of _select_band() leaves a band that the speed may be in.    *)
LEMMA SelectedFits ==
  ASSUME NEW c \in Controller, NEW speed \in Nat, c.band.of = c.tuple
  PROVE  SelectBand(c, speed) \in BandName /\ BandFits(SelectBand(c, speed), speed)
<1> DEFINE next == SelectBand(c, speed)
<1> USE DEF HighwayEnter, UrbanEnter, UrbanExit, HighwayExit
<1>1. c.band.name \in BandName
  BY DEF Controller, Band
<1>2. /\ next = "parked" => speed < UrbanEnter
      /\ next = "urban" => UrbanExit <= speed /\ speed < HighwayEnter
      /\ next = "highway" => HighwayExit <= speed
      /\ next \in BandName
  <2>1. CASE c.band.name = "parked"
    BY <2>1 DEF SelectBand, BandName
  <2>2. CASE c.band.name = "urban"
    BY <2>2 DEF SelectBand, BandName
  <2>3. CASE c.band.name = "highway"
    BY <2>3 DEF SelectBand, BandName
  <2> QED
    BY <1>1, <2>1, <2>2, <2>3 DEF BandName
<1> HIDE DEF next
<1>3. BandFits(next, speed)
  BY <1>2 DEF BandFits, BandName
<1> QED
  BY <1>2, <1>3 DEF next

(* What _ema_step() makes of a speed and a sample is a speed.                  *)
LEMMA SmoothedIsSpeed ==
  ASSUME NEW c \in Controller, NEW sample \in Nat, NEW at, NEW v \in Smoothed(c, sample, at)
  PROVE  v \in Nat
BY RateAssumption DEF Smoothed, Controller, Maybe

(* After update() at a time after the last frame the band follows the speed.   *)
LEMMA ChosenFollows ==
  ASSUME NEW c \in Controller, NEW at \in Int, c.speed \in Nat,
         c.bandAt # None => c.bandAt < at
  PROVE  /\ ChosenBand(c, at) \in Band \cup {None}
         /\ BandFollows(Committed(c, ChosenBand(c, at), at), at)
<1> DEFINE name == SelectBand(c, c.speed)
           new == BandOf(name, c.tuple, c.floor, c.ceil)
<1>1. /\ c.band \in Band /\ c.tuple \in Nat /\ c.floor \in Nat /\ c.ceil \in Nat
      /\ c.bandAt \in Int \cup {None} /\ None \notin Int /\ Dwell \in Nat
  BY RateAssumption DEF Controller, Maybe
<1>2. CASE c.bandAt # None /\ at - c.bandAt < Dwell
  <2>1. ChosenBand(c, at) = None /\ 0 < at - c.bandAt
    BY <1>1, <1>2 DEF ChosenBand
  <2> QED
    BY <1>2, <2>1 DEF Committed, BandFollows
<1>3. CASE ~(c.bandAt # None /\ at - c.bandAt < Dwell) /\ c.band.of # c.tuple
  <2>1. ChosenBand(c, at) = None
    BY <1>3 DEF ChosenBand, SelectBand
  <2> QED
    BY <1>3, <2>1 DEF Committed, BandFollows
<1>4. CASE ~(c.bandAt # None /\ at - c.bandAt < Dwell) /\ c.band.of = c.tuple
  <2>1. name \in BandName /\ BandFits(name, c.speed)
    BY <1>4, SelectedFits
  <2> HIDE DEF name
  <2>2. new \in Band /\ new # None /\ new.name = name
    BY <1>1, <2>1, BandIsTyped
  <2>3. ChosenBand(c, at) = IF name = c.band.name THEN None ELSE new
    BY <1>4 DEF ChosenBand, name
  <2> HIDE DEF new
  <2>4. CASE name = c.band.name
    BY <2>1, <2>3, <2>4 DEF Committed, BandFollows
  <2>5. CASE name # c.band.name
    <3> DEFINE d == [c EXCEPT !.band = new, !.bandAt = at]
    <3>1. Committed(c, ChosenBand(c, at), at) = d
      BY <2>2, <2>3, <2>5 DEF Committed
    <3>2. d.band = new /\ d.speed = c.speed
      BY DEF Controller
    <3> HIDE DEF d
    <3>3. BandFits(d.band.name, d.speed)
      BY <2>1, <2>2, <3>2
    <3> QED
      BY <2>2, <2>3, <2>5, <3>1, <3>3 DEF BandFollows
  <2> QED
    BY <2>4, <2>5
<1> QED
  BY <1>2, <1>3, <1>4

(* A band that is stored leaves the rest of the controller alone.              *)
LEMMA CommittedIsTyped ==
  ASSUME NEW c \in Controller, NEW b \in Band \cup {None}, NEW at \in Int,
         c.bandAt # None => c.bandAt <= at
  PROVE  /\ Committed(c, b, at) \in Controller
         /\ Committed(c, b, at).bandAt # None => Committed(c, b, at).bandAt <= at
         /\ b = None => Committed(c, b, at) = c
<1>1. CASE b = None
  BY <1>1 DEF Committed
<1>2. CASE b # None
  <2> DEFINE d == [c EXCEPT !.band = b, !.bandAt = at]
  <2>1. d \in Controller
    <3>1. b \in Band /\ at \in Maybe(Int)
      BY <1>2 DEF Maybe
    <3> QED
      BY <3>1 DEF Controller
  <2>2. d.bandAt = at
    BY DEF Controller
  <2> HIDE DEF d
  <2>3. Committed(c, b, at) = d
    BY <1>2 DEF Committed, d
  <2> QED
    BY <1>2, <2>1, <2>2, <2>3
<1> QED
  BY <1>1, <1>2

(* The speed taken from a flow is a number.                                 *)
LEMMA FlowIsTyped ==
  ASSUME NEW m \in Measure, m # None, NEW dt \in Nat \ {0}
  PROVE  EgoFlow(m, dt) # None => EgoFlow(m, dt).speed \in Nat
<1> DEFINE pixels == SpeedPerPixel * Abs(m.up) * Second
<1>1. m.up \in Int /\ Second \in Nat
  BY PerceptionAssumption
<1>2. Abs(m.up) \in Nat
  BY <1>1 DEF Abs
<1>3. \A i, k \in Nat : 10 * i * k \in Nat
  OBVIOUS
<1>4. pixels \in Nat
  BY <1>1, <1>2, <1>3 DEF SpeedPerPixel
<1> HIDE DEF pixels
<1>5. pixels \div dt \in Nat
  BY <1>4
<1>6. EgoFlow(m, dt) # None
        => EgoFlow(m, dt).speed = IF Orientation = "side" THEN 0 ELSE pixels \div dt
  BY DEF EgoFlow, pixels
<1> QED
  BY <1>5, <1>6

(* A new controller is typed, and no band of it has been judged yet.        *)
LEMMA InitRate == PerceptionInit /\ ClockInit => FrameTimesInv /\ RateInv
<1> SUFFICES ASSUME PerceptionInit, ClockInit
             PROVE  FrameTimesInv /\ RateInv
  OBVIOUS
<1>1. FrameTimesInv
  BY DEF PerceptionInit, ClockInit, FrameTimesInv
<1>2. PICK e \in Envelope : controller = ControllerInit(e[1], e[2], Adaptive)
  BY DEF PerceptionInit
<1>3. /\ e[1] \in Nat /\ e[2] \in Nat /\ Adaptive \in BOOLEAN
  BY PerceptionAssumption
<1>4. BandOf("parked", 0, e[1], e[2]) \in Band
  BY <1>3, BandIsTyped DEF BandName
<1>5. controller \in Controller /\ controller.bandAt = None
  BY <1>2, <1>3, <1>4 DEF ControllerInit, Controller, Maybe
<1> QED
  BY <1>1, <1>5 DEF PerceptionInit, RateInv, BandFollows, Committed

(* The update of a frame keeps the band justified.                          *)
LEMMA UpdateKeeps ==
  ASSUME FrameTimesInv, RateInv, NEW gps \in GpsReading, UpdateRate(gps)
  PROVE  FrameTimesInv' /\ RateInv'
<1> DEFINE read == IF gps = None THEN controller ELSE SetGpsSpeed(controller, gps, now)
           sample == EffectiveSpeed(read, ExtractSpeed(lastFlow), now)
           seen == [read EXCEPT !.degraded = quality.state # "nominal", !.updatedAt = now]
<1>1. /\ pass = "idle" /\ frameAt < now /\ frameAt' = now /\ pass' = "updated" /\ now' = now
      /\ egoAt' = egoAt /\ lastFlow' = lastFlow
      /\ controller \in Controller /\ now \in Nat /\ frameAt \in Int
      /\ controller.bandAt # None => controller.bandAt <= frameAt
      /\ chosen = None
  BY DEF UpdateRate, FrameComes, FrameTimesInv, RateInv, sight
<1>2. gps \in Maybe(Nat) /\ now \in Maybe(Int)
  BY <1>1, PerceptionAssumption DEF Maybe
<1>3. /\ read \in Controller
      /\ read.band = controller.band /\ read.bandAt = controller.bandAt
      /\ read.tuple = controller.tuple /\ read.speed = controller.speed
      /\ read.enabled = controller.enabled
  <2>1. CASE gps = None
    BY <1>1, <2>1
  <2>2. CASE gps # None
    <3>1. read = [controller EXCEPT !.gps = gps, !.gpsAt = now]
      BY <2>2 DEF SetGpsSpeed
    <3> HIDE DEF read
    <3>2. read \in Controller
      BY <1>1, <1>2, <3>1 DEF Controller
    <3> QED
      BY <1>1, <3>1, <3>2 DEF Controller
  <2> QED
    BY <2>1, <2>2
<1> HIDE DEF read
<1>4. sample \in Nat \cup {None}
  <2>1. ExtractSpeed(lastFlow) \in Nat \cup {None}
    BY DEF ExtractSpeed, FrameTimesInv
  <2>2. read.gps \in Nat \cup {None}
    BY <1>3 DEF Controller, Maybe
  <2> QED
    BY <2>1, <2>2 DEF EffectiveSpeed
<1>5. /\ seen \in Controller
      /\ seen.band = controller.band /\ seen.bandAt = controller.bandAt
      /\ seen.tuple = controller.tuple /\ seen.speed = controller.speed
      /\ seen.enabled = controller.enabled
  <2> DEFINE poor == quality.state # "nominal"
  <2>1. poor \in BOOLEAN /\ seen = [read EXCEPT !.degraded = poor, !.updatedAt = now]
    OBVIOUS
  <2> HIDE DEF poor, seen
  <2>2. seen \in Controller
    BY <1>2, <1>3, <2>1 DEF Controller
  <2>3. /\ seen.band = read.band /\ seen.bandAt = read.bandAt /\ seen.tuple = read.tuple
        /\ seen.speed = read.speed /\ seen.enabled = read.enabled
    BY <1>3, <2>1 DEF Controller
  <2> QED
    BY <1>3, <2>2, <2>3
<1>6. /\ controller' \in IF sample = None THEN {seen}
                         ELSE {[seen EXCEPT !.speed = v] :
                                 v \in Smoothed(read, sample, now)}
      /\ IF sample = None THEN chosen' = None /\ judgedAt' = judgedAt
         ELSE chosen' = ChosenBand(controller', now) /\ judgedAt' = now
  BY DEF UpdateRate, Folded, read, sample, seen
<1> HIDE DEF sample, seen
<1>7. FrameTimesInv'
  BY <1>1, <1>6 DEF FrameTimesInv
<1>8. CASE sample = None
  <2>1. controller' = seen /\ chosen' = None /\ judgedAt' = judgedAt
    BY <1>6, <1>8
  <2>2. BandFollows(controller, judgedAt)
    BY <1>1 DEF RateInv, Committed
  <2>3. BandFollows(seen, judgedAt)
    BY <1>5, <2>2 DEF BandFollows
  <2>4. BandFollows(Committed(controller', chosen', frameAt'), judgedAt')
    BY <2>1, <2>3 DEF Committed
  <2> QED
    <3>1. controller.bandAt \in Int \cup {None}
      BY <1>1 DEF Controller, Maybe
    <3>2. controller'.bandAt # None => controller'.bandAt <= frameAt'
      BY <1>1, <1>5, <2>1, <3>1
    <3> QED
      BY <1>1, <1>5, <1>7, <2>1, <2>4, <3>2 DEF RateInv
<1>9. CASE sample # None
  <2>1. PICK v \in Smoothed(read, sample, now) : controller' = [seen EXCEPT !.speed = v]
    BY <1>6, <1>9
  <2>2. v \in Nat
    BY <1>3, <1>4, <1>9, SmoothedIsSpeed
  <2>3. /\ controller' \in Controller /\ controller'.speed \in Nat
        /\ controller'.bandAt = controller.bandAt
    <3>1. v \in Maybe(Nat)
      BY <2>2 DEF Maybe
    <3> QED
      BY <1>5, <2>1, <2>2, <3>1 DEF Controller
  <2>4. controller'.bandAt # None
          => controller'.bandAt < now /\ controller'.bandAt <= frameAt'
    <3>1. controller.bandAt \in Int \cup {None}
      BY <1>1 DEF Controller, Maybe
    <3> QED
      BY <1>1, <2>3, <3>1
  <2>5. chosen' = ChosenBand(controller', now) /\ judgedAt' = now
    BY <1>6, <1>9
  <2>6. /\ chosen' \in Band \cup {None}
        /\ BandFollows(Committed(controller', chosen', frameAt'), judgedAt')
    BY <1>1, <2>3, <2>4, <2>5, ChosenFollows
  <2> QED
    BY <1>1, <1>7, <2>3, <2>4, <2>6 DEF RateInv
<1> QED
  BY <1>8, <1>9

(* The band is stored: what was chosen is what follows.                        *)
LEMMA StoreKeeps ==
  ASSUME FrameTimesInv, RateInv,
         pass = "updated", pass' \in {"idle", "admitted"}, chosen' = None,
         LET c == Committed(controller, chosen, frameAt)
         IN controller' = c \/ controller' = [c EXCEPT !.processedAt = frameAt],
         UNCHANGED <<frameAt, judgedAt, now>>
  PROVE  RateInv'
<1> DEFINE c == Committed(controller, chosen, frameAt)
<1>1. c \in Controller /\ (c.bandAt # None => c.bandAt <= frameAt)
  BY CommittedIsTyped DEF RateInv, FrameTimesInv
<1>2. BandFollows(c, judgedAt)
  BY DEF RateInv
<1> HIDE DEF c
<1>3. CASE controller' = c
  BY <1>1, <1>2, <1>3 DEF RateInv, Committed
<1>4. CASE controller' = [c EXCEPT !.processedAt = frameAt]
  <2>1. frameAt \in Maybe(Int)
    BY DEF FrameTimesInv, Maybe
  <2>2. /\ controller' \in Controller /\ controller'.bandAt = c.bandAt
        /\ controller'.band = c.band /\ controller'.tuple = c.tuple
        /\ controller'.speed = c.speed /\ controller'.enabled = c.enabled
    BY <1>1, <1>4, <2>1 DEF Controller
  <2>3. BandFollows(controller', judgedAt')
    BY <1>2, <2>2 DEF BandFollows
  <2> QED
    BY <1>1, <2>2, <2>3 DEF RateInv, Committed
<1> QED
  BY <1>3, <1>4 DEF c

(* A frame that is admitted leaves the band alone.                          *)
LEMMA AdmitKeeps ==
  ASSUME FrameTimesInv, RateInv, AdmitFrame
  PROVE  FrameTimesInv' /\ RateInv'
<1>1. FrameTimesInv'
  BY DEF AdmitFrame, FrameTimesInv, sight
<1>2. RateInv'
  BY StoreKeeps DEF AdmitFrame
<1> QED
  BY <1>1, <1>2

(* A frame that is skipped leaves the band alone.                           *)
LEMMA SkipKeeps ==
  ASSUME FrameTimesInv, RateInv, NEW image, SkipFrame(image)
  PROVE  FrameTimesInv' /\ RateInv'
<1>1. FrameTimesInv'
  BY DEF SkipFrame, FrameTimesInv
<1>2. RateInv'
  BY StoreKeeps DEF SkipFrame
<1> QED
  BY <1>1, <1>2

(* The frame is looked at, after the controller or without it.                 *)
LEMMA ProcessKeeps ==
  ASSUME FrameTimesInv, RateInv, NEW image, NEW measure \in Measure, NEW seen,
         ProcessFrame(image, measure, seen)
  PROVE  FrameTimesInv' /\ RateInv'
<1>1. /\ pass' = "idle" /\ egoAt' = now /\ lastFlow' = FlowOf(measure)
      /\ UNCHANGED <<controller, chosen, judgedAt, now>>
      /\ frameAt' = now /\ frameAt <= now /\ frameAt \in Int /\ now \in Nat
      /\ egoAt # None => egoAt \in Int /\ egoAt < now
      /\ pass # "updated"
  BY DEF ProcessFrame, FrameComes, FrameTimesInv
<1>2. lastFlow' # None => lastFlow'.speed \in Nat
  <2>1. CASE None \in {measure, egoAt}
    BY <1>1, <2>1 DEF FlowOf
  <2>2. CASE None \notin {measure, egoAt}
    <3>1. now - egoAt \in Nat \ {0}
      BY <1>1, <2>2
    <3>2. lastFlow' = EgoFlow(measure, now - egoAt)
      BY <1>1, <2>2 DEF FlowOf
    <3> QED
      BY <2>2, <3>1, <3>2, FlowIsTyped
  <2> QED
    BY <2>1, <2>2
<1>3. FrameTimesInv'
  BY <1>1, <1>2 DEF FrameTimesInv
<1>4. RateInv'
  <2>1. chosen = None /\ controller \in Controller
    BY <1>1 DEF RateInv
  <2>2. controller.bandAt \in Int \cup {None}
    BY <2>1 DEF Controller, Maybe
  <2>3. controller'.bandAt # None => controller'.bandAt <= frameAt'
    BY <1>1, <2>2 DEF RateInv
  <2> QED
    BY <1>1, <2>1, <2>3 DEF RateInv, Committed
<1> QED
  BY <1>3, <1>4

(* An envelope is put in place, whatever was chosen under the one before.      *)
LEMMA EnvelopeIsTyped ==
  ASSUME NEW c \in Controller, NEW lo \in Nat, NEW hi \in Nat, NEW on \in BOOLEAN
  PROVE  /\ SetEnabled(SetEnvelope(c, lo, hi), on) \in Controller
         /\ SetEnabled(SetEnvelope(c, lo, hi), on).bandAt = None
<1> DEFINE kept == BandOf(c.band.name, c.tuple + 1, lo, hi)
           d == [c EXCEPT !.floor = lo, !.ceil = hi, !.tuple = @ + 1, !.band = kept]
           first == BandOf("parked", d.tuple, d.floor, d.ceil)
<1>1. c.tuple + 1 \in Nat /\ c.band.name \in BandName
  BY DEF Controller, Band
<1>2. kept \in Band
  BY <1>1, BandIsTyped
<1>3. SetEnvelope(c, lo, hi) = d
  BY DEF SetEnvelope
<1> HIDE DEF kept
<1>4. d \in Controller
  BY <1>1, <1>2 DEF Controller
<1> HIDE DEF d
<1>5. first \in Band
  BY <1>4, BandIsTyped DEF Controller, BandName
<1>6. SetEnabled(d, on) = [d EXCEPT !.enabled = on, !.band = first, !.bandAt = None,
                                    !.processedAt = None]
  BY DEF SetEnabled
<1>7. None \in Maybe(Int)
  BY DEF Maybe
<1> HIDE DEF first
<1>8. SetEnabled(d, on) \in Controller /\ SetEnabled(d, on).bandAt = None
  BY <1>4, <1>5, <1>6, <1>7 DEF Controller
<1> QED
  BY <1>3, <1>8

(* A change of policy forgets when the band was chosen and judged.          *)
LEMMA PolicyKeeps ==
  ASSUME FrameTimesInv, RateInv, NEW lo \in Nat, NEW hi \in Nat, NEW on \in BOOLEAN,
         controller' = SetEnabled(SetEnvelope(controller, lo, hi), on),
         judgedAt' = None, UNCHANGED <<sight, pass, chosen, frameAt, now>>
  PROVE  FrameTimesInv' /\ RateInv'
<1>1. controller' \in Controller /\ controller'.bandAt = None
  BY EnvelopeIsTyped DEF RateInv
<1>2. FrameTimesInv'
  BY DEF FrameTimesInv, sight
<1>3. RateInv'
  BY <1>1 DEF RateInv, BandFollows
<1> QED
  BY <1>2, <1>3

(* Every step of the perception keeps the band justified.                   *)
LEMMA RateStep ==
  FrameTimesInv /\ RateInv /\ [PerceptionNext]_<<perceptionVars, now>> => (FrameTimesInv /\ RateInv)'
<1> SUFFICES ASSUME FrameTimesInv, RateInv, [PerceptionNext]_<<perceptionVars, now>>
             PROVE  FrameTimesInv' /\ RateInv'
  OBVIOUS
<1>1. CASE PerceptionTick
  BY <1>1 DEF PerceptionTick, Tick, perceptionVars, sight, FrameTimesInv, RateInv
<1>2. CASE BypassFrame
  <2>1. controller.bandAt \in Int \cup {None}
    BY DEF RateInv, Controller, Maybe
  <2>2. /\ pass = "idle" /\ frameAt' = now /\ frameAt < now
        /\ UNCHANGED <<controller, chosen, pass, egoAt, lastFlow, judgedAt, now>>
    BY <1>2 DEF BypassFrame, FrameComes, sight
  <2>3. FrameTimesInv'
    BY <2>2 DEF FrameTimesInv
  <2>4. controller'.bandAt # None => controller'.bandAt <= frameAt'
    BY <2>1, <2>2 DEF RateInv, FrameTimesInv
  <2>5. chosen = None
    BY <2>2 DEF RateInv
  <2>6. RateInv'
    BY <2>2, <2>4, <2>5 DEF RateInv, Committed
  <2> QED
    BY <2>3, <2>6
<1>3. ASSUME NEW gps \in GpsReading, UpdateRate(gps)
      PROVE  FrameTimesInv' /\ RateInv'
  BY <1>3, UpdateKeeps
<1>4. CASE AdmitFrame
  BY <1>4, AdmitKeeps
<1>5. ASSUME NEW image \in Image, SkipFrame(image)
      PROVE  FrameTimesInv' /\ RateInv'
  BY <1>5, SkipKeeps
<1>6. ASSUME NEW image \in Image, NEW measure \in Measure, NEW seen \in Finds,
             ProcessFrame(image, measure, seen)
      PROVE  FrameTimesInv' /\ RateInv'
  BY <1>6, ProcessKeeps
<1>7. CASE SwitchDetection
  BY <1>7 DEF SwitchDetection, sight, FrameTimesInv, RateInv
<1>8. ASSUME NEW e \in Envelope, ChangeEnvelope(e)
      PROVE  FrameTimesInv' /\ RateInv'
  <2>1. e[1] \in Nat /\ e[2] \in Nat
    BY PerceptionAssumption
  <2>2. controller.enabled \in BOOLEAN
    BY DEF RateInv, Controller
  <2> QED
    BY <1>8, <2>1, <2>2, PolicyKeeps DEF ChangeEnvelope
<1>9. CASE ToggleAdaptive
  <2>1. /\ controller.floor \in Nat /\ controller.ceil \in Nat
        /\ (~controller.enabled) \in BOOLEAN
    BY DEF RateInv, Controller
  <2> QED
    BY <1>9, <2>1, PolicyKeeps DEF ToggleAdaptive
<1>10. CASE UNCHANGED <<perceptionVars, now>>
  BY <1>10 DEF perceptionVars, sight, FrameTimesInv, RateInv
<1> QED
  BY <1>1, <1>2, <1>3, <1>4, <1>5, <1>6, <1>7, <1>8, <1>9, <1>10 DEF PerceptionNext

(* BandFollowsSpeed: whatever the readings, the dwell and the envelopes, the   *)
(* band that is kept is one the smoothed speed may be in.                      *)
THEOREM BandJustified == PerceptionSpec => []BandFollowsSpeed
<1>1. RateInv /\ FrameTimesInv => BandFollowsSpeed
  <2> SUFFICES ASSUME RateInv, FrameTimesInv, pass = "idle"
               PROVE  BandFollowsSpeed
    BY DEF BandFollowsSpeed
  <2>1. BandFollows(controller, judgedAt)
    BY DEF RateInv, Committed
  <2>2. controller.bandAt # None /\ judgedAt # None => judgedAt - controller.bandAt # None
    <3>1. controller.bandAt \in Int \cup {None} /\ judgedAt \in Int \cup {None}
      BY DEF RateInv, FrameTimesInv, Controller, Maybe
    <3>2. None \notin Int
      BY RateAssumption
    <3> QED
      BY <3>1, <3>2
  <2> QED
    BY <2>1, <2>2 DEF BandFollows, BandFollowsSpeed
<1> QED
  BY <1>1, InitRate, RateStep, PTL DEF PerceptionSpec
-----------------------------------------------------------------------------
(* The settings and the schedulers of the notifier.                            *)
SlackTimes ==
  /\ now \in 0 .. SlackEnd
  /\ webhook \in BOOLEAN /\ relay \in BOOLEAN /\ floor \in Floors
  /\ flushAt \in [Tier -> Nat]
  /\ \A t \in Tier : flushAt[t] <= SlackEnd + Every[t]

SlackInv == AlertsInv /\ SlackTimes

(* How long a scheduler sleeps.                                                *)
LEMMA EveryIsTyped == \A t \in Tier : Every[t] \in Nat
BY SlackAssumption DEF Tier, Every

(* The notifier starts with nothing on its way and its schedulers asleep.      *)
LEMMA InitSlack == SlackInit /\ ClockInit => SlackInv
<1> SUFFICES ASSUME SlackInit, ClockInit
             PROVE  SlackInv
  OBVIOUS
<1>1. AlertsInv
  BY InitAlerts
<1>2. flushAt = [t \in Tier |-> Every[t]] /\ SlackEnd \in Nat
  BY SlackAssumption DEF SlackInit
<1>3. \A t \in Tier : flushAt[t] \in Nat /\ flushAt[t] <= SlackEnd + Every[t]
  BY <1>2, EveryIsTyped
<1>4. flushAt \in [Tier -> Nat]
  BY <1>2, <1>3
<1> QED
  BY <1>1, <1>2, <1>3, <1>4 DEF SlackInit, ClockInit, SlackInv, SlackTimes

(* A scheduler that goes to sleep wakes at the latest so much after the end.   *)
LEMMA Sleeps ==
  ASSUME SlackTimes, NEW t \in Tier, flushAt' = [flushAt EXCEPT ![t] = now + Every[t]]
  PROVE  /\ flushAt' \in [Tier -> Nat]
         /\ \A u \in Tier : flushAt'[u] <= SlackEnd + Every[u]
<1>1. now \in Nat /\ now <= SlackEnd /\ SlackEnd \in Nat /\ Every[t] \in Nat
  BY SlackAssumption, EveryIsTyped DEF SlackTimes
<1>2. now + Every[t] \in Nat /\ now + Every[t] <= SlackEnd + Every[t]
  BY <1>1
<1>3. \A u \in Tier : flushAt'[u] = IF u = t THEN now + Every[t] ELSE flushAt[u]
  BY DEF SlackTimes
<1> QED
  BY <1>2, <1>3 DEF SlackTimes

(* Every step of the notifier keeps its settings and its schedulers' times.    *)
LEMMA SlackStep ==
  ASSUME SlackInv, [SlackNext]_<<slackVars, now>>
  PROVE  SlackInv' /\ now' \in Nat /\ now <= now'
<1>0. AlertsInv' /\ SlackTimes /\ now \in Nat /\ SlackEnd \in Nat
  BY NextAlerts, SlackAssumption DEF SlackInv, SlackTimes
<1>1. CASE SlackTick
  BY <1>0, <1>1 DEF SlackTick, Tick, slackVars, SlackInv, SlackTimes
<1>2. CASE MoveFloor
  BY <1>0, <1>2 DEF MoveFloor, SlackInv, SlackTimes
<1>3. CASE UNCHANGED <<webhook, relay, floor, flushAt, now>>
  BY <1>0, <1>3 DEF SlackInv, SlackTimes
<1>4. CASE /\ UNCHANGED <<webhook, relay, floor, now>>
           /\ \E t \in Tier : flushAt' = [flushAt EXCEPT ![t] = now + Every[t]]
  <2>1. PICK t \in Tier : flushAt' = [flushAt EXCEPT ![t] = now + Every[t]]
    BY <1>4
  <2>2. /\ flushAt' \in [Tier -> Nat]
        /\ \A u \in Tier : flushAt'[u] <= SlackEnd + Every[u]
    BY <1>0, <2>1, Sleeps
  <2> QED
    BY <1>0, <1>4, <2>2 DEF SlackInv, SlackTimes
<1>5. ASSUME NEW t \in Tier, Flush(t)
      PROVE  SlackInv' /\ now' \in Nat /\ now <= now'
  BY <1>3, <1>4, <1>5 DEF Flush
<1>6. ASSUME NEW t \in Tier, FlushNothing(t) \/ \E result \in Outcome : EndDigest(t, result)
      PROVE  SlackInv' /\ now' \in Nat /\ now <= now'
  BY <1>4, <1>6 DEF FlushNothing, EndDigest
<1>7. ASSUME \/ NotifyEvent \/ UNCHANGED <<slackVars, now>>
             \/ \E a \in Alert : EmitAlert(a)
             \/ \E c \in cards : EndUpload(c) \/ \E result \in Outcome : EndCard(c, result)
      PROVE  SlackInv' /\ now' \in Nat /\ now <= now'
  BY <1>3, <1>7 DEF NotifyEvent, EmitAlert, EndUpload, EndCard, slackVars
<1> QED
  BY <1>1, <1>2, <1>5, <1>6, <1>7 DEF SlackNext

(* What the invariants of the notifier say of its variables.                   *)
LEMMA SlackHolds == SlackInv => SlackTypeOK
<1> SUFFICES ASSUME SlackInv
             PROVE  SlackTypeOK
  OBVIOUS
<1>0. OnceInPlace /\ OnePlace /\ SlackTimes
  BY DEF SlackInv, AlertsInv
<1>1. ByPlace
  BY AlertsByPlace
<1>2. \A x \in Spot : AlertsAt[x] \subseteq alerted
  BY <1>0 DEF OnePlace
<1>3. /\ Range(told) \subseteq alerted /\ Range(mediumBuffer) \subseteq alerted
      /\ Range(lowBuffer) \subseteq alerted /\ {c.alert : c \in cards} \subseteq alerted
  BY <1>1, <1>2 DEF ByPlace, Spot
<1>4. /\ ToSet(told) = Range(told) /\ ToSet(mediumBuffer) = Range(mediumBuffer)
      /\ ToSet(lowBuffer) = Range(lowBuffer)
  BY <1>0, RangeIsToSet DEF OnceInPlace
<1>5. \A c \in cards : c.alert \in alerted /\ c.stage \in {"upload", "post"}
  BY <1>0, <1>3 DEF OnceInPlace, CardType
<1>6. \A p \in outcome : p.result \in Outcome
  BY <1>0 DEF OnceInPlace, PostType
<1>7. \A t \in Tier : flushAt[t] \in 0 .. SlackEnd + Every[t]
  BY <1>0, EveryIsTyped, SlackAssumption DEF SlackTimes
<1> QED
  BY <1>0, <1>3, <1>4, <1>5, <1>6, <1>7 DEF SlackTimes, SlackTypeOK
-----------------------------------------------------------------------------
(* The feedback loop: what the loop keeps of its events, labels and vehicles.  *)
Score == [events : Nat, high : Nat, score : 0 .. MaxScore, tp : Nat, fp : Nat]

Sizes ==
  /\ \E S : recentEvents \in Seq(S)
  /\ Len(recentEvents) <= RecentMax
  /\ \E S : labels \in Seq(S)
  /\ Len(labels) <= MaxLabels

FeedbackInv ==
  /\ ExportInv
  /\ \A e \in DOMAIN samples : samples[e].n >= 1
  /\ Sizes
  /\ registry \in [DOMAIN registry -> Score]

(* The loop starts with nothing.                                               *)
LEMMA InitFeedback == FeedbackInit => FeedbackInv
<1> SUFFICES ASSUME FeedbackInit
             PROVE  FeedbackInv
  OBVIOUS
<1>1. ExportInv
  BY InitExport
<1>2. <<>> \in Seq({}) /\ Len(<<>>) = 0
  OBVIOUS
<1> QED
  BY <1>1, <1>2, FeedbackAssumption DEF FeedbackInit, FeedbackInv, Sizes

(* One more at the end of a sequence, of whatever it is.                       *)
LEMMA OneMore ==
  ASSUME NEW s, \E S : s \in Seq(S), NEW x
  PROVE  /\ \E S : Append(s, x) \in Seq(S)
         /\ Len(s) \in Nat /\ Len(Append(s, x)) = Len(s) + 1
<1>1. PICK S : s \in Seq(S)
  OBVIOUS
<1>2. s \in Seq(S \cup {x})
  BY <1>1
<1> QED
  BY <1>2

(* The same where the oldest makes room.                                       *)
LEMMA OneForAnother ==
  ASSUME NEW s, \E S : s \in Seq(S), Len(s) # 0, NEW x
  PROVE  /\ \E S : Append(Tail(s), x) \in Seq(S)
         /\ Len(Append(Tail(s), x)) = Len(s)
<1>1. PICK S : s \in Seq(S)
  OBVIOUS
<1>2. Tail(s) \in Seq(S) /\ Len(Tail(s)) = Len(s) - 1 /\ Len(s) \in Nat
  BY <1>1
<1>3. /\ \E Z : Append(Tail(s), x) \in Seq(Z)
      /\ Len(Append(Tail(s), x)) = Len(Tail(s)) + 1
  BY <1>2, OneMore
<1> QED
  BY <1>2, <1>3

(* The scores a vehicle starts with, or has.                                   *)
LEMMA VehiclesAreTyped ==
  ASSUME registry \in [DOMAIN registry -> Score], NEW v
  PROVE  /\ Vehicles(v) \in [DOMAIN registry \cup {v} -> Score]
         /\ Vehicles(v)[v] \in Score
<1>1. Fresh \in Score
  BY FeedbackAssumption DEF Fresh, Score
<1> QED
  BY <1>1 DEF Vehicles

(* Penalties and recovery keep a score in its range.                           *)
LEMMA ScoreStays ==
  ASSUME NEW s \in 0 .. MaxScore, NEW k \in Nat
  PROVE  /\ Max({0, s - k}) \in 0 .. MaxScore
         /\ Min({MaxScore, s + k}) \in 0 .. MaxScore
<1>1. PICK a \in Int, b \in Int, c \in Int : a = s - k /\ b = s + k /\ c = MaxScore /\ c \in Nat
  BY FeedbackAssumption
<1>2. a \in Int /\ b \in Int /\ c \in Int /\ 0 \in Int
  OBVIOUS
<1>3. Max({0, a}) \in {0, a} /\ Max({0, a}) >= 0
  BY <1>2, MaxOfTwo
<1>4. Min({c, b}) \in {c, b} /\ Min({c, b}) <= c /\ Min({c, b}) <= b
  BY <1>2, MinOfTwo
<1>5. Max({0, a}) \in 0 .. MaxScore
  BY <1>1, <1>3
<1>6. Min({c, b}) \in 0 .. MaxScore
  BY <1>1, <1>4
<1> QED
  BY <1>1, <1>5, <1>6

(* An event, a verdict and an hour's decay keep the registry typed.            *)
LEMMA RegistryKeeps ==
  ASSUME registry \in [DOMAIN registry -> Score],
         \/ \E e \in Labelled : RecordEvent(e)
         \/ \E hook : RecordFeedback(hook)
         \/ DecayScores
         \/ UNCHANGED registry
  PROVE  registry' \in [DOMAIN registry' -> Score]
<1>1. ASSUME NEW e \in Labelled, RecordEvent(e)
      PROVE  registry' \in [DOMAIN registry' -> Score]
  <2> DEFINE v == VehicleOf[e]
             old == Vehicles(v)[v]
             high == IF RiskOf[e] = "high" THEN old.high + 1 ELSE old.high
             score == Max({0, old.score - Penalty[RiskOf[e]]})
             new == [old EXCEPT !.events = old.events + 1, !.high = high, !.score = score]
  <2>1. /\ Vehicles(v) \in [DOMAIN registry \cup {v} -> Score] /\ old \in Score
    BY VehiclesAreTyped
  <2>2. registry' = [Vehicles(v) EXCEPT ![v] = new]
    BY <1>1 DEF RecordEvent
  <2> HIDE DEF v, old
  <2>3. score \in 0 .. MaxScore
    <3>1. old.score \in 0 .. MaxScore /\ Penalty[RiskOf[e]] \in Nat
      BY <2>1, FeedbackAssumption DEF Score
    <3> QED
      BY <3>1, ScoreStays
  <2> HIDE DEF score
  <2>4. high \in Nat /\ old.events + 1 \in Nat
    BY <2>1 DEF Score
  <2> HIDE DEF high
  <2>5. new \in Score
    BY <2>1, <2>3, <2>4 DEF Score
  <2> QED
    BY <2>1, <2>2, <2>5
<1>2. ASSUME NEW hook, RecordFeedback(hook)
      PROVE  registry' \in [DOMAIN registry' -> Score]
  <2> DEFINE v == IF hook.matched THEN VehicleOf[hook.event] ELSE Home
             old == Vehicles(v)[v]
             right == [old EXCEPT !.tp = old.tp + 1]
             wrong == [old EXCEPT !.fp = old.fp + 1]
  <2>1. /\ Vehicles(v) \in [DOMAIN registry \cup {v} -> Score] /\ old \in Score
    BY VehiclesAreTyped
  <2>2. \/ registry' = [Vehicles(v) EXCEPT ![v] = right]
        \/ registry' = [Vehicles(v) EXCEPT ![v] = wrong]
    BY <1>2 DEF RecordFeedback
  <2> HIDE DEF v, old
  <2>3. right \in Score /\ wrong \in Score
    BY <2>1 DEF Score
  <2> QED
    BY <2>1, <2>2, <2>3
<1>3. CASE DecayScores
  <2> DEFINE new(v) == [registry[v] EXCEPT !.score = Min({MaxScore, registry[v].score + Recovery})]
  <2>1. registry' = [v \in DOMAIN registry |-> new(v)]
    BY <1>3 DEF DecayScores
  <2>2. ASSUME NEW v \in DOMAIN registry
        PROVE  new(v) \in Score
    <3>1. registry[v] \in Score /\ registry[v].score \in 0 .. MaxScore /\ Recovery \in Nat
      BY FeedbackAssumption DEF Score
    <3>2. Min({MaxScore, registry[v].score + Recovery}) \in 0 .. MaxScore
      BY <3>1, ScoreStays
    <3> QED
      BY <3>1, <3>2 DEF Score
  <2> HIDE DEF new
  <2> QED
    BY <2>1, <2>2
<1> QED
  BY <1>1, <1>2, <1>3

(* A sample that is there has been written.                                    *)
LEMMA SamplesAreWritten ==
  ASSUME ExportInv, \A e \in DOMAIN samples : samples[e].n >= 1,
         [FeedbackNext]_feedbackVars
  PROVE  \A e \in DOMAIN samples' : samples'[e].n >= 1
<1> USE DEF ExportInv, SamplesTyped
<1>1. ASSUME NEW e, Persist(e)
      PROVE  \A d \in DOMAIN samples' : samples'[d].n >= 1
  BY <1>1 DEF Persist
<1>2. CASE EndPersist
  BY <1>2 DEF EndPersist, Sample
<1>3. ASSUME NEW x \in Exporter, NEW e \in Labelled, ClearRecord(x, e)
      PROVE  \A d \in DOMAIN samples' : samples'[d].n >= 1
  BY <1>3, ClearKeeps
<1>4. CASE UNCHANGED samples
  BY <1>4
<1>5. ASSUME NEW e \in Labelled, EmitEvent(e)
      PROVE  Persist(e) \/ UNCHANGED samples
  BY <1>5 DEF EmitEvent
<1>6. ASSUME RunHook
      PROVE  (\E e : Persist(e)) \/ UNCHANGED samples
  BY <1>6 DEF RunHook
<1>7. ASSUME \/ DecayScores \/ UNCHANGED feedbackVars
             \/ \E x \in Exporter : StartExport(x) \/ OpenZip(x) \/ CloseZip(x) \/ ExportFails(x)
             \/ \E e \in Labelled, x \in Exporter : ReadRecord(x, e)
             \/ \E e \in Labelled, says \in Verdict : PostFeedback(e, says)
      PROVE  UNCHANGED samples
  BY <1>7 DEF DecayScores, StartExport, OpenZip, CloseZip, ExportFails, ReadRecord,
              PostFeedback, feedbackVars
<1> QED
  BY <1>1, <1>2, <1>3, <1>4, <1>5, <1>6, <1>7 DEF FeedbackNext

(* Every step of the feedback loop keeps what it has within its limits.        *)
LEMMA FeedbackStep == FeedbackInv /\ [FeedbackNext]_feedbackVars => FeedbackInv'
<1> SUFFICES ASSUME FeedbackInv, [FeedbackNext]_feedbackVars
             PROVE  FeedbackInv'
  OBVIOUS
<1> USE DEF FeedbackInv
<1>1. ExportInv' /\ \A e \in DOMAIN samples' : samples'[e].n >= 1
  BY ExportStep, SamplesAreWritten
<1>2. /\ \/ \E e \in Labelled : RecordEvent(e)
         \/ \E hook : RecordFeedback(hook)
         \/ DecayScores
         \/ UNCHANGED registry
  BY DEF FeedbackNext, EndPersist, RunHook, StartExport, OpenZip, CloseZip, ExportFails,
         EmitEvent, ReadRecord, ClearRecord, PostFeedback, feedbackVars, onLoop
<1>3. registry' \in [DOMAIN registry' -> Score]
  BY <1>2, RegistryKeeps
<1>4. Sizes'
  <2>1. ASSUME NEW e \in Labelled, EmitEvent(e)
        PROVE  Sizes'
    <3>1. labels' = labels
      BY <2>1 DEF EmitEvent
    <3>2. RecentMax \in Nat \ {0} /\ Len(recentEvents) \in Nat
      BY FeedbackAssumption, OneMore DEF Sizes
    <3>3. CASE Len(recentEvents) = RecentMax
      <4>1. recentEvents' = Append(Tail(recentEvents), e)
        BY <2>1, <3>3 DEF EmitEvent
      <4>2. /\ \E S : recentEvents' \in Seq(S)
            /\ Len(recentEvents') = Len(recentEvents)
        BY <3>2, <3>3, <4>1, OneForAnother DEF Sizes
      <4> QED
        BY <3>1, <4>2 DEF Sizes
    <3>4. CASE Len(recentEvents) # RecentMax
      <4>1. recentEvents' = Append(recentEvents, e)
        BY <2>1, <3>4 DEF EmitEvent
      <4>2. /\ \E S : recentEvents' \in Seq(S)
            /\ Len(recentEvents') = Len(recentEvents) + 1
        BY <4>1, OneMore DEF Sizes
      <4>3. Len(recentEvents') <= RecentMax
        BY <3>2, <3>4, <4>2 DEF Sizes
      <4> QED
        BY <3>1, <4>2, <4>3 DEF Sizes
    <3> QED
      BY <3>3, <3>4
  <2>2. ASSUME NEW e \in Labelled, NEW says \in Verdict, PostFeedback(e, says)
        PROVE  Sizes'
    <3>1. /\ recentEvents' = recentEvents /\ Len(labels) < MaxLabels
          /\ labels' = Append(labels, [event |-> e, verdict |-> says])
      BY <2>2 DEF PostFeedback
    <3>2. /\ \E S : labels' \in Seq(S)
          /\ Len(labels) \in Nat /\ Len(labels') = Len(labels) + 1
      BY <3>1, OneMore DEF Sizes
    <3>3. Len(labels') <= MaxLabels
      BY <3>1, <3>2, FeedbackAssumption
    <3> QED
      BY <3>1, <3>2, <3>3 DEF Sizes
  <2>3. CASE UNCHANGED <<recentEvents, labels>>
    BY <2>3 DEF Sizes
  <2> QED
    BY <2>1, <2>2, <2>3 DEF FeedbackNext, EndPersist, RunHook, DecayScores, StartExport,
       OpenZip, CloseZip, ExportFails, ReadRecord, ClearRecord, feedbackVars, onLoop
<1> QED
  BY <1>1, <1>3, <1>4

(* What the invariants of the feedback loop say of its variables.              *)
LEMMA FeedbackHolds == FeedbackInv => FeedbackTypeOK
<1> SUFFICES ASSUME FeedbackInv
             PROVE  FeedbackTypeOK
  OBVIOUS
<1>1. \A e \in DOMAIN samples : samples[e].n \in 1 .. writes /\ samples[e].whole \in BOOLEAN
  BY DEF FeedbackInv, ExportInv, SamplesTyped, Sample
<1>2. \A v \in DOMAIN registry : registry[v].score \in 0 .. MaxScore
  BY DEF FeedbackInv, Score
<1>3. \A x \in Exporter : exporting[x] # None => exporting[x].phase \in {"read", "zip", "clear"}
  BY DEF FeedbackInv, ExportInv, BatchesInv, BatchInv
<1> QED
  BY <1>1, <1>2, <1>3 DEF FeedbackInv, Sizes, FeedbackTypeOK

-----------------------------------------------------------------------------
(* The perception of a slot: its quality, its tracks and the tuples of bands.  *)
Grades(S) ==
  [lum : S, sharp : S, sat : S, conf : S, samples : S, state : QualityState]

Graded(q) == \E S : q \in Grades(S)

Tracked(h) ==
  /\ DOMAIN h = Track
  /\ \A id \in Track : (\E S : h[id] \in Seq(S)) /\ Len(h[id]) <= HistoryLen

BandsOfTuples ==
  /\ controller.band.of <= controller.tuple
  /\ chosen # None => chosen.of <= controller.tuple

SightInv ==
  /\ detection \in BOOLEAN
  /\ Graded(quality) /\ toldQuality \in QualityState \cup {None}
  /\ Tracked(history)
  /\ -1 <= frameAt

PerceptionInv == FrameTimesInv /\ RateInv /\ BandsOfTuples /\ SightInv

(* The state a camera is found in is one of the five.                          *)
LEMMA ReclassifiedIsGraded ==
  ASSUME NEW q, Graded(q)
  PROVE  Graded(Reclassified(q))
<1> DEFINE tripped == {i \in DOMAIN Causes : Trips(q, Causes[i])}
           s == IF tripped = {} THEN "nominal" ELSE Causes[Min(tripped)]
<1>1. DOMAIN Causes = 1 .. 4 /\ \A i \in 1 .. 4 : Causes[i] \in QualityState
  BY DEF Causes, QualityState
<1>2. tripped \subseteq 1 .. 4
  BY <1>1
<1>3. Reclassified(q) = [q EXCEPT !.state = s]
  BY DEF Reclassified
<1> HIDE DEF tripped
<1>4. s \in QualityState
  <2>1. CASE tripped = {}
    BY <2>1 DEF QualityState
  <2>2. CASE tripped # {}
    <3>0. tripped \subseteq Nat
      BY <1>2
    <3>1. \E m \in tripped : \A n \in tripped : m <= n
      BY <2>2, <3>0, LeastNatural
    <3>2. Min(tripped) \in tripped
      BY <3>1 DEF Min
    <3> QED
      BY <1>1, <1>2, <2>2, <3>2
  <2> QED
    BY <2>1, <2>2
<1> HIDE DEF s
<1>5. PICK S : q \in Grades(S)
  BY DEF Graded
<1>6. [q EXCEPT !.state = s] \in Grades(S)
  BY <1>4, <1>5 DEF Grades
<1> QED
  BY <1>3, <1>6 DEF Graded

(* What a frame makes of the quality.                                          *)
LEMMA ObservedIsGraded ==
  ASSUME NEW q, Graded(q), NEW image, NEW conf, NEW r \in Observed(q, image, conf)
  PROVE  Graded(r)
<1>1. CASE image = None
  BY <1>1 DEF Observed
<1>2. CASE image # None
  <2>1. PICK l, sh, st, c : r = Reclassified(Averaged(q, l, sh, st, c))
    BY <1>2 DEF Observed
  <2>2. PICK S : q \in Grades(S)
    BY DEF Graded
  <2> DEFINE k == IF q.samples > MinSamples THEN q.samples ELSE q.samples + 1
  <2>3. Averaged(q, l, sh, st, c)
          = [q EXCEPT !.lum = l, !.sharp = sh, !.sat = st, !.conf = c, !.samples = k]
    BY DEF Averaged
  <2> HIDE DEF k
  <2>4. Averaged(q, l, sh, st, c) \in Grades(S \cup {l, sh, st, c, k})
    BY <2>2, <2>3 DEF Grades
  <2>5. Graded(Averaged(q, l, sh, st, c))
    BY <2>4 DEF Graded
  <2> QED
    BY <2>1, <2>5, ReclassifiedIsGraded
<1> QED
  BY <1>1, <1>2

(* The newest samples of a track are no more than it may keep.                 *)
LEMMA RecentIsShort ==
  ASSUME NEW s, \E S : s \in Seq(S)
  PROVE  (\E S : Recent(s, HistoryLen) \in Seq(S)) /\ Len(Recent(s, HistoryLen)) <= HistoryLen
<1>1. PICK S : s \in Seq(S)
  OBVIOUS
<1>2. HistoryLen \in Nat \ {0} /\ Len(s) \in Nat
  BY <1>1, PerceptionAssumption
<1>3. CASE Len(s) > HistoryLen
  <2>1. PICK m \in Nat : m = Len(s) - HistoryLen
    BY <1>2, <1>3
  <2>2. m + 1 \in 1 .. Len(s) /\ Len(s) - HistoryLen + 1 = m + 1
    BY <1>2, <2>1
  <2>3. /\ SubSeq(s, m + 1, Len(s)) \in Seq(S)
        /\ Len(SubSeq(s, m + 1, Len(s))) = Len(s) - m
    BY <1>1, <1>2, <2>2
  <2>4. Recent(s, HistoryLen) = SubSeq(s, m + 1, Len(s))
    BY <1>3, <2>2 DEF Recent
  <2>5. Len(s) - m = HistoryLen /\ HistoryLen <= HistoryLen
    BY <1>2, <2>1
  <2>6. Recent(s, HistoryLen) \in Seq(S) /\ Len(Recent(s, HistoryLen)) = HistoryLen
    BY <2>3, <2>4, <2>5
  <2> QED
    BY <2>5, <2>6
<1>4. CASE ~(Len(s) > HistoryLen)
  BY <1>1, <1>2, <1>4 DEF Recent
<1> QED
  BY <1>3, <1>4

(* What the boxes of a frame make of the tracks.                               *)
LEMMA RecordedIsTracked ==
  ASSUME NEW h, Tracked(h), NEW dets, NEW t
  PROVE  Tracked(Recorded(h, dets, t))
<1> DEFINE new == Recorded(h, dets, t)
<1>1. DOMAIN new = Track /\ DOMAIN h = Track
  BY DEF Recorded, Tracked
<1>2. ASSUME NEW id \in Track
      PROVE  (\E S : new[id] \in Seq(S)) /\ Len(new[id]) <= HistoryLen
  <2> DEFINE x == SampleOf(CHOOSE d \in {e \in dets : e.id = id} : TRUE, t)
  <2>1. \/ new[id] = Recent(Append(h[id], x), HistoryLen)
        \/ new[id] = <<>> \/ new[id] = h[id]
    BY <1>1 DEF Recorded
  <2>2. (\E S : h[id] \in Seq(S)) /\ Len(h[id]) <= HistoryLen
    BY DEF Tracked
  <2> HIDE DEF x
  <2>3. \E S : Append(h[id], x) \in Seq(S)
    BY <2>2, OneMore
  <2>4. (\E S : <<>> \in Seq(S)) /\ Len(<<>>) <= HistoryLen
    <3>1. <<>> \in Seq({}) /\ Len(<<>>) = 0
      OBVIOUS
    <3> QED
      BY <3>1, PerceptionAssumption
  <2> HIDE DEF new
  <2>5. CASE new[id] = Recent(Append(h[id], x), HistoryLen)
    BY <2>3, <2>5, RecentIsShort
  <2> QED
    BY <2>1, <2>2, <2>4, <2>5
<1> QED
  BY <1>1, <1>2 DEF Tracked

(* A band is stored under its tuple, and the tuple only moves on.              *)
LEMMA CommittedBand ==
  ASSUME NEW c \in Controller, NEW b \in Band \cup {None}, NEW at \in Int
  PROVE  /\ Committed(c, b, at).tuple = c.tuple
         /\ Committed(c, b, at).band = IF b = None THEN c.band ELSE b
BY DEF Committed, Controller

(* update() leaves the band and the tuple alone.                               *)
LEMMA UpdateKeepsBand ==
  ASSUME RateInv, NEW gps, UpdateRate(gps)
  PROVE  /\ controller'.band = controller.band /\ controller'.tuple = controller.tuple
         /\ chosen' # None => chosen'.of = controller'.tuple
<1> DEFINE read == IF gps = None THEN controller ELSE SetGpsSpeed(controller, gps, now)
<1>1. controller \in Controller
  BY DEF RateInv
<1>2. /\ read.band = controller.band /\ read.tuple = controller.tuple
      /\ DOMAIN read = DOMAIN controller
  BY <1>1 DEF SetGpsSpeed, Controller
<1> HIDE DEF read
<1>3. PICK c \in Folded(read, lastFlow, quality.state # "nominal", now) :
        /\ controller' = c
        /\ chosen' = None \/ chosen' = ChosenBand(c, now)
  BY DEF UpdateRate, read
<1> DEFINE poor == quality.state # "nominal"
           seen == [read EXCEPT !.degraded = poor, !.updatedAt = now]
<1>4. c = seen \/ \E v : c = [seen EXCEPT !.speed = v]
  BY DEF Folded
<1>5. c.band = read.band /\ c.tuple = read.tuple
  BY <1>1, <1>2, <1>4 DEF Controller
<1>6. ChosenBand(c, now) # None => ChosenBand(c, now).of = c.tuple
  BY DEF ChosenBand, BandOf
<1> QED
  BY <1>2, <1>3, <1>5, <1>6

(* A policy starts a tuple of its own and a band of it.                        *)
LEMMA PolicyBand ==
  ASSUME NEW c \in Controller, NEW lo \in Nat, NEW hi \in Nat, NEW on \in BOOLEAN
  PROVE  LET d == SetEnabled(SetEnvelope(c, lo, hi), on)
         IN d.band.of = d.tuple /\ d.tuple = c.tuple + 1
<1> DEFINE kept == BandOf(c.band.name, c.tuple + 1, lo, hi)
           e == [c EXCEPT !.floor = lo, !.ceil = hi, !.tuple = @ + 1, !.band = kept]
           first == BandOf("parked", e.tuple, e.floor, e.ceil)
           d == [e EXCEPT !.enabled = on, !.band = first, !.bandAt = None, !.processedAt = None]
<1>1. SetEnvelope(c, lo, hi) = e
  BY DEF SetEnvelope
<1>2. SetEnabled(e, on) = d
  BY DEF SetEnabled
<1> HIDE DEF kept
<1>3. e.tuple = c.tuple + 1 /\ DOMAIN e = DOMAIN c
  BY DEF Controller
<1> HIDE DEF e
<1>4. first.of = e.tuple
  BY DEF BandOf
<1> HIDE DEF first
<1>5. d.band = first /\ d.tuple = e.tuple
  BY <1>3 DEF Controller
<1> HIDE DEF d
<1> QED
  BY <1>1, <1>2, <1>3, <1>4, <1>5

(* Every step keeps the bands of the tuples there are.                         *)
LEMMA BandsStep ==
  ASSUME FrameTimesInv, RateInv, BandsOfTuples, [PerceptionNext]_<<perceptionVars, now>>
  PROVE  BandsOfTuples'
<1>0. /\ controller \in Controller /\ controller.tuple \in Nat /\ controller.band.of \in Nat
      /\ chosen \in Band \cup {None} /\ (chosen # None => chosen.of \in Nat)
      /\ frameAt \in Int
  BY DEF RateInv, FrameTimesInv, Controller, Band
<1>1. ASSUME NEW gps \in GpsReading, UpdateRate(gps)
      PROVE  BandsOfTuples'
  BY <1>0, <1>1, UpdateKeepsBand DEF BandsOfTuples
<1>2. ASSUME AdmitFrame \/ \E image \in Image : SkipFrame(image)
      PROVE  BandsOfTuples'
  <2> DEFINE c == Committed(controller, chosen, frameAt)
             d == [c EXCEPT !.processedAt = frameAt]
  <2>1. chosen' = None /\ (controller' = c \/ controller' = d)
    BY <1>2 DEF AdmitFrame, SkipFrame
  <2>2. c.tuple = controller.tuple /\ c.band = IF chosen = None THEN controller.band ELSE chosen
    BY <1>0, CommittedBand
  <2>3. c.band.of <= c.tuple
    BY <2>2 DEF BandsOfTuples
  <2>4. d.band = c.band /\ d.tuple = c.tuple
    <3>1. c \in Controller
      BY <1>0, CommittedIsTyped DEF RateInv
    <3> HIDE DEF c
    <3> QED
      BY <3>1 DEF Controller
  <2> HIDE DEF c, d
  <2> QED
    BY <2>1, <2>3, <2>4 DEF BandsOfTuples
<1>3. ASSUME NEW lo \in Nat, NEW hi \in Nat, NEW on \in BOOLEAN,
             controller' = SetEnabled(SetEnvelope(controller, lo, hi), on), chosen' = chosen
      PROVE  BandsOfTuples'
  <2>1. controller'.band.of = controller'.tuple /\ controller'.tuple = controller.tuple + 1
    BY <1>0, <1>3, PolicyBand
  <2> QED
    BY <1>0, <1>3, <2>1 DEF BandsOfTuples
<1>4. ASSUME NEW e \in Envelope, ChangeEnvelope(e)
      PROVE  BandsOfTuples'
  <2>1. e[1] \in Nat /\ e[2] \in Nat /\ controller.enabled \in BOOLEAN
    BY <1>0, PerceptionAssumption DEF Controller
  <2> QED
    BY <1>3, <1>4, <2>1 DEF ChangeEnvelope
<1>5. CASE ToggleAdaptive
  <2>1. /\ controller.floor \in Nat /\ controller.ceil \in Nat
        /\ (~controller.enabled) \in BOOLEAN
    BY <1>0 DEF Controller
  <2> QED
    BY <1>3, <1>5, <2>1 DEF ToggleAdaptive
<1>6. CASE UNCHANGED <<controller, chosen>>
  BY <1>6 DEF BandsOfTuples
<1> QED
  BY <1>1, <1>2, <1>4, <1>5, <1>6 DEF PerceptionNext, PerceptionTick, BypassFrame, ProcessFrame,
     SwitchDetection, perceptionVars

(* Every step keeps the quality graded and the tracks short.                   *)
LEMMA SightStep ==
  ASSUME FrameTimesInv, SightInv, [PerceptionNext]_<<perceptionVars, now>>
  PROVE  SightInv'
<1> USE DEF SightInv
<1>1. -1 <= frameAt'
  <2>1. frameAt' = frameAt \/ frameAt' = now
    BY DEF PerceptionNext, PerceptionTick, BypassFrame, UpdateRate, AdmitFrame, SkipFrame,
           ProcessFrame, FrameComes, SwitchDetection, ChangeEnvelope, ToggleAdaptive, perceptionVars
  <2> QED
    BY <2>1 DEF FrameTimesInv
<1>2. ASSUME NEW image, NEW measure, NEW seen, ProcessFrame(image, measure, seen)
      PROVE  SightInv'
  <2>1. PICK dets, conf : /\ quality' \in Observed(quality, image, conf)
                          /\ history' = Recorded(history, dets, now)
    BY <1>2 DEF ProcessFrame
  <2>2. toldQuality' = quality'.state /\ detection' = detection
    BY <1>2 DEF ProcessFrame, operator
  <2>3. Graded(quality')
    BY <2>1, ObservedIsGraded
  <2>4. quality'.state \in QualityState
    BY <2>3 DEF Graded, Grades
  <2>5. Tracked(history')
    BY <2>1, RecordedIsTracked
  <2> QED
    BY <1>1, <2>2, <2>3, <2>4, <2>5
<1>3. ASSUME NEW image, SkipFrame(image)
      PROVE  SightInv'
  <2>1. quality' \in Observed(quality, image, None) /\ UNCHANGED <<detection, toldQuality, history>>
    BY <1>3 DEF SkipFrame, operator
  <2>2. Graded(quality')
    BY <2>1, ObservedIsGraded
  <2> QED
    BY <1>1, <2>1, <2>2
<1>4. CASE UNCHANGED <<quality, toldQuality, history>> /\ detection' \in BOOLEAN
  BY <1>1, <1>4
<1> QED
  BY <1>2, <1>3, <1>4 DEF PerceptionNext, PerceptionTick, BypassFrame, UpdateRate, AdmitFrame,
     SwitchDetection, ChangeEnvelope, ToggleAdaptive, perceptionVars, operator, sight

(* The perception starts with a camera that is trusted and no track.           *)
LEMMA InitPerception == PerceptionInit /\ ClockInit => PerceptionInv
<1> SUFFICES ASSUME PerceptionInit, ClockInit
             PROVE  PerceptionInv
  OBVIOUS
<1>1. FrameTimesInv /\ RateInv
  BY InitRate
<1>2. BandsOfTuples
  BY PerceptionAssumption DEF PerceptionInit, ControllerInit, BandOf, BandsOfTuples
<1>3. Graded(quality)
  <2>1. QualityInit \in Grades({None, 0})
    BY DEF QualityInit, Grades, QualityState
  <2> QED
    BY <2>1 DEF PerceptionInit, Graded
<1>4. Tracked(history)
  <2>1. <<>> \in Seq({}) /\ Len(<<>>) = 0
    OBVIOUS
  <2> QED
    BY <2>1, PerceptionAssumption DEF PerceptionInit, Tracked
<1> QED
  BY <1>1, <1>2, <1>3, <1>4 DEF PerceptionInit, PerceptionInv, SightInv

(* Every step of the perception keeps its invariants.                          *)
LEMMA PerceptionStep ==
  ASSUME PerceptionInv, [PerceptionNext]_<<perceptionVars, now>>
  PROVE  PerceptionInv' /\ now' \in Nat /\ now <= now'
<1>1. PerceptionInv'
  BY RateStep, BandsStep, SightStep DEF PerceptionInv
<1>2. now' = now \/ now' = now + 1
  BY DEF PerceptionNext, PerceptionTick, Tick, BypassFrame, UpdateRate, AdmitFrame, SkipFrame,
         ProcessFrame, SwitchDetection, ChangeEnvelope, ToggleAdaptive, perceptionVars
<1> QED
  BY <1>1, <1>2 DEF PerceptionInv, FrameTimesInv

(* What the invariants of the perception say of its variables.                 *)
LEMMA PerceptionHolds == PerceptionInv => PerceptionTypeOK
<1> SUFFICES ASSUME PerceptionInv
             PROVE  PerceptionTypeOK
  OBVIOUS
<1> USE DEF PerceptionInv
<1>1. /\ controller.band.name \in BandName /\ controller.band.of \in 0 .. controller.tuple
      /\ controller.speed \in Nat \cup {None}
  BY DEF RateInv, Controller, Band, Maybe, BandsOfTuples
<1>2. quality.state \in QualityState
  BY DEF SightInv, Graded, Grades
<1>3. frameAt \in -1 .. now
  BY DEF SightInv, FrameTimesInv
<1> QED
  BY <1>1, <1>2, <1>3 DEF SightInv, Tracked, FrameTimesInv, PerceptionTypeOK

-----------------------------------------------------------------------------
(* The services side by side.                                                  *)

Later == now \in Nat /\ now' \in Nat /\ now <= now'

(* The clock of a service never goes back.                                     *)
LEMMA ClockGoesOn ==
  /\ now \in Nat /\ [GuardNext]_<<guardVars, now>> => Later
  /\ now \in Nat /\ [ValidatorNext]_<<validatorVars, now>> => Later
  /\ now \in Nat /\ [WatchdogNext]_<<watchdogVars, now>> => Later
<1>1. ASSUME now \in Nat, now' = now \/ now' = now + 1
      PROVE  Later
  BY <1>1 DEF Later
<1>2. ASSUME [GuardNext]_<<guardVars, now>>
      PROVE  now' = now \/ now' = now + 1
  BY <1>2 DEF GuardNext, GuardTick, Tick, RebuildBucket, StartCompletion, EndCompletion,
     StartEnrichment, ReadSample, FinishEnrichment, EnrichmentFails
<1>3. ASSUME [ValidatorNext]_<<validatorVars, now>>
      PROVE  now' = now \/ now' = now + 1
  BY <1>3 DEF ValidatorNext, ValidatorTick, Tick, SetPaused, Enqueue, LoadModel, Ask, Wake,
     Process, Sweep, SampleFrame, EmitEpisode
<1>4. ASSUME [WatchdogNext]_<<watchdogVars, now>>
      PROVE  now' = now \/ now' = now + 1
  BY <1>4 DEF WatchdogNext, WatchdogTick, Tick, Frame, ReaderDies, RestartReader, Collect,
     CollectFails, WriteFinding, Empty, Conclude, DeleteById
<1> QED
  BY <1>1, <1>2, <1>3, <1>4

(* A service that waits keeps its types while the clock of another goes on.    *)
LEMMA FeedWaits == TypeOK /\ UNCHANGED vars => TypeOK'
<1> SUFFICES ASSUME TypeOK, UNCHANGED vars
             PROVE  TypeOK'
  OBVIOUS
<1>1. [Next]_vars
  OBVIOUS
<1> QED
  BY <1>1, StepTypes

(* A refill and the opening of the breaker are no later than now.             *)
LEMMA GuardWaits == GuardTypeOK /\ UNCHANGED guardVars /\ Later => GuardTypeOK'
BY DEF GuardTypeOK, guardVars, bucket, breaker, calls, Later

(* An episode that overflowed is still dated no later than now.               *)
LEMMA ValidatorWaits == ValidatorTypeOK /\ UNCHANGED validatorVars /\ Later => ValidatorTypeOK'
<1> SUFFICES ASSUME ValidatorTypeOK, UNCHANGED validatorVars, Later
             PROVE  ValidatorTypeOK'
  OBVIOUS
<1> DEFINE E(n) == [kind : {"episode"}, slot : Slots, ts : 0 .. n]
<1>1. E(now) \subseteq E(now')
  BY DEF Later
<1>2. overflow \in Seq(E(now))
  BY DEF ValidatorTypeOK
<1> HIDE DEF E
<1>3. overflow \in Seq(E(now'))
  BY <1>1, <1>2
<1>4. UNCHANGED <<paused, queue, overflow, handed, job, worker, pictures, flagged, records>>
  BY DEF validatorVars, shadowVars, jobs, stamps
<1>5. overflow' \in Seq([kind : {"episode"}, slot : Slots, ts : 0 .. now'])
  BY <1>3, <1>4 DEF E
<1> QED
  BY <1>4, <1>5 DEF ValidatorTypeOK

(* A sample or a finding is still dated no later than now.                     *)
LEMMA WatchdogWaits == WatchdogTypeOK /\ UNCHANGED watchdogVars /\ Later => WatchdogTypeOK'
BY DEF WatchdogTypeOK, watchdogVars, Later

(* The feedback loop has no clock: a step of another changes nothing.          *)
LEMMA FeedbackWaits == FeedbackTypeOK /\ UNCHANGED feedbackVars => FeedbackTypeOK'
BY DEF FeedbackTypeOK, feedbackVars

(* So it is with the notifier,                                                 *)
LEMMA SlackWaits == SlackTypeOK /\ UNCHANGED slackVars => SlackTypeOK'
BY DEF SlackTypeOK, slackVars

(* and with the agents.                                                        *)
LEMMA AgentsWait == AgentTypeOK /\ UNCHANGED agentVars => AgentTypeOK'
BY DEF AgentTypeOK, agentVars, observerVars

(* A frame was taken no later than now.                                        *)
LEMMA PerceptionWaits == PerceptionTypeOK /\ UNCHANGED perceptionVars /\ Later => PerceptionTypeOK'
BY DEF PerceptionTypeOK, perceptionVars, operator, sight, Later

(* Each service keeps its types, and the one that runs what they follow from.  *)
ServicesInv ==
  /\ running \in Service /\ now \in Nat
  /\ ServicesTypeOK
  /\ running = "guard" => BucketInv
  /\ running = "validator" => QueueInv /\ StoreInv
  /\ running = "watchdog" => WatchdogInv
  /\ running = "feedback" => FeedbackInv
  /\ running = "slack" => SlackInv
  /\ running = "agents" => AgentInv
  /\ running = "perception" => PerceptionInv

(* Each service starts as its own specification says.                          *)
LEMMA InitServices == ServicesInit => ServicesInv
<1> SUFFICES ASSUME ServicesInit
             PROVE  ServicesInv
  OBVIOUS
<1> USE DEF ServicesInit
<1>1. running \in Service /\ now \in Nat
  BY DEF ClockInit
<1>2. TypeOK
  BY InitTypes
<1>3. BucketInv /\ GuardTypeOK
  <2>1. BucketInv
    BY BucketStart
  <2> QED
    BY <2>1 DEF BucketInv, GuardInit, GuardTypeOK
<1>4. QueueInv /\ StoreInv /\ ValidatorTypeOK
  BY InitQueue, InitStore, ValidatorHolds
<1>5. WatchdogInv /\ WatchdogTypeOK
  BY InitWatchdog, WatchdogHolds
<1>6. FeedbackInv /\ FeedbackTypeOK
  BY InitFeedback, FeedbackHolds
<1>7. SlackInv /\ SlackTypeOK
  BY InitSlack, SlackHolds
<1>8. AgentInv /\ AgentTypeOK
  BY InitAgents, AgentsHold
<1>9. PerceptionInv /\ PerceptionTypeOK
  BY InitPerception, PerceptionHolds
<1> QED
  BY <1>1, <1>2, <1>3, <1>4, <1>5, <1>6, <1>7, <1>8, <1>9 DEF ServicesInv, ServicesTypeOK

(* Whichever service steps: its types follow from its invariant, those of the  *)
(* others stay.                                                                *)
LEMMA ServicesStep == ServicesInv /\ [ServicesNext]_servicesVars => ServicesInv'
<1> SUFFICES ASSUME ServicesInv, [ServicesNext]_servicesVars
             PROVE  ServicesInv'
  OBVIOUS
<1>0. running \in Service /\ now \in Nat /\ ServicesTypeOK
  BY DEF ServicesInv
<1> USE DEF ServicesTypeOK
<1>1. CASE /\ running = "feed" /\ Next
           /\ UNCHANGED <<guardVars, validatorVars, watchdogVars, feedbackVars, slackVars,
                         agentVars, perceptionVars, now, running>>
  <2>1. Later
    BY <1>0, <1>1 DEF Later
  <2>2. TypeOK'
    BY <1>0, <1>1, StepTypes
  <2>3. ServicesTypeOK'
    BY <1>0, <1>1, <2>1, <2>2, GuardWaits, ValidatorWaits, WatchdogWaits, FeedbackWaits,
       SlackWaits, AgentsWait, PerceptionWaits
  <2> QED
    BY <1>0, <1>1, <2>3 DEF ServicesInv
<1>2. CASE /\ running = "guard" /\ GuardNext
           /\ UNCHANGED <<vars, validatorVars, watchdogVars, feedbackVars, slackVars,
                         agentVars, perceptionVars, running>>
  <2>1. Later
    BY <1>0, <1>2, ClockGoesOn
  <2>2. BucketInv' /\ GuardTypeOK'
    BY <1>0, <1>2, BucketStep, TypesStep DEF ServicesInv
  <2>3. ServicesTypeOK'
    BY <1>0, <1>2, <2>1, <2>2, FeedWaits, ValidatorWaits, WatchdogWaits, FeedbackWaits,
       SlackWaits, AgentsWait, PerceptionWaits
  <2> QED
    BY <1>0, <1>2, <2>1, <2>2, <2>3 DEF ServicesInv, Later
<1>3. CASE /\ running = "validator" /\ ValidatorNext
           /\ UNCHANGED <<vars, guardVars, watchdogVars, feedbackVars, slackVars,
                         agentVars, perceptionVars, running>>
  <2>1. Later
    BY <1>0, <1>3, ClockGoesOn
  <2>2. QueueInv' /\ StoreInv'
    BY <1>3, NextQueue, NextStore DEF ServicesInv
  <2>3. ValidatorTypeOK'
    BY <2>2, ValidatorHolds, PTL
  <2>4. ServicesTypeOK'
    BY <1>0, <1>3, <2>1, <2>3, FeedWaits, GuardWaits, WatchdogWaits, FeedbackWaits,
       SlackWaits, AgentsWait, PerceptionWaits
  <2> QED
    BY <1>0, <1>3, <2>1, <2>2, <2>4 DEF ServicesInv, Later
<1>4. CASE /\ running = "watchdog" /\ WatchdogNext
           /\ UNCHANGED <<vars, guardVars, validatorVars, feedbackVars, slackVars,
                         agentVars, perceptionVars, running>>
  <2>1. Later
    BY <1>0, <1>4, ClockGoesOn
  <2>2. WatchdogInv'
    BY <1>4, WatchdogStep DEF ServicesInv
  <2>3. WatchdogTypeOK'
    BY <2>2, WatchdogHolds, PTL
  <2>4. ServicesTypeOK'
    BY <1>0, <1>4, <2>1, <2>3, FeedWaits, GuardWaits, ValidatorWaits, FeedbackWaits,
       SlackWaits, AgentsWait, PerceptionWaits
  <2> QED
    BY <1>0, <1>4, <2>1, <2>2, <2>4 DEF ServicesInv, Later
<1>5. CASE /\ running = "feedback" /\ FeedbackNext
           /\ UNCHANGED <<vars, guardVars, validatorVars, watchdogVars, slackVars,
                         agentVars, perceptionVars, now, running>>
  <2>1. Later
    BY <1>0, <1>5 DEF Later
  <2>2. FeedbackInv'
    BY <1>5, FeedbackStep DEF ServicesInv
  <2>3. FeedbackTypeOK'
    BY <2>2, FeedbackHolds, PTL
  <2>4. ServicesTypeOK'
    BY <1>0, <1>5, <2>1, <2>3, FeedWaits, GuardWaits, ValidatorWaits, WatchdogWaits,
       SlackWaits, AgentsWait, PerceptionWaits
  <2> QED
    BY <1>0, <1>5, <2>1, <2>2, <2>4 DEF ServicesInv, Later
<1>6. CASE /\ running = "slack" /\ SlackNext
           /\ UNCHANGED <<vars, guardVars, validatorVars, watchdogVars, feedbackVars,
                         agentVars, perceptionVars, running>>
  <2>1. SlackInv' /\ Later
    BY <1>0, <1>6, SlackStep DEF ServicesInv, Later
  <2>2. SlackTypeOK'
    BY <2>1, SlackHolds, PTL
  <2>3. ServicesTypeOK'
    BY <1>0, <1>6, <2>1, <2>2, FeedWaits, GuardWaits, ValidatorWaits, WatchdogWaits,
       FeedbackWaits, AgentsWait, PerceptionWaits
  <2> QED
    BY <1>0, <1>6, <2>1, <2>3 DEF ServicesInv, Later
<1>7. CASE /\ running = "agents" /\ AgentNext
           /\ UNCHANGED <<vars, guardVars, validatorVars, watchdogVars, feedbackVars,
                         slackVars, perceptionVars, now, running>>
  <2>1. Later
    BY <1>0, <1>7 DEF Later
  <2>2. AgentInv'
    BY <1>7, AgentStep DEF ServicesInv
  <2>3. AgentTypeOK'
    BY <2>2, AgentsHold, PTL
  <2>4. ServicesTypeOK'
    BY <1>0, <1>7, <2>1, <2>3, FeedWaits, GuardWaits, ValidatorWaits, WatchdogWaits,
       FeedbackWaits, SlackWaits, PerceptionWaits
  <2> QED
    BY <1>0, <1>7, <2>1, <2>2, <2>4 DEF ServicesInv, Later
<1>8. CASE /\ running = "perception" /\ PerceptionNext
           /\ UNCHANGED <<vars, guardVars, validatorVars, watchdogVars, feedbackVars,
                         slackVars, agentVars, running>>
  <2>1. PerceptionInv' /\ Later
    BY <1>0, <1>8, PerceptionStep DEF ServicesInv, Later
  <2>2. PerceptionTypeOK'
    BY <2>1, PerceptionHolds, PTL
  <2>3. ServicesTypeOK'
    BY <1>0, <1>8, <2>1, <2>2, FeedWaits, GuardWaits, ValidatorWaits, WatchdogWaits,
       FeedbackWaits, SlackWaits, AgentsWait
  <2> QED
    BY <1>0, <1>8, <2>1, <2>3 DEF ServicesInv, Later
<1>9. CASE UNCHANGED servicesVars
  <2>1. UNCHANGED <<vars, guardVars, validatorVars, watchdogVars, feedbackVars,
                    slackVars, agentVars, perceptionVars, now, running>>
    BY <1>9 DEF servicesVars
  <2>2. Later
    BY <1>0, <2>1 DEF Later
  <2>3. ServicesTypeOK'
    BY <1>0, <2>1, <2>2, FeedWaits, GuardWaits, ValidatorWaits, WatchdogWaits,
       FeedbackWaits, SlackWaits, AgentsWait, PerceptionWaits
  <2>4. /\ running = "guard" => BucketInv'
        /\ running = "validator" => QueueInv' /\ StoreInv'
        /\ running = "watchdog" => WatchdogInv'
        /\ running = "feedback" => FeedbackInv'
    BY <2>1, BucketStep, NextQueue, NextStore, WatchdogStep, FeedbackStep DEF ServicesInv
  <2>5. /\ running = "slack" => SlackInv'
        /\ running = "agents" => AgentInv'
        /\ running = "perception" => PerceptionInv'
    BY <2>1, SlackStep, AgentStep, PerceptionStep DEF ServicesInv
  <2> QED
    BY <1>0, <2>1, <2>2, <2>3, <2>4, <2>5 DEF ServicesInv, Later
<1> QED
  BY <1>1, <1>2, <1>3, <1>4, <1>5, <1>6, <1>7, <1>8, <1>9 DEF ServicesNext

(* ServicesTypeOK: whichever service of the edge process steps, each holds     *)
(* what its code can put in its variables: no buffer grows past its limit, no  *)
(* score or bucket leaves its range, nothing is dated after now, no post is of *)
(* an event that was not emitted.                                              *)
THEOREM ServicesTypeCorrect == ServicesSpec => []ServicesTypeOK
<1>1. ServicesInv => ServicesTypeOK
  BY DEF ServicesInv
<1> QED
  BY <1>1, InitServices, ServicesStep, PTL DEF ServicesSpec
-----------------------------------------------------------------------------
(* What the services promise, together.                                        *)

(* Whatever the service that runs does, the feed, the feedback loop and the    *)
(* agents, which look at no clock, take a step of their own or none.           *)
LEMMA StepsOfTheClockless ==
  [ServicesNext]_servicesVars =>
    [Next]_vars /\ [FeedbackNext]_feedbackVars /\ [AgentNext]_agentVars
BY DEF ServicesNext, servicesVars

(* Which service runs.                                                         *)
Runs(service) == running = service

(* The others take a step of their own if they run and none if they do not.    *)
LEMMA StepsOfTheTimed ==
  /\ Runs("guard") /\ [ServicesNext]_servicesVars
       => [GuardNext]_<<guardVars, now>> /\ Runs("guard")'
  /\ Runs("validator") /\ [ServicesNext]_servicesVars
       => [ValidatorNext]_<<validatorVars, now>> /\ Runs("validator")'
  /\ Runs("watchdog") /\ [ServicesNext]_servicesVars
       => [WatchdogNext]_<<watchdogVars, now>> /\ Runs("watchdog")'
  /\ Runs("slack") /\ [ServicesNext]_servicesVars
       => [SlackNext]_<<slackVars, now>> /\ Runs("slack")'
  /\ Runs("perception") /\ [ServicesNext]_servicesVars
       => [PerceptionNext]_<<perceptionVars, now>> /\ Runs("perception")'
BY DEF Runs, ServicesNext, servicesVars

(* A service that does not run waits, and never runs.                          *)
LEMMA OthersWait ==
  /\ ~Runs("guard") /\ [ServicesNext]_servicesVars
       => UNCHANGED guardVars /\ ~Runs("guard")'
  /\ ~Runs("validator") /\ [ServicesNext]_servicesVars
       => UNCHANGED validatorVars /\ ~Runs("validator")'
  /\ ~Runs("watchdog") /\ [ServicesNext]_servicesVars
       => UNCHANGED watchdogVars /\ ~Runs("watchdog")'
  /\ ~Runs("slack") /\ [ServicesNext]_servicesVars
       => UNCHANGED slackVars /\ ~Runs("slack")'
  /\ ~Runs("perception") /\ [ServicesNext]_servicesVars
       => UNCHANGED perceptionVars /\ ~Runs("perception")'
BY DEF Runs, ServicesNext, servicesVars

(* Every behaviour of the services together is one of each that has no clock,  *)
(* and one of the service that runs.                                           *)
THEOREM EachKeepsItsSpec ==
  ServicesSpec =>
    /\ Spec /\ FeedbackSpec /\ AgentSpec
    /\ Runs("guard") => GuardSpec
    /\ Runs("validator") => ValidatorSpec
    /\ Runs("watchdog") => WatchdogSpec
    /\ Runs("slack") => SlackSpec
    /\ Runs("perception") => PerceptionSpec
<1>1. ServicesInit => /\ Init /\ GuardInit /\ ValidatorInit /\ WatchdogInit /\ FeedbackInit
                      /\ SlackInit /\ AgentInit /\ PerceptionInit /\ ClockInit
  BY DEF ServicesInit
<1>2. ServicesSpec => Spec /\ FeedbackSpec /\ AgentSpec
  BY <1>1, StepsOfTheClockless, PTL DEF ServicesSpec, Spec, FeedbackSpec, AgentSpec
<1>3. ServicesSpec => (Runs("guard") => GuardSpec)
  BY <1>1, StepsOfTheTimed, PTL DEF ServicesSpec, GuardSpec
<1>4. ServicesSpec => (Runs("validator") => ValidatorSpec)
  BY <1>1, StepsOfTheTimed, PTL DEF ServicesSpec, ValidatorSpec
<1>5. ServicesSpec => (Runs("watchdog") => WatchdogSpec)
  BY <1>1, StepsOfTheTimed, PTL DEF ServicesSpec, WatchdogSpec
<1>6. ServicesSpec => (Runs("slack") => SlackSpec)
  BY <1>1, StepsOfTheTimed, PTL DEF ServicesSpec, SlackSpec
<1>7. ServicesSpec => (Runs("perception") => PerceptionSpec)
  BY <1>1, StepsOfTheTimed, PTL DEF ServicesSpec, PerceptionSpec
<1> QED
  BY <1>2, <1>3, <1>4, <1>5, <1>6, <1>7

(* A service that has yet to run has broken no promise: a bucket that gave     *)
(* nothing, at whatever time,                                                  *)
LEMMA NothingGiven == GuardInit /\ now \in Nat => BudgetKept
<1> SUFFICES ASSUME GuardInit, now \in Nat, NEW t \in 0 .. GuardEnd, t <= now
             PROVE  spent - spentBefore[t] <= capacity + (now - t) * Refill
  BY DEF BudgetKept, GuardInit
<1>1. spent = 0 /\ spentBefore[t] = 0 /\ capacity \in Nat
  BY GuardAssumption DEF GuardInit
<1>2. now - t \in Nat
  BY GuardAssumption
<1>3. (now - t) * Refill \in Nat
  BY <1>2, Inflow
<1> HIDE DEF GuardInit
<1> QED
  BY <1>1, <1>3

(* an empty file, no alert and a controller that has judged no speed.          *)
LEMMA NothingPromised ==
  /\ WatchdogInit => IncidentsSummariseFile
  /\ SlackInit => AlertsAccounted
  /\ PerceptionInit => BandFollowsSpeed
  /\ ValidatorInit /\ ClockInit => EpisodesGoFirst
  /\ ValidatorInit => PicturesMatchRecords
<1>1. WatchdogInit => IncidentsSummariseFile
  <2>1. <<>> \in Seq(Finding)
    OBVIOUS
  <2>2. WatchdogInit => file \in Seq(Finding)
    BY <2>1 DEF WatchdogInit
  <2> QED
    BY <2>2, FileIsSummarised
<1>2. SlackInit => AlertsAccounted
  BY InitAlerts, AlertsInPlaces
<1>3. PerceptionInit => BandFollowsSpeed
  BY DEF PerceptionInit, BandFollowsSpeed
<1>4. ValidatorInit /\ ClockInit => EpisodesGoFirst
  BY InitQueue, InitAccepted, AcceptedGoFirst
<1>5. ValidatorInit => PicturesMatchRecords
  BY InitStore, RangeIsToSet DEF StoreInv, PicturesMatchRecords, Load
<1> QED
  BY <1>1, <1>2, <1>3, <1>4, <1>5

(* A service that waits stays as it was.                                       *)
LEMMA WaitersStay ==
  /\ GuardInit /\ UNCHANGED guardVars => GuardInit'
  /\ WatchdogInit /\ UNCHANGED watchdogVars => WatchdogInit'
  /\ SlackInit /\ UNCHANGED slackVars => SlackInit'
  /\ PerceptionInit /\ UNCHANGED perceptionVars => PerceptionInit'
  /\ EpisodesGoFirst /\ UNCHANGED validatorVars => EpisodesGoFirst'
  /\ PicturesMatchRecords /\ UNCHANGED validatorVars => PicturesMatchRecords'
<1>1. GuardInit /\ UNCHANGED guardVars => GuardInit'
  BY DEF GuardInit, guardVars, bucket, breaker, calls
<1>2. WatchdogInit /\ UNCHANGED watchdogVars => WatchdogInit'
  BY DEF WatchdogInit, watchdogVars
<1>3. SlackInit /\ UNCHANGED slackVars => SlackInit'
  BY DEF SlackInit, slackVars
<1>4. PerceptionInit /\ UNCHANGED perceptionVars => PerceptionInit'
  BY DEF PerceptionInit, perceptionVars, operator, sight
<1>5. EpisodesGoFirst /\ UNCHANGED validatorVars => EpisodesGoFirst'
  BY DEF EpisodesGoFirst, validatorVars, jobs
<1>6. PicturesMatchRecords /\ UNCHANGED validatorVars => PicturesMatchRecords'
  BY DEF PicturesMatchRecords, Listed, Load, validatorVars, shadowVars
<1> QED
  BY <1>1, <1>2, <1>3, <1>4, <1>5, <1>6

(* What the run of all services checks holds for every value of the constants: *)
(* ids, order and completeness of the feed, the budget of the LLM calls, the   *)
(* order of the validator's jobs and its pictures, the incidents, the alerts,  *)
(* the records of the agents' calls and the rate band.                         *)
THEOREM PromisesKept ==
  ServicesSpec => [](/\ IdsUnique /\ BufferEndsCloud /\ NoHole /\ SentInOrder
                     /\ BudgetKept /\ EpisodesGoFirst /\ PicturesMatchRecords
                     /\ IncidentsSummariseFile /\ AlertsAccounted /\ AgentsAccounted
                     /\ BandFollowsSpeed)
<1>1. ServicesSpec => [](IdsUnique /\ BufferEndsCloud /\ NoHole /\ SentInOrder /\ AgentsAccounted)
  BY EachKeepsItsSpec, IdsRepeatOnlyInFlight, BufferFollowed, NothingMissed, SentOnceInOrder,
     RunsAccounted, PTL
<1>2. ServicesSpec => [](now \in Nat)
  <2>1. ServicesInv => now \in Nat
    BY DEF ServicesInv
  <2> QED
    BY <2>1, InitServices, ServicesStep, PTL DEF ServicesSpec
<1>3. ServicesInit => /\ GuardInit /\ ValidatorInit /\ WatchdogInit /\ SlackInit
                      /\ PerceptionInit /\ ClockInit
  BY DEF ServicesInit
<1>4. ServicesSpec => []BudgetKept
  BY <1>2, <1>3, EachKeepsItsSpec, BucketKeepsBudget, NothingGiven, OthersWait, WaitersStay, PTL
     DEF ServicesSpec
<1>5. ServicesSpec => [](EpisodesGoFirst /\ PicturesMatchRecords)
  BY <1>3, EachKeepsItsSpec, EpisodesTakenFirst, PicturesKept, NothingPromised, OthersWait,
     WaitersStay, PTL DEF ServicesSpec
<1>6. ServicesSpec => []IncidentsSummariseFile
  BY <1>3, EachKeepsItsSpec, IncidentsTellTheFile, NothingPromised, OthersWait, WaitersStay, PTL
     DEF ServicesSpec
<1>7. ServicesSpec => []AlertsAccounted
  BY <1>3, EachKeepsItsSpec, AlertsInOnePlace, NothingPromised, OthersWait, WaitersStay, PTL
     DEF ServicesSpec
<1>8. ServicesSpec => []BandFollowsSpeed
  BY <1>3, EachKeepsItsSpec, BandJustified, NothingPromised, OthersWait, WaitersStay, PTL
     DEF ServicesSpec
<1> QED
  BY <1>1, <1>4, <1>5, <1>6, <1>7, <1>8, PTL

(* The same of what no step may do: begin an enrichment after failures in a    *)
(* row, report a frame near an event, or lose a sample that was not exported.  *)
THEOREM StepsKeepPromises ==
  ServicesSpec => RestsAfterFailures /\ MissedFramesAreQuiet /\ SamplesLeaveByExport
<1>1. ServicesSpec => SamplesLeaveByExport
  BY EachKeepsItsSpec, SamplesArchived
<1>2. ServicesSpec => RestsAfterFailures
  <2>1. ASSUME UNCHANGED guardVars
        PROVE  [\A c \in Enrichment : stage[c] = "idle" /\ stage'[c] # "idle" => ~Tripped]_guardVars
    BY <2>1
  <2> QED
    BY <2>1, EachKeepsItsSpec, BreakerRests, OthersWait, PTL DEF ServicesSpec, RestsAfterFailures
<1>3. ServicesSpec => MissedFramesAreQuiet
  <2>1. ASSUME UNCHANGED validatorVars
        PROVE  [\A id \in flagged' \ flagged : \A e \in events :
                  e.slot = id.slot => id.ts - e.ts >= Window]_validatorVars
    BY <2>1
  <2> QED
    BY <2>1, EachKeepsItsSpec, QuietFrames, OthersWait, PTL DEF ServicesSpec, MissedFramesAreQuiet
<1> QED
  BY <1>1, <1>2, <1>3
==============================================================================
