--------------------------- MODULE Episodes_proofs ---------------------------
(* Theorems about Episodes: what an episode and its event say of the frames,   *)
(* how far the events of a pair are apart, and what is left open.              *)
EXTENDS Episodes, FiniteSetTheorems, TLAPS

(* What becomes of the episode of one pair in a frame.                         *)
Stays(k) ==
  /\ episodes'[k] = episodes[k] /\ frames'[k] = frames[k]
  /\ cooldown'[k] = cooldown[k] /\ event'[k] = event[k]
  /\ episodes[k] = None \/ ~(now - episodes[k].last >= IdleFlush) \/ failed'

Breaks(k) ==
  /\ episodes[k] # None /\ episodes'[k] = [episodes[k] EXCEPT !.emitted = TRUE]
  /\ frames'[k] = frames[k] /\ cooldown'[k] = cooldown[k] /\ event'[k] = event[k]
  /\ failed'

Extends(k, o) ==
  /\ ~Muted(k)
  /\ \/ episodes[k] = None /\ episodes'[k] = Opened(o.risk, o.distance)
     \/ episodes[k] # None /\ episodes'[k] = Updated(episodes[k], o.risk, o.distance)
  /\ frames'[k] = frames[k] \cup {[at |-> now, risk |-> o.risk, distance |-> o.distance]}
  /\ cooldown'[k] = cooldown[k] /\ event'[k] = event[k]

Ends(k) ==
  /\ episodes[k] # None /\ episodes'[k] = None /\ frames'[k] = {}
  /\ cooldown'[k] = now + PairCooldown
  /\ event'[k] = IF episodes[k].emitted THEN event[k] ELSE EventOf(episodes[k])

OfRisk(F, r) == {f \in F : f.risk = r}

(* The episode ep is made of the frames F.                                     *)
MadeOf(ep, F) ==
  /\ \E f \in F : f.at = ep.started
  /\ \E f \in F : f.at = ep.last
  /\ \A f \in F : ep.started <= f.at /\ f.at <= ep.last
  /\ \A r \in Risk : ep.counts[r] = Cardinality(OfRisk(F, r))
  /\ \A f \in F : Rank[f.risk] <= Rank[ep.peak]
  /\ \A f \in F : f.risk = ep.peak => ep.nearest <= f.distance
  /\ \E f \in F : f.risk = ep.peak /\ f.distance = ep.nearest

ClockInv ==
  /\ now \in 0 .. MaxTime /\ lastFrame \in 0 .. MaxTime /\ lastFrame <= now
  /\ setting \in Nat /\ failed \in BOOLEAN
  /\ cooldown \in [Key -> Nat]

FramesInv(k) ==
  /\ frames[k] \subseteq Frame /\ IsFiniteSet(frames[k])
  /\ \A f \in frames[k] : f.at <= lastFrame

EpisodeInv(k) ==
  \/ episodes[k] = None /\ frames[k] = {}
  \/ /\ episodes[k] \in Episode /\ MadeOf(episodes[k], frames[k])
     /\ ~failed => lastFrame - episodes[k].last < IdleFlush

EventInv(k) ==
  \/ event[k] = None
  \/ /\ event[k] \in Event
     /\ event[k].at <= lastFrame
     /\ cooldown[k] >= event[k].at + PairCooldown
     /\ episodes[k] # None => episodes[k].started >= event[k].at + PairCooldown

Inv == ClockInv /\ \A k \in Key : FramesInv(k) /\ EpisodeInv(k) /\ EventInv(k)
-----------------------------------------------------------------------------
(* In a frame, the episode of a pair stays, stays marked, ends, or takes in an *)
(* observation.                                                                *)
LEMMA FrameStep ==
  ASSUME OnFrame, NEW k \in Key
  PROVE  \/ Stays(k) \/ Breaks(k) \/ Ends(k)
         \/ \E o \in Observation : Extends(k, o)
<1>1. PICK K \in SUBSET Key : \E seen \in [K -> Observation] :
        \/ Flush(seen, IdleKeys(seen), {}) /\ failed' = FALSE
        \/ \E b \in IdleKeys(seen) : \E done \in SUBSET (IdleKeys(seen) \ {b}) :
             Flush(seen, done, {b}) /\ failed' = TRUE
  BY DEF OnFrame
<1>2. PICK seen \in [K -> Observation] :
        \/ Flush(seen, IdleKeys(seen), {}) /\ failed' = FALSE
        \/ \E b \in IdleKeys(seen) : \E done \in SUBSET (IdleKeys(seen) \ {b}) :
             Flush(seen, done, {b}) /\ failed' = TRUE
  BY <1>1
<1>3. \E done, broken \in SUBSET IdleKeys(seen) :
        /\ Flush(seen, done, broken) /\ done \cap broken = {}
        /\ done = IdleKeys(seen) \/ failed'
        /\ broken # {} => failed'
  <2>1. CASE Flush(seen, IdleKeys(seen), {}) /\ failed' = FALSE
    BY <2>1
  <2>2. CASE \E b \in IdleKeys(seen) : \E done \in SUBSET (IdleKeys(seen) \ {b}) :
               Flush(seen, done, {b}) /\ failed' = TRUE
    <3>1. PICK b \in IdleKeys(seen) : \E done \in SUBSET (IdleKeys(seen) \ {b}) :
            Flush(seen, done, {b}) /\ failed' = TRUE
      BY <2>2
    <3>2. PICK done \in SUBSET (IdleKeys(seen) \ {b}) :
            Flush(seen, done, {b}) /\ failed' = TRUE
      BY <3>1
    <3>3. done \in SUBSET IdleKeys(seen) /\ {b} \in SUBSET IdleKeys(seen) /\ done \cap {b} = {}
      BY <3>2
    <3> QED
      BY <3>2, <3>3
  <2> QED
    BY <1>2, <2>1, <2>2
<1>4. PICK done, broken \in SUBSET IdleKeys(seen) :
        /\ Flush(seen, done, broken) /\ done \cap broken = {}
        /\ done = IdleKeys(seen) \/ failed'
        /\ broken # {} => failed'
  BY <1>3
<1> DEFINE told == k \in DOMAIN seen /\ ~Muted(k)
<1>5. k \in IdleKeys(seen) <=>
        episodes[k] # None /\ ~told /\ now - episodes[k].last >= IdleFlush
  BY DEF IdleKeys
<1>6. TakeIn(seen)[k] = IF ~told THEN episodes[k]
                        ELSE IF episodes[k] = None THEN Opened(seen[k].risk, seen[k].distance)
                        ELSE Updated(episodes[k], seen[k].risk, seen[k].distance)
  BY DEF TakeIn
<1>7. CASE k \in done
  <2>1. Ends(k)
    BY <1>4, <1>5, <1>7 DEF Flush, Ends
  <2> QED
    BY <2>1
<1>8. CASE k \in broken
  <2>1. k \notin done /\ ~told /\ episodes[k] # None
    BY <1>4, <1>5, <1>8
  <2>2. Breaks(k)
    BY <1>4, <1>6, <1>8, <2>1 DEF Flush, Breaks
  <2> QED
    BY <2>2
<1>9. CASE k \notin done /\ k \notin broken /\ told
  <2>1. seen[k] \in Observation
    BY <1>9
  <2>2. Extends(k, seen[k])
    BY <1>4, <1>6, <1>9 DEF Flush, Extends
  <2> QED
    BY <2>1, <2>2
<1>10. CASE k \notin done /\ k \notin broken /\ ~told
  <2>1. Stays(k)
    <3>1. /\ episodes'[k] = episodes[k] /\ frames'[k] = frames[k]
          /\ cooldown'[k] = cooldown[k] /\ event'[k] = event[k]
      BY <1>4, <1>6, <1>10 DEF Flush
    <3>2. episodes[k] = None \/ ~(now - episodes[k].last >= IdleFlush) \/ failed'
      BY <1>4, <1>5, <1>10
    <3> QED
      BY <3>1, <3>2 DEF Stays
  <2> QED
    BY <2>1
<1> QED
  BY <1>7, <1>8, <1>9, <1>10
-----------------------------------------------------------------------------
(* Low is below medium, and medium below high.                                 *)
LEMMA RankFacts ==
  /\ \A r \in Risk : Rank[r] \in 0 .. 2
  /\ \A r, q \in Risk : Rank[r] = Rank[q] => r = q
  /\ Rank["low"] = 0 /\ Rank["medium"] = 1 /\ Rank["high"] = 2
BY DEF Risk, Rank

(* A set of frames grows by one that is not among them.                        *)
LEMMA CountsGrow ==
  ASSUME NEW F, IsFiniteSet(F), NEW x, x \notin F, NEW r
  PROVE  Cardinality(OfRisk(F \cup {x}, r))
           = Cardinality(OfRisk(F, r)) + (IF x.risk = r THEN 1 ELSE 0)
<1> DEFINE A == OfRisk(F, r)
           B == OfRisk(F \cup {x}, r)
<1>1. IsFiniteSet(A) /\ Cardinality(A) \in Nat
  <2>1. A \in SUBSET F
    BY DEF OfRisk
  <2> QED
    BY <2>1, FS_Subset, FS_CardinalityType
<1>2. CASE x.risk = r
  <2>1. B = A \cup {x} /\ x \notin A
    BY <1>2 DEF OfRisk
  <2>2. Cardinality(A \cup {x}) = Cardinality(A) + 1
    BY <1>1, <2>1, FS_AddElement
  <2> QED
    BY <1>2, <2>1, <2>2
<1>3. CASE x.risk # r
  <2>1. B = A
    BY <1>3 DEF OfRisk
  <2> QED
    BY <1>1, <1>3, <2>1
<1> QED
  BY <1>2, <1>3

(* A new episode is made of its first frame.                                   *)
LEMMA OpenedMade ==
  ASSUME NEW o \in Observation, now \in Nat
  PROVE  LET x == [at |-> now, risk |-> o.risk, distance |-> o.distance]
         IN /\ Opened(o.risk, o.distance) \in Episode
            /\ Opened(o.risk, o.distance).started = now
            /\ Opened(o.risk, o.distance).last = now
            /\ MadeOf(Opened(o.risk, o.distance), {x})
<1> DEFINE x == [at |-> now, risk |-> o.risk, distance |-> o.distance]
           ep == Opened(o.risk, o.distance)
<1>1. o.risk \in Risk /\ o.distance \in Nat
  BY EpisodesAssumption DEF Observation
<1>2. ep.started = now /\ ep.last = now /\ ep.peak = o.risk /\ ep.nearest = o.distance
      /\ \A r \in Risk : ep.counts[r] = IF r = o.risk THEN 1 ELSE 0
  BY DEF Opened
<1>3. ep \in Episode
  <2>1. [r \in Risk |-> IF r = o.risk THEN 1 ELSE 0] \in [Risk -> Nat]
    OBVIOUS
  <2> QED
    BY <1>1, <2>1 DEF Opened, Episode
<1>4. ASSUME NEW r \in Risk
      PROVE  ep.counts[r] = Cardinality(OfRisk({x}, r))
  <2>1. x \notin {} /\ IsFiniteSet({})
    BY FS_EmptySet
  <2>2. x.risk = o.risk
    OBVIOUS
  <2> HIDE DEF x
  <2>3. Cardinality(OfRisk({} \cup {x}, r))
          = Cardinality(OfRisk({}, r)) + (IF x.risk = r THEN 1 ELSE 0)
    BY <2>1, CountsGrow
  <2>4. OfRisk({}, r) = {} /\ {} \cup {x} = {x} /\ Cardinality({}) = 0
    BY FS_EmptySet DEF OfRisk
  <2> QED
    BY <1>2, <2>2, <2>3, <2>4
<1>5. Rank[o.risk] <= Rank[o.risk]
  BY <1>1, RankFacts
<1> QED
  BY <1>1, <1>2, <1>3, <1>4, <1>5 DEF MadeOf

(* What an observation changes of an episode.                                  *)
LEMMA UpdatedFields ==
  ASSUME NEW ep \in Episode, NEW o \in Observation, now \in Nat
  PROVE  LET u == Updated(ep, o.risk, o.distance)
             worse == IsNewPeak(ep, o.risk, o.distance)
         IN /\ u \in Episode
            /\ u.started = ep.started /\ u.last = now
            /\ u.counts = [ep.counts EXCEPT ![o.risk] = ep.counts[o.risk] + 1]
            /\ u.peak = IF worse THEN o.risk ELSE ep.peak
            /\ u.nearest = IF worse THEN o.distance ELSE ep.nearest
<1> DEFINE worse == IsNewPeak(ep, o.risk, o.distance)
<1>1. o.risk \in Risk /\ o.distance \in Nat
  BY EpisodesAssumption DEF Observation
<1> HIDE DEF worse
<1>2. Updated(ep, o.risk, o.distance)
        = [ep EXCEPT !.last = now, !.counts[o.risk] = @ + 1,
                     !.peak = IF worse THEN o.risk ELSE @,
                     !.nearest = IF worse THEN o.distance ELSE @]
  BY DEF Updated, worse
<1>3. [ep.counts EXCEPT ![o.risk] = ep.counts[o.risk] + 1] \in [Risk -> Nat]
  BY <1>1 DEF Episode
<1> QED
  BY <1>1, <1>2, <1>3 DEF Episode, worse

(* An updated episode is made of its frames and the new one.                   *)
LEMMA UpdatedMade ==
  ASSUME NEW ep \in Episode, NEW o \in Observation, now \in Nat,
         NEW F \in SUBSET Frame, IsFiniteSet(F), MadeOf(ep, F),
         \A f \in F : f.at < now
  PROVE  LET x == [at |-> now, risk |-> o.risk, distance |-> o.distance]
         IN MadeOf(Updated(ep, o.risk, o.distance), F \cup {x})
<1> DEFINE x == [at |-> now, risk |-> o.risk, distance |-> o.distance]
           u == Updated(ep, o.risk, o.distance)
           worse == IsNewPeak(ep, o.risk, o.distance)
<1>1. o.risk \in Risk /\ o.distance \in Nat
  BY EpisodesAssumption DEF Observation
<1>2. /\ u \in Episode /\ u.started = ep.started /\ u.last = now
      /\ u.counts = [ep.counts EXCEPT ![o.risk] = ep.counts[o.risk] + 1]
      /\ u.peak = IF worse THEN o.risk ELSE ep.peak
      /\ u.nearest = IF worse THEN o.distance ELSE ep.nearest
  BY UpdatedFields
<1>3. x.at = now /\ x.risk = o.risk /\ x.distance = o.distance
  OBVIOUS
<1>4. /\ \A f \in F : f.at \in Nat /\ f.risk \in Risk /\ f.distance \in Nat
      /\ ep.peak \in Risk /\ ep.nearest \in Nat /\ ep.started \in Nat
      /\ ep.counts \in [Risk -> Nat]
  BY DEF Frame, Episode
<1>5. x \notin F
  BY <1>3, <1>4
<1> HIDE DEF x, u
<1>6. ASSUME NEW r \in Risk
      PROVE  u.counts[r] = Cardinality(OfRisk(F \cup {x}, r))
  <2>1. Cardinality(OfRisk(F \cup {x}, r))
          = Cardinality(OfRisk(F, r)) + (IF x.risk = r THEN 1 ELSE 0)
    BY <1>5, CountsGrow
  <2>2. ep.counts[r] = Cardinality(OfRisk(F, r)) /\ ep.counts[r] \in Nat
    BY <1>4 DEF MadeOf
  <2>3. u.counts[r] = ep.counts[r] + (IF o.risk = r THEN 1 ELSE 0)
    BY <1>1, <1>2, <1>4, <2>2
  <2> QED
    BY <1>3, <2>1, <2>2, <2>3
<1>7. /\ \E f \in F \cup {x} : f.at = u.started
      /\ \E f \in F \cup {x} : f.at = u.last
      /\ \A f \in F \cup {x} : u.started <= f.at /\ f.at <= u.last
  <2>1. PICK f \in F : f.at = ep.started
    BY DEF MadeOf
  <2>2. ep.started < now
    BY <2>1
  <2> QED
    BY <1>2, <1>3, <1>4, <2>1, <2>2 DEF MadeOf
<1>8. /\ \A f \in F \cup {x} : Rank[f.risk] <= Rank[u.peak]
      /\ \A f \in F \cup {x} : f.risk = u.peak => u.nearest <= f.distance
      /\ \E f \in F \cup {x} : f.risk = u.peak /\ f.distance = u.nearest
  <2>1. /\ \A f \in F : Rank[f.risk] <= Rank[ep.peak]
        /\ \A f \in F : f.risk = ep.peak => ep.nearest <= f.distance
        /\ \E f \in F : f.risk = ep.peak /\ f.distance = ep.nearest
    BY DEF MadeOf
  <2>2. \A r \in Risk : Rank[r] \in Int
    BY RankFacts
  <2>3. CASE Rank[o.risk] > Rank[ep.peak]
    <3>1. u.peak = o.risk /\ u.nearest = o.distance
      BY <1>2, <2>3 DEF IsNewPeak
    <3>2. \A f \in F : Rank[f.risk] < Rank[o.risk]
      BY <1>1, <1>4, <2>1, <2>2, <2>3
    <3>3. \A f \in F : f.risk # o.risk /\ Rank[f.risk] <= Rank[o.risk]
      BY <1>1, <1>4, <2>2, <3>2
    <3> QED
      BY <1>1, <1>3, <2>2, <3>1, <3>3
  <2>4. CASE o.risk = ep.peak /\ o.distance < ep.nearest
    <3>1. u.peak = ep.peak /\ u.nearest = o.distance
      BY <1>2, <2>4 DEF IsNewPeak
    <3>2. \A f \in F : f.risk = ep.peak => o.distance <= f.distance
      BY <1>1, <1>4, <2>1, <2>4
    <3> QED
      BY <1>1, <1>3, <2>1, <2>2, <2>4, <3>1, <3>2
  <2>5. CASE ~worse
    <3>1. u.peak = ep.peak /\ u.nearest = ep.nearest
      BY <1>2, <2>5
    <3>2. Rank[o.risk] <= Rank[ep.peak] /\ (o.risk = ep.peak => ep.nearest <= o.distance)
      BY <1>1, <1>4, <2>2, <2>5 DEF IsNewPeak
    <3> QED
      BY <1>3, <2>1, <3>1, <3>2
  <2> QED
    BY <2>3, <2>4, <2>5 DEF IsNewPeak
<1> QED
  BY <1>6, <1>7, <1>8 DEF MadeOf, x, u
-----------------------------------------------------------------------------
(* At the start there is no episode and no event.                              *)
LEMMA InitInv == Init => Inv
<1> SUFFICES ASSUME Init
             PROVE  Inv
  OBVIOUS
<1>1. ClockInv
  <2>1. now = 0 /\ lastFrame = 0 /\ failed = FALSE /\ setting = PairCooldown
    BY DEF Init
  <2>2. cooldown \in [Key -> Nat]
    BY DEF Init
  <2>3. failed \in BOOLEAN
    BY <2>1
  <2> QED
    BY <2>1, <2>2, <2>3, EpisodesAssumption DEF ClockInv
<1>2. ASSUME NEW k \in Key
      PROVE  FramesInv(k) /\ EpisodeInv(k) /\ EventInv(k)
  BY FS_EmptySet DEF Init, FramesInv, EpisodeInv, EventInv
<1> QED
  BY <1>1, <1>2 DEF Inv

(* Steps that touch no pair.                                                   *)
LEMMA AsideInv ==
  ASSUME Inv, Tick \/ ApplyCooldown \/ UNCHANGED vars
  PROVE  Inv'
<1>1. UNCHANGED <<episodes, cooldown, lastFrame, failed, frames, event>>
  BY DEF Tick, ApplyCooldown, vars
<1>2. now' \in 0 .. MaxTime /\ now <= now' /\ setting' \in Nat
  <2>1. now \in 0 .. MaxTime /\ MaxTime \in Nat /\ setting \in Nat
    BY EpisodesAssumption DEF Inv, ClockInv
  <2> QED
    BY <2>1, EpisodesAssumption DEF Tick, ApplyCooldown, vars
<1>3. ClockInv'
  BY <1>1, <1>2 DEF Inv, ClockInv
<1>4. \A k \in Key : FramesInv(k)' /\ EpisodeInv(k)' /\ EventInv(k)'
  BY <1>1 DEF Inv, FramesInv, EpisodeInv, EventInv
<1> QED
  BY <1>3, <1>4 DEF Inv

(* The reported risk is one of the three.                                      *)
LEMMA FinalRiskInRisk ==
  ASSUME NEW ep
  PROVE  FinalRisk(ep) \in Risk
BY DEF FinalRisk, Risk

(* What the event of an episode says of it.                                    *)
LEMMA EventOfEpisode ==
  ASSUME NEW ep \in Episode, now \in Nat
  PROVE  /\ EventOf(ep) \in Event /\ EventOf(ep) # None
         /\ EventOf(ep).at = now /\ EventOf(ep).started = ep.started
         /\ EventOf(ep).risk = FinalRisk(ep)
<1>1. FinalRisk(ep) \in Risk /\ ep.peak \in Risk /\ ep.started \in Nat /\ ep.last \in Nat
  BY FinalRiskInRisk DEF Episode
<1>2. EventOf(ep) \in Event
  BY <1>1 DEF EventOf, Event
<1> QED
  BY <1>2, NoneAssumption DEF EventOf

(* A frame keeps what episodes, events and cooldowns say of each other.        *)
LEMMA FrameInv == Inv /\ OnFrame => Inv'
<1> SUFFICES ASSUME Inv, OnFrame
             PROVE  Inv'
  OBVIOUS
<1>1. /\ lastFrame < now /\ lastFrame' = now /\ now' = now /\ setting' = setting
      /\ now \in Nat /\ lastFrame \in Nat /\ now \in 0 .. MaxTime
      /\ IdleFlush \in Nat \ {0} /\ PairCooldown \in Nat
  BY EpisodesAssumption DEF OnFrame, Inv, ClockInv
<1>2. ASSUME NEW k \in Key
      PROVE  FramesInv(k)' /\ EpisodeInv(k)' /\ EventInv(k)' /\ cooldown'[k] \in Nat
  <2>1. FramesInv(k) /\ EpisodeInv(k) /\ EventInv(k) /\ cooldown[k] \in Nat
    BY DEF Inv, ClockInv
  <2>2. \A f \in frames[k] : f.at \in Nat /\ f.at <= lastFrame
    BY <2>1 DEF FramesInv, Frame
  <2>3. event[k] = None \/ (event[k] \in Event /\ event[k].at \in Nat /\ event[k].at <= lastFrame)
    BY <2>1 DEF EventInv, Event
  <2>4. CASE Stays(k)
    <3>1. FramesInv(k)'
      BY <1>1, <2>1, <2>2, <2>4 DEF FramesInv, Stays
    <3>2. EpisodeInv(k)'
      <4>1. CASE episodes[k] = None
        BY <2>1, <2>4, <4>1, NoneAssumption DEF EpisodeInv, Stays
      <4>2. CASE episodes[k] # None
        <5>1. episodes[k] \in Episode /\ episodes[k].last \in Nat
          BY <2>1, <4>2 DEF EpisodeInv, Episode
        <5> QED
          BY <1>1, <2>1, <2>4, <4>2, <5>1 DEF EpisodeInv, Stays
      <4> QED
        BY <4>1, <4>2
    <3>3. EventInv(k)'
      BY <1>1, <2>1, <2>3, <2>4 DEF EventInv, Stays
    <3> QED
      BY <2>1, <2>4, <3>1, <3>2, <3>3 DEF Stays
  <2>5. CASE Breaks(k)
    <3>1. FramesInv(k)'
      BY <1>1, <2>1, <2>2, <2>5 DEF FramesInv, Breaks
    <3>2. /\ episodes[k] \in Episode /\ episodes'[k] \in Episode
          /\ MadeOf(episodes[k], frames[k]) /\ episodes'[k] # None
      BY <2>1, <2>5, NoneAssumption DEF EpisodeInv, Breaks, Episode
    <3>3. /\ episodes'[k].started = episodes[k].started /\ episodes'[k].last = episodes[k].last
          /\ episodes'[k].counts = episodes[k].counts /\ episodes'[k].peak = episodes[k].peak
          /\ episodes'[k].nearest = episodes[k].nearest
      BY <2>5, <3>2 DEF Breaks, Episode
    <3>4. MadeOf(episodes'[k], frames'[k])
      <4>1. frames'[k] = frames[k]
        BY <2>5 DEF Breaks
      <4> QED
        BY <3>2, <3>3, <4>1 DEF MadeOf
    <3>5. EpisodeInv(k)'
      BY <2>5, <3>2, <3>4 DEF EpisodeInv, Breaks, MadeOf
    <3>6. EventInv(k)'
      BY <1>1, <2>1, <2>3, <2>5, <3>3 DEF EventInv, Breaks
    <3> QED
      BY <2>1, <2>5, <3>1, <3>5, <3>6 DEF Breaks
  <2>6. ASSUME NEW o \in Observation, Extends(k, o)
        PROVE  FramesInv(k)' /\ EpisodeInv(k)' /\ EventInv(k)' /\ cooldown'[k] \in Nat
    <3> DEFINE x == [at |-> now, risk |-> o.risk, distance |-> o.distance]
    <3>1. x \in Frame /\ x.at = now
      BY <1>1, EpisodesAssumption DEF Observation, Frame
    <3>2. frames'[k] = frames[k] \cup {x} /\ cooldown'[k] = cooldown[k] /\ event'[k] = event[k]
      BY <2>6 DEF Extends
    <3> HIDE DEF x
    <3>3. FramesInv(k)'
      <4>1. IsFiniteSet(frames[k] \cup {x})
        BY <2>1, FS_AddElement DEF FramesInv
      <4> QED
        BY <1>1, <2>1, <2>2, <3>1, <3>2, <4>1 DEF FramesInv
    <3>4. /\ episodes'[k] \in Episode /\ MadeOf(episodes'[k], frames'[k])
          /\ episodes'[k].last = now
          /\ \/ episodes[k] = None /\ episodes'[k].started = now
             \/ episodes[k] # None /\ episodes'[k].started = episodes[k].started
      <4>1. CASE episodes[k] = None
        <5>1. frames[k] = {} /\ episodes'[k] = Opened(o.risk, o.distance)
          BY <2>1, <2>6, <4>1, NoneAssumption DEF EpisodeInv, Extends
        <5>2. frames'[k] = {x}
          BY <3>2, <5>1
        <5> QED
          BY <1>1, <4>1, <5>1, <5>2, OpenedMade DEF x
      <4>2. CASE episodes[k] # None
        <5>1. /\ episodes[k] \in Episode /\ MadeOf(episodes[k], frames[k])
              /\ episodes'[k] = Updated(episodes[k], o.risk, o.distance)
          BY <2>1, <2>6, <4>2 DEF EpisodeInv, Extends
        <5>2. frames[k] \in SUBSET Frame /\ IsFiniteSet(frames[k])
              /\ \A f \in frames[k] : f.at < now
          BY <1>1, <2>1, <2>2 DEF FramesInv
        <5>3. MadeOf(Updated(episodes[k], o.risk, o.distance), frames[k] \cup {x})
          BY <1>1, <5>1, <5>2, UpdatedMade DEF x
        <5>4. /\ Updated(episodes[k], o.risk, o.distance) \in Episode
              /\ Updated(episodes[k], o.risk, o.distance).started = episodes[k].started
              /\ Updated(episodes[k], o.risk, o.distance).last = now
          BY <1>1, <5>1, UpdatedFields
        <5> QED
          BY <3>2, <4>2, <5>1, <5>3, <5>4
      <4> QED
        BY <4>1, <4>2
    <3>5. EpisodeInv(k)'
      <4>1. lastFrame' - episodes'[k].last < IdleFlush
        BY <1>1, <3>4
      <4> QED
        BY <3>4, <4>1 DEF EpisodeInv, MadeOf
    <3>6. EventInv(k)'
      <4>1. ~(now < cooldown[k])
        BY <2>6 DEF Extends, Muted
      <4> QED
        BY <1>1, <2>1, <2>3, <3>2, <3>4, <4>1 DEF EventInv
    <3> QED
      BY <2>1, <3>2, <3>3, <3>5, <3>6
  <2>7. CASE Ends(k)
    <3>1. FramesInv(k)' /\ EpisodeInv(k)'
      BY <2>7, FS_EmptySet DEF Ends, FramesInv, EpisodeInv
    <3>2. cooldown'[k] = now + PairCooldown /\ episodes'[k] = None
      BY <2>7 DEF Ends
    <3>3. EventInv(k)'
      <4>1. CASE episodes[k].emitted
        <5>1. event'[k] = event[k]
          BY <2>7, <4>1 DEF Ends
        <5> QED
          BY <1>1, <2>3, <3>2, <5>1 DEF EventInv
      <4>2. CASE ~episodes[k].emitted
        <5>1. event'[k] = EventOf(episodes[k]) /\ episodes[k] \in Episode
          BY <2>1, <2>7, <4>2 DEF Ends, EpisodeInv
        <5>2. event'[k] \in Event /\ event'[k].at = now
          BY <1>1, <5>1, EventOfEpisode
        <5> QED
          BY <1>1, <3>2, <5>2 DEF EventInv
      <4> QED
        BY <4>1, <4>2
    <3> QED
      BY <1>1, <3>1, <3>2, <3>3
  <2> QED
    BY <2>4, <2>5, <2>6, <2>7, FrameStep
<1>3. ClockInv'
  <2>1. cooldown' \in [Key -> Nat]
    <3>1. \E D \in SUBSET Key : cooldown' = [k \in Key |-> IF k \in D THEN now + PairCooldown
                                                           ELSE cooldown[k]]
      BY DEF OnFrame, Flush, IdleKeys
    <3> QED
      BY <1>1, <3>1 DEF Inv, ClockInv
  <2>2. failed' \in BOOLEAN
    BY DEF OnFrame
  <2> QED
    BY <1>1, <2>1, <2>2 DEF Inv, ClockInv
<1> QED
  BY <1>2, <1>3 DEF Inv

(* Inv is inductive.                                                           *)
LEMMA InvKept == Spec => []Inv
<1>1. Inv /\ [Next]_vars => Inv'
  BY AsideInv, FrameInv DEF Next
<1> QED
  BY <1>1, InitInv, PTL DEF Spec
-----------------------------------------------------------------------------
(* TypeOK, for any set of pairs, settings and length of behaviour.             *)
THEOREM TypeCorrect == Spec => []TypeOK
<1>1. Inv => TypeOK
  BY DEF Inv, ClockInv, FramesInv, EpisodeInv, EventInv, TypeOK
<1> QED
  BY <1>1, InvKept, PTL

(* NothingLeftIdle: whenever a frame was processed and no thumbnail failed in  *)
(* it, no pair has gone without an observation for the flush time.             *)
THEOREM NoneIdle == Spec => []NothingLeftIdle
<1>1. Inv => NothingLeftIdle
  BY DEF Inv, EpisodeInv, NothingLeftIdle
<1> QED
  BY <1>1, InvKept, PTL

(* EpisodeSummarises: start, end, counts, peak and distance of an open episode *)
(* are those of the frames it took in.                                         *)
THEOREM Summarised == Spec => []EpisodeSummarises
<1>1. ASSUME Inv, NEW k \in Key, episodes[k] # None
      PROVE  LET ep == episodes[k]
                 F == frames[k]
                 worst == {f \in F : \A g \in F : Rank[g.risk] <= Rank[f.risk]}
             IN /\ ep.started \in {f.at : f \in F} /\ ep.last \in {f.at : f \in F}
                /\ \A f \in F : ep.started <= f.at /\ f.at <= ep.last
                /\ \A r \in Risk : ep.counts[r] = Cardinality({f \in F : f.risk = r})
                /\ \A f \in worst : f.risk = ep.peak /\ ep.nearest <= f.distance
                /\ \E f \in worst : ep.nearest = f.distance
  <2> DEFINE ep == episodes[k]
             F == frames[k]
             worst == {f \in F : \A g \in F : Rank[g.risk] <= Rank[f.risk]}
  <2>1. ep \in Episode /\ MadeOf(ep, F) /\ F \subseteq Frame
    BY <1>1 DEF Inv, EpisodeInv, FramesInv
  <2>2. ep.peak \in Risk /\ \A f \in F : f.risk \in Risk
    BY <2>1 DEF Episode, Frame
  <2> HIDE DEF ep, F
  <2>3. \A f \in worst : f \in F /\ Rank[f.risk] = Rank[ep.peak]
    <3>1. PICK p \in F : p.risk = ep.peak
      BY <2>1 DEF MadeOf
    <3>2. ASSUME NEW f \in worst
          PROVE  f \in F /\ Rank[f.risk] <= Rank[ep.peak] /\ Rank[p.risk] <= Rank[f.risk]
      BY <2>1, <3>1 DEF MadeOf
    <3> QED
      BY <2>2, <3>1, <3>2, RankFacts
  <2>4. \A f \in worst : f.risk = ep.peak
    BY <2>2, <2>3, RankFacts
  <2>5. \E f \in worst : ep.nearest = f.distance
    BY <2>1 DEF MadeOf
  <2>6. \A f \in worst : ep.nearest <= f.distance
    BY <2>1, <2>3, <2>4 DEF MadeOf
  <2>7. \A r \in Risk : ep.counts[r] = Cardinality({f \in F : f.risk = r})
    BY <2>1 DEF MadeOf, OfRisk
  <2>8. /\ ep.started \in {f.at : f \in F} /\ ep.last \in {f.at : f \in F}
        /\ \A f \in F : ep.started <= f.at /\ f.at <= ep.last
    BY <2>1 DEF MadeOf
  <2> QED
    BY <2>4, <2>5, <2>6, <2>7, <2>8 DEF ep, F
<1>2. Inv => EpisodeSummarises
  BY <1>1 DEF EpisodeSummarises
<1> QED
  BY <1>2, InvKept, PTL

(* A step that makes an event of a pair ends its episode.                      *)
LEMMA EventEnds ==
  ASSUME [Next]_vars, NEW k \in Key, event'[k] # event[k]
  PROVE  OnFrame /\ Ends(k) /\ event'[k] = EventOf(episodes[k])
<1>1. OnFrame
  BY DEF Next, Tick, ApplyCooldown, vars
<1>2. Ends(k)
  BY <1>1, FrameStep DEF Stays, Breaks, Extends
<1> QED
  BY <1>1, <1>2 DEF Ends

(* EventsKeepDistance: the next event of a pair is about frames that come at   *)
(* least the cooldown after the one before was emitted.                        *)
THEOREM DistanceKept == Spec => EventsKeepDistance
<1>1. ASSUME Inv, [Next]_vars, NEW k \in Key, event'[k] # event[k], event[k] # None
      PROVE  event'[k].started >= event[k].at + PairCooldown
  <2>1. OnFrame /\ Ends(k) /\ event'[k] = EventOf(episodes[k])
    BY <1>1, EventEnds
  <2>2. episodes[k] # None /\ event'[k].started = episodes[k].started
    BY <2>1 DEF Ends, EventOf
  <2> QED
    BY <1>1, <2>2 DEF Inv, EventInv
<1>2. Inv /\ [Next]_vars
      => [\A k \in Key : event'[k] # event[k] /\ event[k] # None =>
            event'[k].started >= event[k].at + PairCooldown]_vars
  BY <1>1
<1> QED
  BY <1>2, InvKept, PTL DEF Spec, EventsKeepDistance

(* EndsWithEvent: an episode that is popped leaves an event of its own, unless *)
(* a thumbnail failed when it was flushed before.                              *)
THEOREM EventAtEnd == Spec => EndsWithEvent
<1>1. ASSUME Inv, [Next]_vars, NEW k \in Key, episodes[k] # None, episodes'[k] = None
      PROVE  \/ episodes[k].emitted
             \/ event'[k] # None /\ event'[k].started = episodes[k].started
  <2>1. OnFrame
    BY <1>1 DEF Next, Tick, ApplyCooldown, vars
  <2>2. episodes[k] \in Episode /\ now \in Nat
    BY <1>1 DEF Inv, EpisodeInv, ClockInv
  <2>3. \A o \in Observation : ~Extends(k, o)
    BY <1>1, <2>2, UpdatedFields, NoneAssumption DEF Extends
  <2>4. ~Stays(k) /\ ~Breaks(k)
    <3>1. [episodes[k] EXCEPT !.emitted = TRUE] \in Episode
      BY <2>2 DEF Episode
    <3> QED
      BY <1>1, <3>1, NoneAssumption DEF Stays, Breaks
  <2>5. Ends(k)
    BY <2>1, <2>3, <2>4, FrameStep
  <2> QED
    BY <2>2, <2>5, EventOfEpisode DEF Ends
<1>2. Inv /\ [Next]_vars
      => [\A k \in Key : episodes[k] # None /\ episodes'[k] = None =>
            \/ episodes[k].emitted
            \/ event'[k] # None /\ event'[k].started = episodes[k].started]_vars
  BY <1>1
<1> QED
  BY <1>2, InvKept, PTL DEF Spec, EndsWithEvent
-----------------------------------------------------------------------------
(* The evidence for a risk is counted by the episode.                          *)
LEMMA EvidenceCounted ==
  ASSUME NEW ep \in Episode, NEW F \in SUBSET Frame, IsFiniteSet(F), MadeOf(ep, F)
  PROVE  /\ Cardinality(Evidence(F, "high")) = ep.counts["high"]
         /\ Cardinality(Evidence(F, "medium")) = ep.counts["high"] + ep.counts["medium"]
<1> DEFINE H == OfRisk(F, "high")
           M == OfRisk(F, "medium")
<1>1. \A f \in F : f.risk \in Risk
  BY DEF Frame
<1>2. H \in SUBSET F /\ M \in SUBSET F /\ H \cap M = {}
  BY DEF OfRisk
<1>3. Evidence(F, "high") = H
  BY <1>1, RankFacts DEF Evidence, OfRisk, Risk, Rank
<1>4. Evidence(F, "medium") = H \cup M
  BY <1>1, RankFacts DEF Evidence, OfRisk, Risk, Rank
<1>5. ep.counts["high"] = Cardinality(H) /\ ep.counts["medium"] = Cardinality(M)
  BY DEF MadeOf, Risk
<1> HIDE DEF H, M
<1>6. IsFiniteSet(H) /\ IsFiniteSet(M)
  BY <1>2, FS_Subset
<1>7. Cardinality(H) \in Nat /\ Cardinality(M) \in Nat /\ Cardinality({}) = 0
  BY <1>6, FS_CardinalityType, FS_EmptySet
<1>8. Cardinality(H \cup M) = Cardinality(H) + Cardinality(M) - Cardinality(H \cap M)
  BY <1>6, FS_Union
<1>9. Cardinality(H \cap M) = 0
  BY <1>2, <1>7
<1>10. Cardinality(H \cup M) = Cardinality(H) + Cardinality(M)
  BY <1>7, <1>8, <1>9
<1> QED
  BY <1>3, <1>4, <1>5, <1>10

(* What has been counted of a risk is not above the peak.                      *)
LEMMA CountedBelowPeak ==
  ASSUME NEW ep \in Episode, NEW F \in SUBSET Frame, IsFiniteSet(F), MadeOf(ep, F),
         NEW r \in Risk, Rank[ep.peak] < Rank[r]
  PROVE  ep.counts[r] = 0
<1>1. OfRisk(F, r) = {}
  <2>1. \A f \in F : f.risk \in Risk /\ Rank[f.risk] <= Rank[ep.peak]
    BY DEF MadeOf, Frame
  <2>2. ep.peak \in Risk
    BY DEF Episode
  <2>3. \A f \in F : f.risk # r
    BY <2>1, <2>2, RankFacts
  <2> QED
    BY <2>3 DEF OfRisk
<1> QED
  BY <1>1, FS_EmptySet DEF MadeOf

(* ReportsSustainedRisk: an event is high exactly when enough of its frames    *)
(* were and they span the time, medium exactly when enough were medium or      *)
(* worse, and low otherwise.                                                   *)
THEOREM RiskSustained == Spec => ReportsSustainedRisk
<1>1. ASSUME Inv, [Next]_vars, NEW k \in Key, event'[k] # event[k]
      PROVE  LET e == event'[k]
                 F == frames[k]
                 long == \E f, g \in F : g.at - f.at >= MinHighDuration
                 high == Cardinality(Evidence(F, "high")) >= MinHighFrames /\ long
                 medium == Cardinality(Evidence(F, "medium")) >= MinMediumFrames
             IN e.risk = IF high THEN "high" ELSE IF medium THEN "medium" ELSE "low"
  <2> DEFINE ep == episodes[k]
             F == frames[k]
             long == \E f, g \in F : g.at - f.at >= MinHighDuration
             h == ep.counts["high"]
             m == ep.counts["medium"]
  <2>1. Ends(k) /\ event'[k] = EventOf(ep)
    BY <1>1, EventEnds
  <2>2. event'[k].risk = FinalRisk(ep)
    BY <2>1 DEF EventOf
  <2>3. ep \in Episode /\ MadeOf(ep, F) /\ F \in SUBSET Frame /\ IsFiniteSet(F)
    BY <1>1, <2>1 DEF Ends, Inv, EpisodeInv, FramesInv
  <2> HIDE DEF ep, F
  <2>4. /\ Cardinality(Evidence(F, "high")) = h
        /\ Cardinality(Evidence(F, "medium")) = h + m
    BY <2>3, EvidenceCounted
  <2>5. /\ ep.peak \in Risk /\ ep.started \in Nat /\ ep.last \in Nat /\ h \in Nat /\ m \in Nat
        /\ \A f \in F : f.at \in Nat
    BY <2>3 DEF Episode, Frame, Risk
  <2>6. long <=> ep.last - ep.started >= MinHighDuration
    <3>1. MinHighDuration \in Nat
      BY EpisodesAssumption
    <3>2. /\ \E f \in F : f.at = ep.started
          /\ \E f \in F : f.at = ep.last
          /\ \A f \in F : ep.started <= f.at /\ f.at <= ep.last
      BY <2>3 DEF MadeOf
    <3>3. ASSUME NEW f \in F, NEW g \in F, g.at - f.at >= MinHighDuration
          PROVE  ep.last - ep.started >= MinHighDuration
      BY <2>5, <3>1, <3>2, <3>3
    <3>4. ASSUME ep.last - ep.started >= MinHighDuration
          PROVE  long
      BY <3>2, <3>4
    <3> QED
      BY <3>3, <3>4
  <2>7. /\ ep.peak = "low" => h = 0 /\ m = 0
        /\ ep.peak = "medium" => h = 0
    <3>1. "high" \in Risk /\ "medium" \in Risk
      BY DEF Risk
    <3> QED
      BY <2>3, <3>1, RankFacts, CountedBelowPeak
  <2>8. FinalRisk(ep) = IF h >= MinHighFrames /\ ep.last - ep.started >= MinHighDuration
                        THEN "high"
                        ELSE IF h + m >= MinMediumFrames THEN "medium" ELSE "low"
    <3>1. MinHighFrames \in Nat \ {0} /\ MinMediumFrames \in Nat \ {0}
      BY EpisodesAssumption
    <3>2. CASE ep.peak = "high"
      BY <3>2 DEF FinalRisk
    <3>3. CASE ep.peak = "medium"
      BY <2>5, <2>7, <3>1, <3>3 DEF FinalRisk
    <3>4. CASE ep.peak = "low"
      BY <2>5, <2>7, <3>1, <3>4 DEF FinalRisk
    <3> QED
      BY <2>5, <3>2, <3>3, <3>4 DEF Risk
  <2> HIDE DEF h, m, long
  <2> QED
    BY <2>2, <2>4, <2>6, <2>8 DEF F, long
<1>2. Inv /\ [Next]_vars
      => [\A k \in Key : event'[k] # event[k] =>
            LET e == event'[k]
                F == frames[k]
                long == \E f, g \in F : g.at - f.at >= MinHighDuration
                high == Cardinality(Evidence(F, "high")) >= MinHighFrames /\ long
                medium == Cardinality(Evidence(F, "medium")) >= MinMediumFrames
            IN e.risk = IF high THEN "high" ELSE IF medium THEN "medium" ELSE "low"]_vars
  BY <1>1
<1> QED
  BY <1>2, InvKept, PTL DEF Spec, ReportsSustainedRisk
=============================================================================
