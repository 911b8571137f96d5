------------------------------- MODULE Episodes -------------------------------
(* One slot's episodes in server.py: the Episode class, the cooldown, episode  *)
(* and idle-flush gates of _on_frame(), and _flush_episode().  A frame is      *)
(* reduced to the interactions that passed the gates before: for each tracked  *)
(* pair its risk and its distance.  Time is in ticks; time that passes without *)
(* a processed frame stands for skipped frames, a pause, a restarted reader or *)
(* detection switched off, none of which touches the episodes.                 *)
EXTENDS Integers, FiniteSets

CONSTANTS Key,              \* tracked pairs, as _pair_key() names them
          Distance,         \* distances in pixels
          IdleFlush,        \* EPISODE_IDLE_FLUSH_SEC
          PairCooldown,     \* PAIR_COOLDOWN_SEC as the process read it at start
          MinHighFrames,    \* MIN_HIGH_RISK_FRAMES
          MinMediumFrames,  \* MIN_MEDIUM_RISK_FRAMES
          MinHighDuration,  \* MIN_HIGH_RISK_EPISODE_SEC
          Cooldowns,        \* values an operator may give PAIR_COOLDOWN_SEC
          MaxTime,          \* bound: ticks in one behaviour
          None

ASSUME EpisodesAssumption ==
  /\ Distance \subseteq Nat
  /\ IdleFlush \in Nat \ {0}
  /\ PairCooldown \in Nat
  /\ MinHighFrames \in Nat \ {0}
  /\ MinMediumFrames \in Nat \ {0}
  /\ MinHighDuration \in Nat
  /\ Cooldowns \subseteq Nat
  /\ MaxTime \in Nat

VARIABLES now,        \* wall_ts of the latest frame, or later
          episodes,   \* slot.episodes
          cooldown,   \* slot.pair_cooldown
          setting,    \* PAIR_COOLDOWN_SEC in the settings store
          lastFrame,  \* history: when a frame was last processed
          failed,     \* history: the frame before stopped at a thumbnail write
          frames,     \* history: the frames the open episode of a pair is made of
          event       \* history: the event last emitted for a pair

vars == <<now, episodes, cooldown, setting, lastFrame, failed, frames, event>>

Risk == {"low", "medium", "high"}
Rank == [low |-> 0, medium |-> 1, high |-> 2]

Frame == [at : Nat, risk : Risk, distance : Nat]

Episode == [started : Nat, last : Nat, counts : [Risk -> Nat],
            peak : Risk, nearest : Nat, emitted : BOOLEAN]

Event == [started : Nat, last : Nat, at : Nat, risk : Risk, peak : Risk]

ASSUME NoneAssumption == None \notin Episode /\ None \notin Event

TypeOK ==
  /\ now \in 0 .. MaxTime
  /\ lastFrame \in 0 .. MaxTime
  /\ \A k \in Key : episodes[k] = None \/ episodes[k] \in Episode
  /\ cooldown \in [Key -> Nat]
  /\ setting \in Nat
  /\ failed \in BOOLEAN
  /\ \A k \in Key : frames[k] \subseteq Frame
  /\ \A k \in Key : event[k] = None \/ event[k] \in Event

Init ==
  /\ now = 0
  /\ lastFrame = 0
  /\ episodes = [k \in Key |-> None]
  /\ cooldown = [k \in Key |-> 0]
  /\ setting = PairCooldown
  /\ failed = FALSE
  /\ frames = [k \in Key |-> {}]
  /\ event = [k \in Key |-> None]
-----------------------------------------------------------------------------
(* The Episode class *)

(* Episode() and its first update(): the first frame is the peak.              *)
Opened(risk, distance) ==
  [started |-> now, last |-> now,
   counts |-> [r \in Risk |-> IF r = risk THEN 1 ELSE 0],
   peak |-> risk, nearest |-> distance, emitted |-> FALSE]

(* Mistake: only a worse frame is a new peak.                                  *)
IsWorse(ep, risk, distance) == Rank[risk] > Rank[ep.peak]

(* update(): a worse frame, or a nearer one of the same risk, is the new peak. *)
IsNewPeak(ep, risk, distance) ==
  \/ Rank[risk] > Rank[ep.peak]
  \/ risk = ep.peak /\ distance < ep.nearest

Updated(ep, risk, distance) ==
  LET worse == IsNewPeak(ep, risk, distance)
  IN [ep EXCEPT !.last = now,
                !.counts[risk] = @ + 1,
                !.peak = IF worse THEN risk ELSE @,
                !.nearest = IF worse THEN distance ELSE @]

(* Mistake: a short burst of high frames is enough.                            *)
RiskOfBurst(ep) ==
  CASE ep.peak = "high" /\ ep.counts["high"] >= MinHighFrames -> "high"
    [] ep.peak # "low" /\ ep.counts["high"] + ep.counts["medium"] >= MinMediumFrames -> "medium"
    [] OTHER -> "low"

(* Mistake: no return at the end of the function.                              *)
RiskOrNone(ep) ==
  CASE /\ ep.peak = "high"
       /\ ep.counts["high"] >= MinHighFrames
       /\ ep.last - ep.started >= MinHighDuration -> "high"
    [] ep.peak # "low" /\ ep.counts["high"] + ep.counts["medium"] >= MinMediumFrames -> "medium"
    [] OTHER -> None

(* final_risk()                                                                *)
FinalRisk(ep) ==
  LET high == ep.counts["high"]
      medium == ep.counts["medium"]
      duration == ep.last - ep.started
  IN CASE /\ ep.peak = "high"
          /\ high >= MinHighFrames
          /\ duration >= MinHighDuration -> "high"
       [] /\ ep.peak = "high"
          /\ ~(high >= MinHighFrames /\ duration >= MinHighDuration)
          /\ high + medium >= MinMediumFrames -> "medium"
       [] ep.peak = "medium" /\ high + medium >= MinMediumFrames -> "medium"
       [] OTHER -> "low"
-----------------------------------------------------------------------------
(* _on_frame() *)

(* Mistake: the cooldown is not looked at.                                     *)
NeverMuted(k) == FALSE

(* An interaction of a pair in cooldown is ignored.                            *)
Muted(k) == now < cooldown[k]

Observation == [risk : Risk, distance : Distance]

(* The episodes once the interactions of the frame have been taken in.         *)
TakeIn(seen) ==
  [k \in Key |->
     IF k \notin DOMAIN seen \/ Muted(k) THEN episodes[k]
     ELSE IF episodes[k] = None THEN Opened(seen[k].risk, seen[k].distance)
     ELSE Updated(episodes[k], seen[k].risk, seen[k].distance)]

(* Mistake: > for >=.                                                          *)
IdleKeysLate(seen) ==
  {k \in Key : /\ episodes[k] # None
               /\ k \notin DOMAIN seen \/ Muted(k)
               /\ now - episodes[k].last > IdleFlush}

(* The episodes the frame leaves without an update for too long.               *)
IdleKeys(seen) ==
  {k \in Key : /\ episodes[k] # None
               /\ k \notin DOMAIN seen \/ Muted(k)
               /\ now - episodes[k].last >= IdleFlush}

EventOf(ep) == [started |-> ep.started, last |-> ep.last, at |-> now,
                risk |-> FinalRisk(ep), peak |-> ep.peak]

(* Mistake: an episode is popped before its thumbnails are written.            *)
FlushPopsFirst(seen, done, broken) ==
  /\ episodes' = [k \in Key |-> IF k \in done \cup broken THEN None ELSE TakeIn(seen)[k]]
  /\ cooldown' = [k \in Key |-> IF k \in done THEN now + PairCooldown ELSE cooldown[k]]
  /\ event' = [k \in Key |-> IF k \in done THEN EventOf(episodes[k]) ELSE event[k]]
  /\ frames' = [k \in Key |->
                  IF k \in done \cup broken THEN {}
                  ELSE IF k \in DOMAIN seen /\ ~Muted(k)
                    THEN frames[k] \cup {[at |-> now, risk |-> seen[k].risk,
                                          distance |-> seen[k].distance]}
                    ELSE frames[k]]

(* The flush loop handles the idle pairs in turn.  When writing the thumbnails *)
(* of one raises, its episode is marked but stays, the pairs behind it wait    *)
(* for the next frame, and no event is made of it.  A marked episode is popped *)
(* without an event.                                                           *)
Flush(seen, done, broken) ==
  /\ episodes' = [k \in Key |->
                    CASE k \in done -> None
                      [] k \in broken -> [TakeIn(seen)[k] EXCEPT !.emitted = TRUE]
                      [] OTHER -> TakeIn(seen)[k]]
  /\ cooldown' = [k \in Key |-> IF k \in done THEN now + PairCooldown ELSE cooldown[k]]
  /\ event' = [k \in Key |-> IF k \in done /\ ~episodes[k].emitted
                               THEN EventOf(episodes[k]) ELSE event[k]]
  /\ frames' = [k \in Key |->
                  CASE k \in done -> {}
                    [] k \in DOMAIN seen /\ ~Muted(k) ->
                         frames[k] \cup {[at |-> now, risk |-> seen[k].risk,
                                          distance |-> seen[k].distance]}
                    [] OTHER -> frames[k]]

(* At most one frame per tick; broken is the pair whose thumbnails fail.       *)
OnFrame ==
  /\ lastFrame < now
  /\ lastFrame' = now
  /\ \E K \in SUBSET Key : \E seen \in [K -> Observation] :
       \/ Flush(seen, IdleKeys(seen), {}) /\ failed' = FALSE
       \/ \E k \in IdleKeys(seen) : \E done \in SUBSET (IdleKeys(seen) \ {k}) :
            /\ ~episodes[k].emitted
            /\ Flush(seen, done, {k})
            /\ failed' = TRUE
  /\ UNCHANGED <<now, setting>>

(* Time passes.                                                                *)
Tick ==
  /\ now < MaxTime
  /\ now' = now + 1
  /\ UNCHANGED <<episodes, cooldown, setting, lastFrame, failed, frames, event>>

(* An operator applies PAIR_COOLDOWN_SEC, a hot_apply setting.                 *)
ApplyCooldown ==
  /\ \E c \in Cooldowns : setting' = c
  /\ UNCHANGED <<now, episodes, cooldown, lastFrame, failed, frames, event>>

Next == OnFrame \/ Tick \/ ApplyCooldown

Spec == Init /\ [][Next]_vars
-----------------------------------------------------------------------------
(* An episode summarises its frames: it starts with the first, its counts are  *)
(* theirs, its peak is the worst risk among them and its distance the least    *)
(* among the frames of that risk.                                              *)
EpisodeSummarises ==
  \A k \in Key : episodes[k] # None =>
    LET ep == episodes[k]
        F == frames[k]
        worst == {f \in F : \A g \in F : Rank[g.risk] <= Rank[f.risk]}
    IN /\ ep.started \in {f.at : f \in F} /\ ep.last \in {f.at : f \in F}
       /\ \A f \in F : ep.started <= f.at /\ f.at <= ep.last
       /\ \A r \in Risk : ep.counts[r] = Cardinality({f \in F : f.risk = r})
       /\ \A f \in worst : f.risk = ep.peak /\ ep.nearest <= f.distance
       /\ \E f \in worst : ep.nearest = f.distance

(* "Real conflicts produce >= 2 high-risk frames over >= 1 s": an event is     *)
(* reported high exactly on such evidence, medium on two frames that are at    *)
(* least medium, and never above the worst frame.                              *)
Evidence(F, least) == {f \in F : Rank[f.risk] >= Rank[least]}

ReportsSustainedRisk ==
  [][\A k \in Key : event'[k] # event[k] =>
       LET e == event'[k]
           F == frames[k]
           long == \E f, g \in F : g.at - f.at >= MinHighDuration
           high == Cardinality(Evidence(F, "high")) >= MinHighFrames /\ long
           medium == Cardinality(Evidence(F, "medium")) >= MinMediumFrames
       IN e.risk = IF high THEN "high" ELSE IF medium THEN "medium" ELSE "low"]_vars

(* "Suppress repeat events from the same pair": the frames of the next event   *)
(* all come at least the cooldown after the one before was emitted.            *)
EventsKeepDistance ==
  [][\A k \in Key : event'[k] # event[k] /\ event[k] # None =>
       event'[k].started >= event[k].at + PairCooldown]_vars

(* A processed frame leaves no pair idle for longer than the flush time,       *)
(* unless writing a thumbnail failed in it.                                    *)
NothingLeftIdle ==
  \A k \in Key : episodes[k] # None /\ ~failed =>
    lastFrame - episodes[k].last < IdleFlush

(* An episode ends with an event, except when writing its thumbnails failed.   *)
EndsWithEvent ==
  [][\A k \in Key : episodes[k] # None /\ episodes'[k] = None =>
       \/ episodes[k].emitted
       \/ event'[k] # None /\ event'[k].started = episodes[k].started]_vars
-----------------------------------------------------------------------------
(* What comments and the settings say and the code does not do.                *)

(* "a single high-risk frame is treated as a transient and reported as         *)
(* medium".                                                                    *)
SingleHighIsMedium ==
  [][\A k \in Key : event'[k] # event[k] =>
       (Cardinality(Evidence(frames[k], "high")) = 1 => event'[k].risk = "medium")]_vars

(* "If an episode has no new risk frames for this long, flush it": two frames  *)
(* of an episode that follow each other are closer than the flush time.        *)
NoGapInEpisode ==
  \A k \in Key : \A f, g \in frames[k] :
    f.at + IdleFlush <= g.at => \E h \in frames[k] : f.at < h.at /\ h.at < g.at

(* PAIR_COOLDOWN_SEC is hot_apply: a cooldown set after it was applied lasts   *)
(* as long as the setting says.                                                *)
CooldownFollowsSetting ==
  [][\A k \in Key : cooldown'[k] # cooldown[k] => cooldown'[k] = now + setting]_vars
=============================================================================
