----------------------------- MODULE Perception -----------------------------
(* server.py, _on_frame() up to the episodes: one camera's frames, its quality *)
(* monitor and rate controller, two tracked objects, and the operator who      *)
(* turns detection and the rate policy on another thread.                      *)
EXTENDS Clock, Quality, FrameRate, Geometry, FiniteSetsExt

CONSTANTS Image,          \* readings of one image, or None for one that fails
          Measure,        \* what optical flow may measure, or None
          GpsReading,     \* what the demo track may say, or None
          Envelope,       \* pairs <<FPS_FLOOR, FPS_CEIL>>
          Finds,          \* which of the two objects the model may find
          Motion,         \* how the two objects may move: box at 0, steps per tick
          Adaptive,       \* FPS_ADAPTIVE at the start
          MaxPolicies,    \* bound: changes of the rate policy
          MaxSwitches,    \* bound: turns of the detection switch
          PerceptionEnd   \* bound: the last tick

ASSUME PerceptionAssumption ==
  /\ Second \in Nat \ {0} /\ Adaptive \in BOOLEAN
  /\ GpsReading \subseteq Nat \cup {None}
  /\ \A m \in Measure : m # None => m.up \in Int
  /\ \A e \in Envelope : e[1] \in Nat \ {0} /\ e[2] \in Nat /\ e[1] <= e[2]
  /\ HistoryLen \in Nat /\ HistoryLen >= 4
  /\ MaxPolicies \in Nat /\ MaxSwitches \in Nat /\ PerceptionEnd \in Nat

VARIABLES detection,      \* slot.detection_enabled
          controller,     \* slot.fps_controller
          quality,        \* slot.quality
          toldQuality,    \* slot.last_perception_state
          egoAt,          \* when the estimator saw its last frame
          lastFlow,       \* slot.last_ego_flow
          scene,          \* slot.scene
          history,        \* slot.track_history
          verdict,        \* what the last frame hands to the episodes
          motion,         \* how this pair of objects moves
          pass,           \* how far _on_frame() is with this frame
          chosen,         \* the band _maybe_transition() is about to store
          frameAt,        \* when the last frame came
          policies, switches,
          judgedAt        \* history: when this envelope's band was last judged

operator == <<detection, policies, switches>>
sight == <<egoAt, lastFlow, scene, history, verdict, toldQuality>>
perceptionVars ==
  <<operator, sight, controller, quality, motion, pass, chosen, frameAt, judgedAt>>

Track == {1, 2}

BoxAt(m, id, t) ==
  LET o == m[id]
  IN [cls |-> o.cls, conf |-> o.conf, id |-> id,
      x1 |-> o.x + o.dx * t, x2 |-> o.x + o.dx * t + o.w,
      y1 |-> o.y + o.dy * t - o.h - o.grow * t, y2 |-> o.y + o.dy * t]

PerceptionTypeOK ==
  /\ detection \in BOOLEAN
  /\ controller.band.name \in BandName
  /\ controller.band.of \in 0 .. controller.tuple
  /\ controller.speed \in Nat \cup {None}
  /\ quality.state \in QualityState /\ toldQuality \in QualityState \cup {None}
  /\ \A id \in Track : Len(history[id]) <= HistoryLen
  /\ pass \in {"idle", "updated", "admitted"}
  /\ frameAt \in -1 .. now

PerceptionInit ==
  /\ detection = TRUE /\ policies = 0 /\ switches = 0
  /\ \E e \in Envelope : controller = ControllerInit(e[1], e[2], Adaptive)
  /\ quality = QualityInit /\ toldQuality = None
  /\ egoAt = None /\ lastFlow = None
  /\ scene = SceneInit /\ history = [id \in Track |-> <<>>]
  /\ verdict = {} /\ motion \in Motion
  /\ pass = "idle" /\ chosen = None /\ frameAt = -1 /\ judgedAt = None
-----------------------------------------------------------------------------
(* The capture thread *)

FrameComes == pass = "idle" /\ frameAt < now /\ frameAt' = now

(* Detection off: the picture is shown, nothing else looks at it.              *)
BypassFrame ==
  /\ FrameComes /\ ~detection
  /\ UNCHANGED <<operator, sight, controller, quality, motion, pass, chosen, judgedAt, now>>

(* The controller is given the flow of the last processed frame and the        *)
(* quality of the frame before, and chooses a band.                            *)
UpdateRate(gps) ==
  /\ FrameComes /\ detection /\ controller.enabled
  /\ LET read == IF gps = None THEN controller ELSE SetGpsSpeed(controller, gps, now)
     IN \E c \in Folded(read, lastFlow, quality.state # "nominal", now) :
          /\ controller' = c
          /\ IF EffectiveSpeed(read, ExtractSpeed(lastFlow), now) = None
             THEN chosen' = None /\ UNCHANGED judgedAt
             ELSE chosen' = ChosenBand(c, now) /\ judgedAt' = now
  /\ pass' = "updated"
  /\ UNCHANGED <<operator, sight, quality, motion, now>>

(* Ego motion of this frame: none of the first, nor where the flow fails.      *)
FlowOf(measure) ==
  IF None \in {measure, egoAt} THEN None ELSE EgoFlow(measure, now - egoAt)

(* The band is stored and the frame judged; a frame that is skipped is shown   *)
(* to the estimator, whose answer is dropped, and to the quality monitor.      *)
AdmitFrame ==
  LET c == Committed(controller, chosen, frameAt)
  IN /\ pass = "updated"
     /\ c.enabled => ShouldProcess(c, frameAt)
     /\ controller' = IF c.enabled THEN [c EXCEPT !.processedAt = frameAt] ELSE c
     /\ pass' = "admitted" /\ chosen' = None
     /\ UNCHANGED <<operator, sight, quality, motion, frameAt, judgedAt, now>>

SkipFrame(image) ==
  LET c == Committed(controller, chosen, frameAt)
  IN /\ pass = "updated"
     /\ c.enabled /\ ~ShouldProcess(c, frameAt)
     /\ controller' = c
     /\ quality' \in Observed(quality, image, None)
     /\ egoAt' = now
     /\ pass' = "idle" /\ chosen' = None
     /\ UNCHANGED <<operator, lastFlow, scene, history, verdict, toldQuality, motion, frameAt, judgedAt, now>>

Worse(p, q) == IF "high" \in {p, q} THEN "high" ELSE IF "medium" \in {p, q} THEN "medium" ELSE "low"

(* _classify_with_scene(); ttc and pixels are what quality left of them.       *)
Risk(ttc, factor, metres, px10, pxFactor, limits, flow, approaching) ==
  LET within(t) == 100 * ttc.num <= t * factor * ttc.den
      byTtc == IF ttc = None THEN "low"
               ELSE IF within(limits.ttcHigh) THEN "high"
               ELSE IF within(limits.ttcMed) THEN "medium" ELSE "low"
      byRange == IF metres = None THEN "low"
                 ELSE IF metres <= limits.distHigh THEN "high"
                 ELSE IF metres <= limits.distMed THEN "medium" ELSE "low"
      byPixels == IF ttc # None \/ metres # None THEN "low"
                  ELSE IF px10 <= 60 * pxFactor THEN "high"
                  ELSE IF px10 <= 180 * pxFactor THEN "medium" ELSE "low"
      risk == Worse(Worse(byTtc, byRange), byPixels)
      slow == flow # None /\ flow.speed < 20
  IN IF risk = "high" /\ slow /\ ~approaching THEN "medium" ELSE risk

(* Gates 7 to 13.5 for one candidate pair: what reaches the episodes of it.    *)
Judged(i, h, flow, state, limits) ==
  LET metres == PairDistance(i.a, i.b)
      ha == h[i.a.id]
      hb == h[i.b.id]
      vehicles == i.type = "vehicle_close_interaction"
      approaching == Approaching(ha, flow) \/ Approaching(hb, flow)
      ttc == IF flow # None /\ ~approaching THEN None ELSE Ttc(ha, hb)
      risk == Risk(ttc, TtcFactor[state], metres, 10 * EdgeDistance(i.a, i.b),
                   PixelFactor[state], limits, flow, approaching)
      family == EventFamily(i.b, hb, flow)
      dropped == \/ vehicles /\ metres # None /\ metres > 80
                 \/ vehicles /\ ~Converging(ha, hb)
                 \/ ~vehicles /\ risk = "low"
                 \/ family = None
  IN IF dropped THEN {} ELSE {[type |-> i.type, risk |-> risk, family |-> family]}

MeanConf(dets) == FoldSet(LAMBDA d, sum : d.conf + sum, 0, dets) \div Cardinality(dets)

(* The whole path; "seen" says which of the two objects the model finds.       *)
ProcessFrame(image, measure, seen) ==
  LET dets == {d \in {BoxAt(motion, id, now) : id \in seen} : Kept(d)}
      conf == IF dets = {} THEN None ELSE MeanConf(dets)
      flow == FlowOf(measure)
      speed == IF flow # None /\ flow.confidence >= 40 THEN flow.speed ELSE None
      after == Recorded(history, dets, now)
      later == SceneAfter(scene, dets, now, speed)
  IN /\ \/ pass = "admitted" /\ UNCHANGED frameAt
        \/ FrameComes /\ detection /\ ~controller.enabled
     /\ quality' \in Observed(quality, image, conf)
     /\ toldQuality' = quality'.state
     /\ egoAt' = now /\ lastFlow' = flow
     /\ scene' = later /\ history' = after
     /\ verdict' = UNION {Judged(i, after, flow, quality'.state, Thresholds[SceneLabel(later)]) :
                            i \in {j \in Interactions(dets) : CloseBy(j)}}
     /\ pass' = "idle"
     /\ UNCHANGED <<operator, controller, motion, chosen, judgedAt, now>>
-----------------------------------------------------------------------------
(* Threads of the server *)

SwitchDetection ==
  /\ switches < MaxSwitches
  /\ detection' = ~detection /\ switches' = switches + 1
  /\ UNCHANGED <<policies, sight, controller, quality, motion, pass, chosen, frameAt, judgedAt, now>>

(* _on_fps_policy_change(): an envelope is put in place under the running      *)
(* capture thread, which may be between choosing a band and storing it.        *)
ChangeEnvelope(e) ==
  /\ policies < MaxPolicies
  /\ policies' = policies + 1
  /\ controller' = SetEnabled(SetEnvelope(controller, e[1], e[2]), controller.enabled)
  /\ judgedAt' = None
  /\ UNCHANGED <<detection, switches, sight, quality, motion, pass, chosen, frameAt, now>>

(* Turning the policy on or off stops the reader and starts another.           *)
ToggleAdaptive ==
  /\ policies < MaxPolicies /\ pass = "idle"
  /\ policies' = policies + 1
  /\ controller' = SetEnabled(SetEnvelope(controller, controller.floor, controller.ceil),
                              ~controller.enabled)
  /\ judgedAt' = None
  /\ UNCHANGED <<detection, switches, sight, quality, motion, pass, chosen, frameAt, now>>

PerceptionTick ==
  /\ pass = "idle" /\ Tick(PerceptionEnd)
  /\ UNCHANGED perceptionVars

PerceptionNext ==
  \/ PerceptionTick
  \/ BypassFrame
  \/ \E gps \in GpsReading : UpdateRate(gps)
  \/ AdmitFrame
  \/ \E image \in Image : SkipFrame(image)
  \/ \E image \in Image, measure \in Measure, seen \in Finds : ProcessFrame(image, measure, seen)
  \/ SwitchDetection
  \/ \E e \in Envelope : ChangeEnvelope(e)
  \/ ToggleAdaptive

PerceptionSpec == PerceptionInit /\ ClockInit /\ [][PerceptionNext]_<<perceptionVars, now>>
-----------------------------------------------------------------------------
(* A band the controller keeps after its dwell, or has just entered, is one    *)
(* the smoothed speed may be in, unless the speed or the band is of another    *)
(* envelope than the one in force: bands come and go one frame at a time,      *)
(* under a dwell, with readings of two sources that come and go as well.       *)
BandFollowsSpeed ==
  LET c == controller
      entered == IF c.bandAt = None THEN None ELSE judgedAt - c.bandAt
  IN (pass = "idle" /\ c.enabled /\ judgedAt # None /\ c.band.of = c.tuple)
     => \/ entered # None /\ 0 < entered /\ entered < Dwell
        \/ BandFits(c.band.name, c.speed)
-----------------------------------------------------------------------------
(* What comments say and the code does not do.                                 *)

(* "Pinned above 2.67 fps so the multi-gate TTC window (>=4 samples in >=1.5s) *)
(* stays viable even in the lowest regime": a track that was sampled at the    *)
(* floor rate or faster for a second and a half has a window as long as that.  *)
TtcReachable ==
  \A id \in Track :
    LET h == history[id]
    IN (/\ Len(h) >= 4 /\ 2 * Lasts(h) >= 3 * Second
        /\ \A i \in 1 .. Len(h) - 1 : (h[i + 1].t - h[i].t) * controller.floor <= Second)
       => 2 * Lasts(Recent(h, 4)) >= 3 * Second

(* "so the effective rate tracks the new policy without a transition"          *)
RateTracksPolicy == pass = "idle" => controller.band.of = controller.tuple

(* "we require the metric to recover 20% past the original trigger before      *)
(* returning to nominal"                                                       *)
RecoveryIsHarder ==
  [][quality.state = "low_light" /\ quality'.state = "nominal"
       => 10 * quality'.lum >= 12 * LowLight]_perceptionVars
=============================================================================
