------------------------------ MODULE Geometry ------------------------------
(* core/detection.py, core/context.py, core/egomotion.py and                   *)
(* core/orientation_policy.py: what is read off boxes, tracks and flow.        *)
(* Pixels are whole, centres are doubled, confidence is in hundredths, metres  *)
(* are decimetres, and times are ticks; a time to collision is a fraction      *)
(* [num, den] of seconds.                                                      *)
EXTENDS FrameTime, Sequences, FiniteSets, Common

CONSTANTS HistoryLen,     \* TRACK_HISTORY_LEN
          StaleAfter,     \* how long TrackHistory keeps a lost track
          SceneWindow, ShortWindow,  \* the two windows of the scene classifier
          FrameW, FrameH, \* of the image
          Focal, CameraHeight, Horizon, BumperOffset, Orientation  \* calibration

Pedestrian == {"person"}
Vehicle == {"car", "truck", "bus", "motorcycle"}

Abs(n) == IF n < 0 THEN -n ELSE n
Largest(S) == CHOOSE n \in S : \A k \in S : k <= n
Least(S) == CHOOSE n \in S : \A k \in S : n <= k
Square(n) == n * n
(* The square root, rounded down.                                              *)
Root(n) == CHOOSE r \in 0 .. n : Square(r) <= n /\ n < Square(r + 1)
-----------------------------------------------------------------------------
(* A box is [cls, conf, x1, y1, x2, y2, id].                                   *)

BoxHeight(d) == Largest({d.y2 - d.y1, 1})
CentreX(d) == d.x1 + d.x2
CentreY(d) == d.y1 + d.y2

(* detect_frame(): the boxes of the model that are kept.                       *)
Kept(d) ==
  LET person == d.cls \in Pedestrian
      w == d.x2 - d.x1
      h == d.y2 - d.y1
  IN /\ d.cls \in Pedestrian \cup Vehicle
     /\ d.conf >= (IF person THEN 25 ELSE 50)
     /\ w * h >= (IF person THEN 400 ELSE 1200)
     /\ ~(person /\ h > 0 /\ 10 * w > 7 * h)

EdgeDistance(a, b) ==
  LET dx == Largest({a.x1 - b.x2, b.x1 - a.x2, 0})
      dy == Largest({a.y1 - b.y2, b.y1 - a.y2, 0})
  IN Root(Square(dx) + Square(dy))

(* find_interactions()                                                         *)
Interactions(dets) ==
  {[type |-> "pedestrian_proximity", a |-> p, b |-> v] :
     p \in {d \in dets : d.cls \in Pedestrian}, v \in {d \in dets : d.cls \in Vehicle}}
  \cup
  {[type |-> "vehicle_close_interaction", a |-> pair[1], b |-> pair[2]] :
     pair \in {q \in dets \X dets : /\ q[1].cls \in Vehicle /\ q[2].cls \in Vehicle
                                    /\ q[1].id < q[2].id
                                    /\ q[1].conf + q[2].conf >= 120}}
CloseBy(i) == EdgeDistance(i.a, i.b) <= (IF i.type = "pedestrian_proximity" THEN 120 ELSE 30)

TypicalHeight == [person |-> 17, car |-> 15, truck |-> 30, bus |-> 32, motorcycle |-> 13]

(* estimate_distance_m(): the larger of the plausible readings.                *)
RangeTo(d) ==
  LET byHeight == IF BoxHeight(d) > 4 THEN {(Focal * TypicalHeight[d.cls]) \div BoxHeight(d)} ELSE {}
      below == d.y2 - Horizon
      byGround == IF Orientation # "side" /\ below > 4
                  THEN {(Focal * CameraHeight) \div below} ELSE {}
      plausible == {m \in byHeight \cup byGround : 5 < m /\ m < 2000}
  IN IF plausible = {} THEN None
     ELSE Largest({0, Largest(plausible) - BumperOffset})

(* estimate_inter_distance_m()                                                 *)
InterDistance(a, b) ==
  LET da == RangeTo(a)
      db == RangeTo(b)
  IN IF None \in {da, db} THEN None
     ELSE LET lateral == (Abs(CentreX(a) - CentreX(b)) * (da + db)) \div (4 * Focal)
              m == Root(Square(da - db) + Square(lateral))
          IN IF 3 < m /\ m < 2000 THEN m ELSE None

PairDistance(a, b) ==
  LET single == {RangeTo(a), RangeTo(b)} \ {None}
  IN IF InterDistance(a, b) # None THEN InterDistance(a, b)
     ELSE IF single = {} THEN None ELSE Least(single)
-----------------------------------------------------------------------------
(* TrackHistory: samples [t, height, bottom, cx, cy] of each track.            *)

Recent(s, n) == IF Len(s) > n THEN SubSeq(s, Len(s) - n + 1, Len(s)) ELSE s

SampleOf(d, t) == [t |-> t, height |-> BoxHeight(d), bottom |-> d.y2,
                 cx |-> CentreX(d), cy |-> CentreY(d)]

(* update() for every box, then prune().                                       *)
Recorded(history, dets, t) ==
  [id \in DOMAIN history |->
     LET seen == {d \in dets : d.id = id}
         old == history[id]
     IN IF seen # {} THEN Recent(Append(old, SampleOf(CHOOSE d \in seen : TRUE, t)), HistoryLen)
        ELSE IF old # <<>> /\ t - old[Len(old)].t > StaleAfter THEN <<>> ELSE old]

Falls(s) == Cardinality({i \in 1 .. Len(s) - 1 : s[i + 1] < s[i]})
Rises(s) == Cardinality({i \in 1 .. Len(s) - 1 : s[i + 1] > s[i]})

Earliest(s) == s[1]
Latest(s) == s[Len(s)]
Lasts(s) == Latest(s).t - Earliest(s).t
Moved(s) == Square(Latest(s).cx - Earliest(s).cx) + Square(Latest(s).cy - Earliest(s).cy)
Apart(p, q) == Root(Square(p.cx - q.cx) + Square(p.cy - q.cy))

(* A time to collision that is given out lies in (0, 30] seconds.              *)
Fraction(num, den) == IF num <= 0 \/ num > 30 * den THEN None ELSE [num |-> num, den |-> den]
Sooner(p, q) == p # None /\ (q = None \/ p.num * q.den < q.num * p.den)

(* estimate_ttc_sec(): from the growth over the last four samples.             *)
ScaleTtc(s) ==
  LET w == Recent(s, 4)
      grown == Latest(w).height - Earliest(w).height
  IN IF /\ Len(s) >= 4
        /\ 2 * Lasts(w) >= 3 * Second
        /\ Falls([i \in 1 .. 4 |-> w[i].height]) <= 1
        /\ grown >= 6
        /\ Moved(w) >= 64
        /\ 10 * Latest(w).height > 11 * Earliest(w).height
     THEN Fraction(Lasts(w) * Earliest(w).height, grown * Second)
     ELSE None

(* estimate_pair_ttc(): from the gap over the last four samples of each.       *)
PairTtc(s, r) ==
  LET v == Recent(s, 4)
      w == Recent(r, 4)
      dt == Least({Lasts(v), Lasts(w)})
      gaps == [i \in 1 .. 4 |-> Apart(v[i], w[i])]
      closed == gaps[1] - gaps[4]
  IN IF /\ Len(s) >= 4 /\ Len(r) >= 4
        /\ 2 * dt >= 3 * Second
        /\ Rises(gaps) <= 1
        /\ closed >= 16
        /\ Moved(v) >= 64 \/ Moved(w) >= 64
        /\ closed * Second > 8 * dt
     THEN Fraction(gaps[4] * dt, closed * Second)
     ELSE None

Ttc(s, r) ==
  IF PairTtc(s, r) # None THEN PairTtc(s, r)
  ELSE IF Sooner(ScaleTtc(s), ScaleTtc(r)) THEN ScaleTtc(s) ELSE ScaleTtc(r)

(* tracks_converging(): at least 70 degrees off parallel.                      *)
Converging(s, r) ==
  /\ Len(s) >= 5 /\ Len(r) >= 5
  /\ Moved(s) >= 36 /\ Moved(r) >= 36
  /\ LET dot == (Latest(s).cx - Earliest(s).cx) * (Latest(r).cx - Earliest(r).cx)
                + (Latest(s).cy - Earliest(s).cy) * (Latest(r).cy - Earliest(r).cy)
     IN dot < 0 \/ 400 * Square(dot) < 49 * Moved(s) * Moved(r)
-----------------------------------------------------------------------------
(* Ego motion.  What optical flow measures is [up, textured]: the vertical     *)
(* median per frame, and the share of the background that moves.               *)

SpeedPerPixel == 10

(* EgoMotionEstimator.update(), dt ticks after the frame before.               *)
EgoFlow(measure, dt) ==
  LET speed == (SpeedPerPixel * Abs(measure.up) * Second) \div dt
      towards == IF Orientation = "rear" THEN measure.up < 0 ELSE measure.up > 0
  IN IF measure.textured < 20 THEN None
     ELSE [up |-> measure.up, confidence |-> measure.textured,
           speed |-> IF Orientation = "side" THEN 0 ELSE speed,
           direction |-> IF Orientation = "side" \/ speed < 5 THEN "stationary"
                         ELSE IF towards THEN "forward" ELSE "reverse"]

(* relative_motion().approaching                                               *)
Approaching(s, flow) ==
  /\ flow # None /\ Len(s) >= 2 /\ Lasts(s) > 0
  /\ Latest(s).bottom - Earliest(s).bottom > flow.up * (Len(s) - 1)
  /\ 100 * Latest(s).height > 102 * Earliest(s).height
-----------------------------------------------------------------------------
(* Scene context: traffic is [events, at, speed], events being [t, cls].       *)

SceneInit == [events |-> <<>>, at |-> 0, speed |-> None]

SceneAfter(scene, dets, t, speed) ==
  LET new == [i \in 1 .. Cardinality(dets) |->
                [t |-> t, cls |-> (CHOOSE d \in dets :
                                     Cardinality({e \in dets : e.id < d.id}) = i - 1).cls]]
  IN [events |-> SelectSeq(scene.events \o new, LAMBDA e : e.t >= t - SceneWindow),
      at |-> t, speed |-> speed]

(* Seen within the window; a rate is that many times 60 per window second.     *)
SeenOf(scene, classes, window) ==
  Cardinality({i \in DOMAIN scene.events :
                 scene.events[i].cls \in classes /\ scene.events[i].t >= scene.at - window})
Exceeds(n, rate, window) == 60 * n * Second > rate * window

SceneLabel(scene) ==
  LET peds == SeenOf(scene, Pedestrian, SceneWindow)
      vehs == SeenOf(scene, Vehicle, SceneWindow)
      lately == SeenOf(scene, Pedestrian, ShortWindow) + SeenOf(scene, Vehicle, ShortWindow)
  IN CASE scene.speed # None /\ scene.speed > 130 /\ 60 * peds * Second < SceneWindow -> "highway"
       [] OTHER ->
            IF \/ Exceeds(peds, 3, SceneWindow)
               \/ Exceeds(vehs, 6, SceneWindow) /\ (scene.speed = None \/ scene.speed < 80)
            THEN "urban"
            ELSE IF lately = 0 THEN "parking" ELSE "unknown"

(* adaptive_thresholds(), in tenths of seconds and decimetres                  *)
Thresholds ==
  [highway |-> [ttcHigh |-> 15, ttcMed |-> 30, distHigh |-> 50, distMed |-> 150],
   urban   |-> [ttcHigh |-> 4, ttcMed |-> 8, distHigh |-> 15, distMed |-> 30],
   parking |-> [ttcHigh |-> 5, ttcMed |-> 10, distHigh |-> 8, distMed |-> 25],
   unknown |-> [ttcHigh |-> 5, ttcMed |-> 10, distHigh |-> 20, distMed |-> 50]]
-----------------------------------------------------------------------------
(* Orientation policy *)

Reversing(flow) == flow # None /\ flow.direction = "reverse" /\ flow.confidence >= 25

(* The blind zone: the middle 55 % across, from 25 % to 95 % down.             *)
InZoneX(cx) == 225 * FrameW <= 500 * cx /\ 500 * cx <= 775 * FrameW
InZoneY(y) == 25 * FrameH <= 100 * y /\ 100 * y <= 95 * FrameH
InBlindZone(d) == InZoneX(CentreX(d)) /\ 50 * FrameH <= 100 * CentreY(d) /\ 100 * CentreY(d) <= 190 * FrameH

(* blind_zone_dwell_sec(): how long the newest samples have been in the zone.  *)
DwellOf(s) ==
  LET stay == {i \in DOMAIN s : \A k \in i .. Len(s) : InZoneY(s[k].bottom)}
  IN IF stay = {} THEN 0 ELSE Latest(s).t - s[Least(stay)].t

LateralDominant(s) ==
  /\ Len(s) >= 2 /\ Lasts(s) > 0
  /\ 10 * Abs(Latest(s).cx - Earliest(s).cx) > 12 * Abs(Latest(s).cy - Earliest(s).cy)

(* classify_event(): the family of the event, or None where it is suppressed.  *)
EventFamily(b, s, flow) ==
  CASE Orientation = "forward" -> "FCW"
    [] Orientation = "rear" ->
         IF ~Reversing(flow) THEN None
         ELSE IF LateralDominant(s) THEN "RCTA" ELSE "RCW"
    [] Orientation = "side" ->
         IF ~Reversing(flow) /\ InBlindZone(b) /\ 10 * DwellOf(s) >= 4 * Second THEN "BSW" ELSE None
    [] OTHER -> None
=============================================================================
