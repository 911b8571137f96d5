----------------------------- MODULE FrameRate -----------------------------
(* core/adaptive_fps.py: the policy that says which captured frames are        *)
(* processed.  Speeds are in tenths of a metre per second, rates in half       *)
(* frames per second, times in ticks.                                          *)
EXTENDS FrameTime, Common

CONSTANTS Dwell,        \* _DWELL_SEC
          GpsFresh,     \* how long a GPS reading is used
          SpeedGrid     \* values the smoothed speed takes

UrbanEnter == 15
UrbanExit == 8
HighwayEnter == 100
HighwayExit == 80

BandName == {"parked", "urban", "highway"}
Band == [name : BandName, of : Nat, rate : Int]

ASSUME RateAssumption ==
  /\ None \notin Int \cup Band
  /\ SpeedGrid \subseteq Nat /\ Dwell \in Nat /\ GpsFresh \in Nat

(* A band is an object of the tuple built for one envelope, and is compared    *)
(* by identity: "of" says of which tuple.                                      *)
BandOf(name, of, floor, ceil) ==
  [name |-> name, of |-> of,
   rate |-> CASE name = "parked" -> 2 * floor
              [] name = "urban" -> floor + ceil
              [] name = "highway" -> 2 * ceil]

ControllerInit(floor, ceil, enabled) ==
  [enabled |-> enabled, floor |-> floor, ceil |-> ceil, tuple |-> 0,
   band |-> BandOf("parked", 0, floor, ceil), bandAt |-> None,
   speed |-> None, updatedAt |-> None, gps |-> None, gpsAt |-> None,
   processedAt |-> None, degraded |-> FALSE]

(* The band that is kept is the new one of the same name.                      *)
SetEnvelope(c, floor, ceil) ==
  [c EXCEPT !.floor = floor, !.ceil = ceil, !.tuple = @ + 1,
            !.band = BandOf(@.name, c.tuple + 1, floor, ceil)]

SetEnabled(c, on) ==
  [c EXCEPT !.enabled = on, !.band = BandOf("parked", c.tuple, c.floor, c.ceil),
            !.bandAt = None, !.processedAt = None]

SetGpsSpeed(c, mps, at) == [c EXCEPT !.gps = mps, !.gpsAt = at]

ExtractSpeed(flow) == IF flow = None \/ flow.confidence < 30 THEN None ELSE flow.speed

EffectiveSpeed(c, raw, at) ==
  IF c.gps # None /\ at - c.gpsAt <= GpsFresh THEN c.gps ELSE raw

(* _ema_step(): somewhere between the old value and the sample.                *)
Smoothed(c, sample, at) ==
  IF c.speed = None THEN {sample}
  ELSE IF at = c.updatedAt THEN {c.speed}
  ELSE {c.speed, sample} \cup
       {v \in SpeedGrid : (c.speed <= v /\ v <= sample) \/ (sample <= v /\ v <= c.speed)}

(* Mistake: a slot that slows down on a highway stays in its band until it is  *)
(* all but parked.                                                             *)
SelectBandLate(c, speed) ==
  IF c.band.of # c.tuple THEN c.band.name
  ELSE CASE c.band.name = "parked" -> IF speed >= HighwayEnter THEN "highway"
                                      ELSE IF speed >= UrbanEnter THEN "urban" ELSE "parked"
         [] c.band.name = "urban" -> IF speed >= HighwayEnter THEN "highway"
                                     ELSE IF speed < UrbanExit THEN "parked" ELSE "urban"
         [] c.band.name = "highway" -> IF speed < UrbanExit THEN "parked" ELSE "highway"

(* _select_band(): a band of another tuple equals none of the three.           *)
SelectBand(c, speed) ==
  IF c.band.of # c.tuple THEN c.band.name
  ELSE CASE c.band.name = "parked" -> IF speed >= HighwayEnter THEN "highway"
                                      ELSE IF speed >= UrbanEnter THEN "urban" ELSE "parked"
         [] c.band.name = "urban" -> IF speed >= HighwayEnter THEN "highway"
                                     ELSE IF speed < UrbanExit THEN "parked" ELSE "urban"
         [] c.band.name = "highway" -> IF speed < UrbanExit THEN "parked"
                                       ELSE IF speed < HighwayExit THEN "urban" ELSE "highway"

(* update(), up to the choice of a band; the choice is stored by Committed.    *)
Folded(c, flow, degraded, at) ==
  LET sample == EffectiveSpeed(c, ExtractSpeed(flow), at)
      seen == [c EXCEPT !.degraded = degraded, !.updatedAt = at]
  IN IF sample = None THEN {seen}
     ELSE {[seen EXCEPT !.speed = v] : v \in Smoothed(c, sample, at)}

(* _maybe_transition(): None where the band stays.                             *)
ChosenBand(c, at) ==
  IF c.bandAt # None /\ at - c.bandAt < Dwell THEN None
  ELSE LET name == SelectBand(c, c.speed)
       IN IF name = c.band.name THEN None ELSE BandOf(name, c.tuple, c.floor, c.ceil)

Committed(c, band, at) ==
  IF band = None THEN c ELSE [c EXCEPT !.band = band, !.bandAt = at]

(* current_target_fps() of an enabled controller                               *)
RateNow(c) == IF c.degraded THEN 2 * c.floor ELSE c.band.rate

ShouldProcess(c, at) ==
  c.processedAt # None => (at - c.processedAt) * RateNow(c) >= 2 * Second

(* The bands a speed may be in: the hysteresis leaves two of them for some.    *)
BandFits(name, speed) ==
  CASE name = "parked" -> speed < UrbanEnter
    [] name = "urban" -> UrbanExit <= speed /\ speed < HighwayEnter
    [] name = "highway" -> HighwayExit <= speed
=============================================================================
