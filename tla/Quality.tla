------------------------------ MODULE Quality ------------------------------
(* core/quality.py: the rolling image and confidence averages of a camera and  *)
(* the state they are read as.  Luminance is in grey levels, clipped pixels    *)
(* and confidence in hundredths.  An average moves from its old value toward   *)
(* the sample: any value of the grid from the one to the other stands for it.  *)
EXTENDS Integers, Sequences, FiniteSetsExt, Common

CONSTANTS LumGrid, SharpGrid, SatGrid, ConfGrid,  \* values the averages take
          LowLight, BlurSharp,                    \* the two tunable thresholds
          MinSamples                              \* low_conf_min_samples

QualityState == {"nominal", "overexposed", "low_light", "blur", "low_confidence"}

QualityInit == [lum |-> None, sharp |-> None, sat |-> None, conf |-> None,
                samples |-> 0, state |-> "nominal"]

(* The averages after one sample (an exponentially weighted mean).             *)
Averages(old, sample, grid) ==
  IF old = None THEN {sample}
  ELSE {old, sample} \cup
       {v \in grid : (old <= v /\ v <= sample) \/ (sample <= v /\ v <= old)}

(* trip(): the factor of 1.2 moves the threshold away from nominal.            *)
OverLimit(metric, limit, inside) ==
  metric # None /\ 10 * metric > (IF inside THEN 12 ELSE 10) * limit
UnderLimit(metric, limit, inside) ==
  metric # None /\ (IF inside THEN 12 ELSE 10) * metric < 10 * limit

Trips(q, s) ==
  LET inside == q.state = s
  IN CASE s = "overexposed"    -> OverLimit(q.sat, 25, inside) /\ OverLimit(q.lum, 220, inside)
       [] s = "low_light"      -> UnderLimit(q.lum, LowLight, inside)
       [] s = "blur"           -> UnderLimit(q.sharp, BlurSharp, inside)
       [] s = "low_confidence" -> q.samples > MinSamples /\ UnderLimit(q.conf, 42, inside)

(* _reclassify(): the first that trips, in this order.                         *)
Causes == <<"overexposed", "low_light", "blur", "low_confidence">>

Reclassified(q) ==
  LET tripped == {i \in DOMAIN Causes : Trips(q, Causes[i])}
  IN [q EXCEPT !.state = IF tripped = {} THEN "nominal" ELSE Causes[Min(tripped)]]

(* observe_frame(): an image that cannot be read changes nothing, a frame      *)
(* without detections leaves the confidence alone.                             *)
Averaged(q, lum, sharp, sat, conf) ==
  [q EXCEPT !.lum = lum, !.sharp = sharp, !.sat = sat, !.conf = conf,
            !.samples = IF @ > MinSamples THEN @ ELSE @ + 1]

Observed(q, image, conf) ==
  IF image = None THEN {q}
  ELSE {Reclassified(Averaged(q, l, sh, st, c)) :
          l \in Averages(q.lum, image.lum, LumGrid),
          sh \in Averages(q.sharp, image.sharp, SharpGrid),
          st \in Averages(q.sat, image.sat, SatGrid),
          c \in IF conf = None THEN {q.conf} ELSE Averages(q.conf, conf, ConfGrid)}

(* risk_adjustment(), in tenths.                                               *)
TtcFactor == [nominal |-> 10, low_light |-> 17, blur |-> 15,
              low_confidence |-> 13, overexposed |-> 15]
PixelFactor == [nominal |-> 10, low_light |-> 13, blur |-> 12,
                low_confidence |-> 11, overexposed |-> 13]
=============================================================================
