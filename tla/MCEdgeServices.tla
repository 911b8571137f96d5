--------------------------- MODULE MCEdgeServices ---------------------------
(* EdgeServices on small instances of each service.                            *)
EXTENDS EdgeServices, TLC

CONSTANTS f1, f2, a1, a2, a3, r1, r2      \* labelled events, alerts, requests

(* Capture threads are interchangeable, and so are enrichments and exports.    *)
ServicesSymmetry ==
  Permutations(Source) \cup Permutations(Enrichment) \cup Permutations(Exporter)
-----------------------------------------------------------------------------
(* Watchdog: a healthy edge, and one that sees badly while the model is slow.  *)
Fine == [state |-> "nominal", confidence |-> 90, samples |-> 20, events |-> 0, tp |-> 0,
         fp |-> 0, coverage |-> 0, trend |-> "stable", alert |-> FALSE, collapsed |-> FALSE,
         recent |-> 0, unknown |-> 0, calls |-> 0, errors |-> 0, p95 |-> 0, p50 |-> 600,
         tokenless |-> FALSE]
TwoHealths == {Fine, [Fine EXCEPT !.state = "degraded", !.calls = 5, !.p50 = 1000]}

(* One finding of the model names a rule's, one is its own.                    *)
TwoAnswers == {{}, {[fp |-> "perception/degraded", severity |-> "error"],
                    [fp |-> "stream/stalled", severity |-> "warning"]}}
-----------------------------------------------------------------------------
(* Feedback: a risky event of the home car and one of a van, one driver.       *)
TwoVehicles == {"car", "van"}
FeedbackVehicle == (f1 :> "car") @@ (f2 :> "van")
FeedbackRisk == (f1 :> "high") @@ (f2 :> "low")
FeedbackKind == (f1 :> "near") @@ (f2 :> "tail")
OneDriver == [v \in TwoVehicles |-> "ann"]
RiskPenalty == [high |-> 3, low |-> 1]

(* Slack: one alert of each risk, the high one sustained.                      *)
ThreeRisks == (a1 :> "high") @@ (a2 :> "medium") @@ (a3 :> "low")
OneSure == [a \in {a1, a2, a3} |-> 1]

(* Agents: a run of each endpoint; turns that find, miss and name no tool.     *)
Use(name, arg) == [name |-> name, arg |-> arg, type |-> "near", limit |-> 1]
ThreeTurns == {<<Use("get_event", "n1"), Use("get_policy", "road")>>,
               <<Use("count_by_type", None), Use("get_recent_events", "high")>>,
               <<Use("magic", None), Use("count_by_risk", None)>>}
TwoKinds == (r1 :> "coaching") @@ (r2 :> "investigation")
TwoNews == <<"n1", "n2">>
NewsRisk == [n1 |-> "high", n2 |-> "low"]
NewsType == [n1 |-> "near", n2 |-> "tail"]
OneVerdict == <<"tp">>
ModelPrice == [haiku |-> 1, default |-> 2]
-----------------------------------------------------------------------------
(* Perception: images that are dark or not, a camera that stands or moves, a    *)
(* car that closes in and a person.                                            *)
TwoImages == {[lum |-> l, sharp |-> 60, sat |-> 5] : l \in {40, 50}}
TwoMeasures == {[up |-> 0, textured |-> 50], [up |-> 3, textured |-> 50]}
TwoReadings == {None, 120}
OneEnvelope == {<<1, 2>>}
CarAndPerson ==
  {<<[cls |-> "car", conf |-> 70, x |-> 100, dx |-> 10, y |-> 300, dy |-> 5,
      w |-> 60, h |-> 50, grow |-> 8],
     [cls |-> "person", conf |-> 40, x |-> 200, dx |-> -5, y |-> 300, dy |-> 5,
      w |-> 20, h |-> 60, grow |-> 0]>>}
Both == {{1, 2}}
=============================================================================
