------------------------------ MODULE Feedback ------------------------------
(* What operators say of events (api/feedback.py), and who listens: the drift  *)
(* monitor and the active-learning sampler (services/drift.py) and the         *)
(* registry of vehicles (services/registry.py).  Handlers run on the event     *)
(* loop, which nothing interleaves with but the exports of samples: each runs  *)
(* on a thread of the pool, no lock keeps two apart, and each may meet a file  *)
(* that the loop is writing or another export has removed.                     *)
EXTENDS Common, Integers, Sequences, FiniteSets, SequencesExt, FiniteSetsExt, Functions

CONSTANTS Labelled,        \* the events there are
          FleetVehicle, Home,  \* vehicles, and VEHICLE_ID
          VehicleOf, RiskOf, KindOf,  \* what an event carries
          DriverOf,        \* the driver of a vehicle
          Ambiguous,       \* events in the decision band
          OnDisk,          \* the index in events.json, which no code here writes
          RecentMax,       \* MAX_RECENT_EVENTS
          LabelWindow, MinLabels, AlertBelow, TrendStep,  \* percentages
          Penalty, MaxScore, Recovery,
          Exporter,        \* threads of the pool that export
          MaxLabels,       \* bound: verdicts
          MaxExports, MaxDecays  \* bounds

Verdict == {"tp", "fp"}

ASSUME FeedbackAssumption ==
  /\ Home \in FleetVehicle /\ OnDisk \subseteq Labelled /\ Ambiguous \subseteq Labelled
  /\ VehicleOf \in [Labelled -> FleetVehicle] /\ DriverOf \in [FleetVehicle -> STRING \cup {None}]
  /\ DOMAIN RiskOf = Labelled /\ DOMAIN KindOf = Labelled
  /\ \A e \in Labelled : Penalty[RiskOf[e]] \in Nat
  /\ RecentMax \in Nat \ {0} /\ LabelWindow \in Nat \ {0} /\ MinLabels \in Nat \ {0}
  /\ MaxScore \in Nat /\ Recovery \in Nat /\ MaxLabels \in Nat

VARIABLES recentEvents,    \* state.recent_events
          labels,          \* feedback.jsonl
          hooks,           \* tasks _safe_hook() yet to run, oldest first
          registry,        \* RoadRegistry._vehicles
          samples,         \* the pending directory: event -> file
          writing,         \* the sample the loop is in the middle of writing, or None
          exporting,       \* what each export_batch() holds, or None
          second,          \* the clock, as the latest export read it
          archives,        \* the zip files, named by the second
          warnings,        \* Slack warnings: labels on file, event type blamed
          emitted,         \* history: events emitted
          writes,          \* history: samples written
          decays, exports  \* history

feedbackVars == <<recentEvents, labels, hooks, registry, samples, writing, exporting,
                  second, archives, warnings, emitted, writes, decays, exports>>
onLoop == <<recentEvents, emitted, labels, hooks, registry, writing, warnings, writes, decays>>
onThread == <<exporting, second, archives, exports>>

Fresh == [events |-> 0, high |-> 0, score |-> MaxScore, tp |-> 0, fp |-> 0]

FeedbackTypeOK ==
  /\ Len(recentEvents) <= RecentMax /\ Len(labels) <= MaxLabels
  /\ \A v \in DOMAIN registry : registry[v].score \in 0 .. MaxScore
  /\ \A e \in DOMAIN samples : samples[e].n \in 1 .. writes /\ samples[e].whole \in BOOLEAN
  /\ \A x \in Exporter : exporting[x] # None => exporting[x].phase \in {"read", "zip", "clear"}

FeedbackInit ==
  /\ recentEvents = <<>> /\ labels = <<>> /\ hooks = <<>> /\ registry = << >>
  /\ samples = << >> /\ writing = None /\ second = 0 /\ archives = << >>
  /\ warnings = <<>> /\ emitted = {} /\ writes = 0 /\ decays = 0 /\ exports = 0
  /\ exporting = [x \in Exporter |-> None]
-----------------------------------------------------------------------------
(* DriftMonitor: percentages stay fractions, a \ b, and are compared crosswise. *)

Count(window, verdict) == Cardinality({i \in DOMAIN window : window[i].verdict = verdict})

(* _window() *)
LabelsBack(offset) ==
  LET end == Len(labels) - offset
  IN IF end <= 0 THEN <<>> ELSE SubSeq(labels, Max({1, end - LabelWindow + 1}), end)

Precision(window) == [hit |-> Count(window, "tp"), of |-> Len(window)]

UnderPercent(p, percent) == 100 * p.hit < percent * p.of
Gained(p, q) == 100 * (p.hit * q.of - q.hit * p.of)   \* points p has over q, times p.of * q.of

(* _trend() *)
Trend ==
  LET current == Precision(LabelsBack(0))
      prior == Precision(LabelsBack(LabelWindow))
  IN IF prior.of < MinLabels THEN "stable"
     ELSE IF Gained(current, prior) >= TrendStep * prior.of * current.of THEN "improving"
     ELSE IF Gained(prior, current) >= TrendStep * prior.of * current.of THEN "degrading"
     ELSE "stable"

(* _load_events_index(): what a label's event was, as far as it is still known. *)
Index == OnDisk \cup ToSet(recentEvents)
Bucket(of, label) == IF label.event \in Index THEN of[label.event] ELSE "unknown"

(* _bucket_stats(): the verdicts of each bucket; None where they are too few.  *)
BucketStats(of, window) ==
  [b \in {Bucket(of, window[i]) : i \in DOMAIN window} |->
     LET mine == SelectSeq(window, LAMBDA l : Bucket(of, l) = b)
     IN IF Len(mine) < MinLabels THEN None ELSE Precision(mine)]

(* compute(), on every GET /api/drift and after every verdict.                 *)
Report ==
  LET window == LabelsBack(0)
      known == {window[i].event : i \in DOMAIN window}
  IN [precision |-> Precision(window), trend |-> Trend,
      byRisk |-> BucketStats(RiskOf, window), byType |-> BucketStats(KindOf, window),
      alert |-> Len(window) >= MinLabels /\ UnderPercent(Precision(window), AlertBelow),
      labeled |-> Cardinality(known),
      total |-> Max({Cardinality(Index), Cardinality(known)})]

(* drift_warning_message(): the type with the lowest precision, if one is known. *)
WorseType(p, q) == p.hit * q.of < q.hit * p.of

Blamed(report) ==
  LET known == {b \in DOMAIN report.byType : report.byType[b] # None}
      worst == {b \in known : ~\E c \in known : WorseType(report.byType[c], report.byType[b])}
  IN IF known = {} THEN {None} ELSE worst
-----------------------------------------------------------------------------
(* RoadRegistry *)

(* _ensure() *)
Vehicles(v) ==
  [u \in DOMAIN registry \cup {v} |-> IF u \in DOMAIN registry THEN registry[u] ELSE Fresh]

RecordEvent(e) ==
  LET v == VehicleOf[e]
  IN registry' = [Vehicles(v) EXCEPT
       ![v].events = @ + 1,
       ![v].high = IF RiskOf[e] = "high" THEN @ + 1 ELSE @,
       ![v].score = Max({0, @ - Penalty[RiskOf[e]]})]

(* A verdict on an event that rolled off counts for this vehicle.              *)
RecordFeedback(hook) ==
  LET v == IF hook.matched THEN VehicleOf[hook.event] ELSE Home
  IN registry' = IF hook.verdict = "tp" THEN [Vehicles(v) EXCEPT ![v].tp = @ + 1]
                 ELSE [Vehicles(v) EXCEPT ![v].fp = @ + 1]

(* decay_scores() *)
DecayScores ==
  /\ writing = None /\ decays < MaxDecays /\ decays' = decays + 1
  /\ registry' = [v \in DOMAIN registry |->
                    [registry[v] EXCEPT !.score = Min({MaxScore, @ + Recovery})]]
  /\ UNCHANGED <<recentEvents, emitted, labels, hooks, samples, writing, warnings, writes,
                 onThread>>

Worst(vs) == {v \in vs : \A u \in vs : registry[v].score <= registry[u].score}

Total(field, vs) == FoldSet(LAMBDA v, sum : sum + registry[v][field], 0, vs)

(* road_summary() *)
RoadSummary ==
  [vehicles |-> Cardinality(DOMAIN registry),
   events |-> Total("events", DOMAIN registry),
   high |-> Total("high", DOMAIN registry),
   lowest |-> Worst(DOMAIN registry)]

(* driver_leaderboard(): a driver is as good as the worst of the vehicles.     *)
Driver(v) == IF DriverOf[v] = None THEN v ELSE DriverOf[v]

Leaderboard ==
  LET Of(d) == {v \in DOMAIN registry : Driver(v) = d}
  IN [d \in {Driver(v) : v \in DOMAIN registry} |->
        [vehicles |-> Of(d),
         events |-> Total("events", Of(d)),
         high |-> Total("high", Of(d)),
         score |-> Min({registry[v].score : v \in Of(d)})]]
-----------------------------------------------------------------------------
(* ActiveLearningSampler._persist(): the file is emptied, then written; a full *)
(* disk ends it before or in the middle.                                       *)
Persist(e) ==
  \/ /\ writing' = e /\ writes' = writes + 1
     /\ samples' = [d \in DOMAIN samples \cup {e} |->
                     IF d = e THEN [n |-> writes + 1, whole |-> FALSE] ELSE samples[d]]
  \/ UNCHANGED <<writing, writes, samples>>

EndPersist ==
  /\ writing # None /\ writing' = None
  /\ \/ samples' = [e \in DOMAIN samples |->
                      IF e = writing THEN [samples[e] EXCEPT !.whole = TRUE] ELSE samples[e]]
     \/ UNCHANGED samples
  /\ UNCHANGED <<recentEvents, emitted, labels, hooks, registry, warnings, writes, decays,
                 onThread>>

(* _emit_event(): the buffer, the registry, then maybe_sample() and its coin.  *)
EmitEvent(e) ==
  /\ writing = None /\ e \notin emitted /\ emitted' = emitted \cup {e}
  /\ recentEvents' = IF Len(recentEvents) = RecentMax THEN Append(Tail(recentEvents), e)
                     ELSE Append(recentEvents, e)
  /\ RecordEvent(e)
  /\ \/ e \in Ambiguous /\ Persist(e)
     \/ UNCHANGED <<writing, writes, samples>>
  /\ UNCHANGED <<labels, hooks, warnings, decays, onThread>>

(* post_feedback(): a write that fails is answered with 500 and changes nothing. *)
PostFeedback(e, verdict) ==
  /\ writing = None /\ Len(labels) < MaxLabels
  /\ labels' = Append(labels, [event |-> e, verdict |-> verdict])
  /\ hooks' = Append(hooks, [event |-> e, verdict |-> verdict,
                             matched |-> e \in ToSet(recentEvents)])
  /\ UNCHANGED <<recentEvents, emitted, registry, samples, writing, warnings, writes, decays,
                 onThread>>

(* _on_feedback() *)
RunHook ==
  /\ writing = None /\ hooks # <<>>
  /\ LET hook == Head(hooks)
     IN /\ RecordFeedback(hook)
        /\ IF hook.verdict = "fp" /\ hook.matched THEN Persist(hook.event)
           ELSE UNCHANGED <<writing, writes, samples>>
  /\ hooks' = Tail(hooks)
  /\ IF Report.alert
     THEN \E b \in Blamed(Report) :
            warnings' = Append(warnings, [at |-> Len(labels), type |-> b])
     ELSE UNCHANGED warnings
  /\ UNCHANGED <<recentEvents, emitted, labels, decays, onThread>>
-----------------------------------------------------------------------------
(* export_batch(), in any number of threads of the pool at once.               *)

In(x, phase) == exporting[x] # None /\ exporting[x].phase = phase

(* The files there are, and the second: as an earlier export had it, or later; *)
(* between the two reads nothing happens that either depends on.               *)
StartExport(x) ==
  /\ exporting[x] = None /\ exports < MaxExports /\ DOMAIN samples # {}
  /\ second' \in {second, exports}
  /\ exporting' = [exporting EXCEPT ![x] =
                    [phase |-> "read", found |-> DOMAIN samples, todo |-> DOMAIN samples,
                     manifest |-> {}, second |-> second', contested |-> FALSE]]
  /\ exports' = exports + 1
  /\ UNCHANGED <<onLoop, samples, archives>>

(* A record that is gone, not whole, or cannot be read is skipped.             *)
ReadRecord(x, e) ==
  /\ In(x, "read") /\ e \in exporting[x].todo
  /\ \/ /\ e \in DOMAIN samples /\ samples[e].whole
        /\ exporting' = [exporting EXCEPT ![x].todo = @ \ {e},
                                          ![x].manifest = @ \cup {<<e, samples[e].n>>}]
     \/ exporting' = [exporting EXCEPT ![x].todo = @ \ {e}]
  /\ UNCHANGED <<onLoop, samples, second, archives, exports>>

Archive(s, content) ==
  archives' = [r \in DOMAIN archives \cup {s} |-> IF r = s THEN content ELSE archives[r]]

(* The zip is emptied: an export that has the zip of this second open, or has  *)
(* yet to clear what it put there, is contested, and so is one that opens a    *)
(* zip that another has open.                                                  *)
OpenZip(x) ==
  LET s == exporting[x].second
      rivals == {y \in Exporter \ {x} : (In(y, "zip") \/ In(y, "clear")) /\ exporting[y].second = s}
  IN /\ In(x, "read") /\ exporting[x].todo = {}
     /\ Archive(s, {})
     /\ exporting' = [y \in Exporter |->
          IF y = x THEN [exporting[x] EXCEPT !.phase = "zip",
                                             !.contested = \E r \in rivals : In(r, "zip")]
          ELSE IF y \in rivals THEN [exporting[y] EXCEPT !.contested = TRUE]
          ELSE exporting[y]]
     /\ UNCHANGED <<onLoop, samples, second, exports>>

(* What it leaves in the zip; where two write over each other, that of either, *)
(* or nothing of use.                                                          *)
Leaves(x) ==
  {exporting[x].manifest} \cup
    (IF exporting[x].contested THEN {{}, archives[exporting[x].second]} ELSE {})

CloseZip(x) ==
  /\ In(x, "zip")
  /\ \E content \in Leaves(x) : Archive(exporting[x].second, content)
  /\ exporting' = [exporting EXCEPT ![x].phase = "clear", ![x].todo = exporting[x].found]
  /\ UNCHANGED <<onLoop, samples, second, exports>>

(* The zip cannot be opened, or not all of it be written: nothing is cleared.  *)
ExportFails(x) ==
  /\ \/ In(x, "read") /\ UNCHANGED archives
     \/ In(x, "zip") /\ \E content \in {{}} \cup Leaves(x) : Archive(exporting[x].second, content)
  /\ exporting' = [exporting EXCEPT ![x] = None]
  /\ UNCHANGED <<onLoop, samples, second, exports>>

(* Mistake: the directory is emptied.                                          *)
ClearEverything(x, e) ==
  /\ In(x, "clear") /\ e \in DOMAIN samples
  /\ samples' = Restrict(samples, DOMAIN samples \ {e})
  /\ exporting' = [exporting EXCEPT ![x] = IF DOMAIN samples = {e} THEN None ELSE @]
  /\ UNCHANGED <<onLoop, second, archives, exports>>

(* An export has cleared e; it ends with the last.                             *)
Rest(x, e) ==
  IF exporting[x].todo = {e} THEN None ELSE [exporting[x] EXCEPT !.todo = @ \ {e}]

(* A file that is gone, or that cannot be removed, is passed over.             *)
ClearRecord(x, e) ==
  /\ In(x, "clear") /\ e \in exporting[x].todo
  /\ samples' = Restrict(samples, DOMAIN samples \ {e}) \/ UNCHANGED samples
  /\ exporting' = [exporting EXCEPT ![x] = Rest(x, e)]
  /\ UNCHANGED <<onLoop, second, archives, exports>>
-----------------------------------------------------------------------------
FeedbackNext ==
  \/ EndPersist \/ RunHook \/ DecayScores
  \/ \E x \in Exporter : StartExport(x) \/ OpenZip(x) \/ CloseZip(x) \/ ExportFails(x)
  \/ \E e \in Labelled :
       \/ EmitEvent(e)
       \/ \E x \in Exporter : ReadRecord(x, e) \/ ClearRecord(x, e)
       \/ \E verdict \in Verdict : PostFeedback(e, verdict)

FeedbackSpec == FeedbackInit /\ [][FeedbackNext]_feedbackVars
-----------------------------------------------------------------------------
(* A sample leaves the directory only at the hands of an export that found it  *)
(* there and still had to clear it, and then what that export read of it is in *)
(* the archive, unless another export opened the zip of the same second before *)
(* this one was done; it is the newest text unless the export could not read   *)
(* the file or the loop wrote it again afterwards.                             *)
Read(x, e) == {pair \in exporting[x].manifest : pair[1] = e}

Clears(x, e) ==
  In(x, "clear") /\ e \in exporting[x].found \cap exporting[x].todo /\ exporting'[x] # exporting[x]

SamplesLeaveByExport ==
  [][\A e \in DOMAIN samples \ DOMAIN samples' : \E x \in Exporter :
       /\ Clears(x, e)
       /\ \A pair \in Read(x, e) :
            /\ pair \in archives[exporting[x].second] \/ exporting[x].contested
            /\ pair[2] <= samples[e].n]_feedbackVars

(* What a sample's export skipped or what was disputed again meanwhile is lost: *)
(* "every disputed verdict goes straight to the pending queue".                *)
DisputedIsExported ==
  [][\A e \in DOMAIN samples \ DOMAIN samples' : \E x \in Exporter :
       Clears(x, e) /\ <<e, samples[e].n>> \in Read(x, e)]_feedbackVars

(* "post a one-off Slack warning".                                             *)
OneOffWarning == Len(warnings) <= 1

(* "Event type '..' driving the degradation".                                *)
BlamedIsBelow ==
  [][Len(warnings') > Len(warnings) =>
       LET b == Last(warnings').type
       IN b # None => ~WorseType(Report.precision, Report.byType[b])]_feedbackVars

(* "zip the queue, clear it, and hand the zip off to a labeling tool": of two   *)
(* exports in one second the later replaces the zip of the earlier.            *)
ArchivesKept ==
  [][\A x \in Exporter : OpenZip(x) => exporting[x].second \notin DOMAIN archives]_feedbackVars
=============================================================================
