------------------------------ MODULE Watchdog ------------------------------
(* services/watchdog.py: a loop that looks at a health snapshot, writes down   *)
(* what is wrong and shows the findings on file as a queue of incidents.       *)
EXTENDS Clock, Sequences, FiniteSets, SequencesExt, FiniteSetsExt

CONSTANTS Health,          \* what the subsystems may report
          AiAnswers,       \* what the model may answer: sets of at most three items
          Interval,        \* WATCHDOG_INTERVAL_SEC
          TailMax,         \* how many lines stats() reads
          Warm,            \* frames a reader has read before its rate is judged
          Subsample,       \* frames read for one processed
          TargetRate,      \* TARGET_FPS
          MaxFrames, MaxRestarts, MaxDismissals, MaxForeign,  \* bounds
          WatchdogEnd      \* bound: the last tick

ASSUME WatchdogAssumption ==
  /\ Interval \in Nat \ {0} /\ TailMax \in Nat \ {0}
  /\ Warm \in Nat /\ Subsample \in Nat \ {0} /\ TargetRate \in Nat
  /\ MaxFrames \in Nat /\ MaxRestarts \in Nat /\ MaxDismissals \in Nat
  /\ MaxForeign \in Nat /\ WatchdogEnd \in Nat
  /\ \A answer \in AiAnswers : IsFiniteSet(answer) /\ Cardinality(answer) <= 3

VARIABLES reader,          \* the primary slot's StreamReader: its counters
          prev,            \* _prev_snapshot
          nextRun,         \* when the loop wakes
          asking,          \* the snapshot and findings of a check that waits, or None
          file,            \* the findings in watchdog.jsonl
          foreign,         \* history: findings of the validator
          dismissals       \* history: requests to dismiss

watchdogVars == <<reader, prev, nextRun, asking, file, foreign, dismissals>>

Rank == [info |-> 1, warning |-> 2, error |-> 3]

WatchdogTypeOK ==
  /\ reader \in [n : 0 .. MaxRestarts, since : 0 .. now, processed : 0 .. MaxFrames,
                 alive : BOOLEAN]
  /\ \A i \in DOMAIN file :
       /\ file[i].severity \in DOMAIN Rank /\ file[i].source \in {"rule", "ai"}
       /\ file[i].ts \in 0 .. now
  /\ nextRun \in 0 .. WatchdogEnd + Interval

WatchdogInit ==
  /\ reader = [n |-> 0, since |-> 0, processed |-> 0, alive |-> TRUE]
  /\ prev = None /\ asking = None
  /\ nextRun = 0 /\ file = <<>> /\ foreign = 0 /\ dismissals = 0
-----------------------------------------------------------------------------
(* The rules, each group over its part of the snapshot *)

Raise(cond, fp, severity) ==
  IF cond THEN {[fp |-> fp, severity |-> severity, source |-> "rule"]} ELSE {}

ErrorIf(bad) == IF bad THEN "error" ELSE "warning"

PerceptionFindings(h) ==
  Raise(h.state = "degraded", "perception/degraded", "warning")
  \cup Raise(h.state = "failed", "perception/failed", "error")
  \cup Raise(h.state = "nominal" /\ h.confidence < 70 /\ h.samples >= 10,
             "perception/confidence-low", "info")

DriftFindings(h) ==
  LET labels == h.tp + h.fp
  IN Raise(h.events >= 5 /\ h.coverage = 0, "drift/feedback-coverage", ErrorIf(h.events >= 8))
     \cup Raise(h.events >= 10 /\ h.coverage \in 1 .. 14,
                "drift/feedback-coverage-thin", "warning")
     \cup Raise(h.trend = "degrading" /\ labels >= 3, "drift/precision-degrading", "warning")
     \cup Raise(h.alert, "drift/precision-alert", "error")
     \cup Raise(h.collapsed /\ labels > 1, "drift/window-collapsed", "warning")
     \cup Raise(h.fp > 0 /\ h.tp = 0, "drift/false-positive-spike", "warning")
     \cup Raise(h.recent >= 5 /\ h.unknown >= 50, "drift/taxonomy-unknown", "warning")

LlmFindings(h, p) ==
  Raise(h.calls >= 5 /\ h.errors > 20, "llm/error-rate", ErrorIf(h.errors >= 50))
  \cup Raise(h.p95 > 10000, "llm/latency", ErrorIf(h.p95 > 12000))
  \cup Raise(p # None /\ h.calls >= 5 /\ p.p50 >= 500 /\ 2 * h.p50 > 3 * p.p50,
             "llm/latency-jump", "warning")
  \cup Raise(h.tokenless, "llm/token-instrumentation", "warning")

Delta(s, p) == s.processed - (IF p = None THEN 0 ELSE p.processed)

ReaderRestarted(s, p) == p # None /\ (s.uptime < p.uptime \/ Delta(s, p) < 0)

StreamFindings(s, p) ==
  LET judged == p # None /\ ~ReaderRestarted(s, p)
  IN Raise(~s.alive, "stream/stopped", "error")
     \cup Raise(judged /\ s.alive /\ Delta(s, p) <= 0, "stream/stalled", "error")
     \cup Raise(judged /\ TargetRate > 0 /\ Subsample * s.processed > Warm
                /\ 2 * Delta(s, p) < TargetRate * Interval, "stream/fps-low", "warning")

(* _rule_checks() *)
RuleChecks(s, p) ==
  PerceptionFindings(s.health) \cup DriftFindings(s.health)
  \cup LlmFindings(s.health, IF p = None THEN None ELSE p.health) \cup StreamFindings(s, p)
-----------------------------------------------------------------------------
(* The reader of the primary slot, which may be replaced by a new one.         *)

Frame ==
  /\ reader.alive /\ reader.processed < MaxFrames
  /\ reader' = [reader EXCEPT !.processed = @ + 1]
  /\ UNCHANGED <<prev, nextRun, asking, file, foreign, dismissals, now>>

ReaderDies ==
  /\ reader.alive
  /\ reader' = [reader EXCEPT !.alive = FALSE]
  /\ UNCHANGED <<prev, nextRun, asking, file, foreign, dismissals, now>>

RestartReader ==
  /\ reader.n < MaxRestarts
  /\ reader' = [n |-> reader.n + 1, since |-> now, processed |-> 0, alive |-> TRUE]
  /\ UNCHANGED <<prev, nextRun, asking, file, foreign, dismissals, now>>
-----------------------------------------------------------------------------
(* check_once(), from the snapshot to the question put to the model.           *)
Collect ==
  /\ asking = None /\ now >= nextRun
  /\ \E h \in Health :
       LET s == [health |-> h, n |-> reader.n, uptime |-> now - reader.since,
                 processed |-> reader.processed, alive |-> reader.alive]
       IN asking' = [snapshot |-> s, rules |-> RuleChecks(s, prev), at |-> now]
  /\ UNCHANGED <<reader, prev, nextRun, file, foreign, dismissals, now>>

(* A snapshot that cannot be taken costs the check.                            *)
CollectFails ==
  /\ asking = None /\ now >= nextRun
  /\ nextRun' = now + Interval
  /\ UNCHANGED <<reader, prev, asking, file, foreign, dismissals, now>>

(* Findings of one moment carry one snapshot id and one time.                  *)
Lines(found, at, id) ==
  SetToSeq({[fp |-> f.fp, severity |-> f.severity, source |-> f.source, ts |-> at, id |-> id] :
              f \in found})

(* The model's hypotheses that no rule of this check raised.                   *)
NewFromAi(answer, rules) ==
  {[fp |-> a.fp, severity |-> a.severity, source |-> "ai"] :
     a \in {b \in answer : /\ b.severity \in {"error", "warning"}
                         /\ \A r \in rules : b.fp # r.fp}}

(* check_once(), once the model has answered or failed to; the disk may be     *)
(* full, and what is then not written is not written later.                    *)
Conclude(answer) ==
  /\ asking # None
  /\ \/ file' = file \o Lines(asking.rules, asking.at, <<"rule", asking.at>>)
                     \o Lines(NewFromAi(answer, asking.rules), now, <<"ai", now>>)
     \/ UNCHANGED file
  /\ prev' = asking.snapshot /\ asking' = None
  /\ nextRun' = now + Interval
  /\ UNCHANGED <<reader, foreign, dismissals, now>>

(* The validator writes to the same file at any time.                          *)
WriteFinding ==
  /\ foreign < MaxForeign
  /\ foreign' = foreign + 1
  /\ file' = file \o Lines({[fp |-> "validator/false-negative", severity |-> "warning",
                             source |-> "rule"]}, now, <<"validator", foreign>>)
  /\ UNCHANGED <<reader, prev, nextRun, asking, dismissals, now>>

(* delete_findings_by_id(): by snapshot id and time.                           *)
Without(lines, keys) ==
  FoldLeft(LAMBDA kept, f : IF <<f.id, f.ts>> \in keys THEN kept ELSE Append(kept, f), <<>>, lines)

DeleteById(keys) ==
  /\ dismissals < MaxDismissals /\ dismissals' = dismissals + 1
  /\ file' = Without(file, keys)
  /\ UNCHANGED <<reader, prev, nextRun, asking, foreign, now>>

(* delete_findings(), and either of the two when the disk is full: the file    *)
(* was emptied to be written anew.                                             *)
Empty ==
  /\ dismissals < MaxDismissals /\ dismissals' = dismissals + 1
  /\ file' = <<>>
  /\ UNCHANGED <<reader, prev, nextRun, asking, foreign, now>>
-----------------------------------------------------------------------------
(* _group_findings(): one finding folded into its incident.                    *)

Seed(f) == [fp |-> f.fp, severity |-> f.severity, count |-> 1,
            first |-> f.ts, last |-> f.ts, latest |-> f]

(* Mistake: the severity is the newest one.                                    *)
FoldNewest(g, f) ==
  [g EXCEPT !.count = @ + 1,
            !.severity = f.severity,
            !.first = Min({@, f.ts}),
            !.last = Max({@, f.ts}),
            !.latest = IF f.ts > g.last THEN f ELSE @]

FoldIn(g, f) ==
  [g EXCEPT !.count = @ + 1,
            !.severity = IF Rank[f.severity] > Rank[@] THEN f.severity ELSE @,
            !.first = Min({@, f.ts}),
            !.last = Max({@, f.ts}),
            !.latest = IF f.ts > g.last THEN f ELSE @]

AddFinding(groups, f) ==
  IF \E g \in groups : g.fp = f.fp
  THEN {IF g.fp = f.fp THEN FoldIn(g, f) ELSE g : g \in groups}
  ELSE groups \cup {Seed(f)}

GroupFindings(lines) == FoldLeft(AddFinding, {}, lines)

(* tail(), stats() *)
TailLines == SubSeq(file, Max({1, Len(file) - TailMax + 1}), Len(file))

Incidents == GroupFindings(TailLines)

(* The order of the top incidents.                                             *)
Above(i, j) ==
  \/ Rank[i.severity] > Rank[j.severity]
  \/ i.severity = j.severity /\ i.count > j.count
  \/ i.severity = j.severity /\ i.count = j.count /\ i.last < j.last
-----------------------------------------------------------------------------
WatchdogTick == Tick(WatchdogEnd) /\ UNCHANGED watchdogVars

WatchdogNext ==
  \/ WatchdogTick
  \/ Frame \/ ReaderDies \/ RestartReader
  \/ Collect \/ CollectFails \/ WriteFinding \/ Empty
  \/ \E answer \in AiAnswers : Conclude(answer)
  \/ \E f \in ToSet(file) : DeleteById({<<f.id, f.ts>>})

WatchdogSpec == WatchdogInit /\ ClockInit /\ [][WatchdogNext]_<<watchdogVars, now>>
-----------------------------------------------------------------------------
(* Whatever rules, model and validator wrote, in what order, and whatever was  *)
(* dismissed, an incident has one row: it counts the findings on file, is as   *)
(* severe as the worst, and shows the first, the last and the latest of them.  *)
IncidentsSummariseFile ==
  LET lines == TailLines
      Of(fp) == {i \in DOMAIN lines : lines[i].fp = fp}
      Times(fp) == {lines[i].ts : i \in Of(fp)}
  IN /\ {i.fp : i \in Incidents} = {l.fp : l \in ToSet(lines)}
     /\ \A i, j \in Incidents : i.fp = j.fp => i = j
     /\ \A g \in Incidents :
          /\ g.count = Cardinality(Of(g.fp))
          /\ \A i \in Of(g.fp) : Rank[lines[i].severity] <= Rank[g.severity]
          /\ g.severity \in {lines[i].severity : i \in Of(g.fp)}
          /\ g.first = Min(Times(g.fp)) /\ g.last = Max(Times(g.fp))
          /\ g.latest.ts = g.last /\ g.latest \in {lines[i] : i \in Of(g.fp)}
-----------------------------------------------------------------------------
(* What comments say and the code does not do.                                 *)

Alarms == {"stream/stalled", "stream/fps-low"}

(* "throughput detectors below can skip this tick instead of firing".          *)
NoAlarmAfterRestart ==
  asking # None /\ prev # None /\ asking.snapshot.n # prev.n
    => \A f \in asking.rules : f.fp \notin Alarms

(* "ties with the most recent winning".                                        *)
RecentFirst ==
  \A i, j \in Incidents :
    i.severity = j.severity /\ i.count = j.count /\ i.last > j.last => ~Above(j, i)

(* "the queue does not show a rule and an AI version side-by-side".            *)
StoppedOnce ==
  \A i, j \in DOMAIN file :
    file[i].fp = "stream/stopped" /\ file[j].fp = "stream/stalled" /\ file[j].source = "ai"
      => file[i].id[2] # file[j].id[2]
=============================================================================
