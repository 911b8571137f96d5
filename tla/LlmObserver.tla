---------------------------- MODULE LlmObserver ----------------------------
(* services/llm_obs.py: the newest calls to models, and counts of all of them. *)
(* record() runs under a lock, so a step of a caller makes a whole record.     *)
EXTENDS Common, Integers, Sequences, FiniteSets, SequencesExt, FiniteSetsExt

CONSTANTS RingMax,       \* MAX_RECORDS
          Price          \* of a thousand tokens, by model; "default" for others

ASSUME ObserverAssumption == RingMax \in Nat \ {0} /\ "default" \in DOMAIN Price

VARIABLES ring,          \* _records
          totals         \* _total_calls, _total_errors, _total_skips

observerVars == <<ring, totals>>

ObserverInit == ring = <<>> /\ totals = [calls |-> 0, errors |-> 0, skips |-> 0]

LastOf(s, n) == IF Len(s) > n THEN SubSeq(s, Len(s) - n + 1, Len(s)) ELSE s

Record(r) ==
  /\ ring' = LastOf(Append(ring, r), RingMax)
  /\ totals' = [calls |-> totals.calls + 1,
                errors |-> totals.errors + (IF r.ok THEN 0 ELSE 1),
                skips |-> totals.skips + (IF r.skip # None THEN 1 ELSE 0)]

Answered(kind, model, tokens, took) ==
  [kind |-> kind, model |-> model, tokens |-> tokens, took |-> took, ok |-> TRUE,
   skip |-> None, error |-> None]
Failed(kind, model, took, error) ==
  [Answered(kind, model, 0, took) EXCEPT !.ok = FALSE, !.error = error]

(* record_skip() *)
Skipped(kind, model, reason) == [Answered(kind, model, 0, 0) EXCEPT !.skip = reason]
-----------------------------------------------------------------------------
(* stats() over the records of a window.                                       *)

Cost(r) == r.tokens * Price[IF r.model \in DOMAIN Price THEN r.model ELSE "default"]

Timed(rs, at) == {i \in at : rs[i].ok /\ rs[i].skip = None /\ rs[i].took > 0}

(* The k-th of the sorted latencies.                                           *)
Latency(rs, timed, k) ==
  LET UpTo(i) == {j \in timed : rs[j].took <= rs[i].took}
  IN Min({rs[i].took : i \in {j \in timed : Cardinality(UpTo(j)) >= k}})

(* Twice the median, which may be half a unit.                                 *)
TwiceP50(rs, timed) ==
  LET n == Cardinality(timed)
  IN IF n = 0 THEN 0
     ELSE Latency(rs, timed, (n + 1) \div 2) + Latency(rs, timed, n \div 2 + 1)

P95(rs, timed) ==
  LET n == Cardinality(timed)
  IN IF n = 0 THEN 0 ELSE Latency(rs, timed, (95 * n) \div 100 + 1)

Group(rs, at) ==
  [calls |-> Cardinality(at), errors |-> Cardinality({i \in at : ~rs[i].ok}),
   skips |-> Cardinality({i \in at : rs[i].skip # None}),
   cost |-> MapThenSumSet(LAMBDA i : Cost(rs[i]), at),
   p50 |-> TwiceP50(rs, Timed(rs, at)), p95 |-> P95(rs, Timed(rs, at))]

Split(rs, key) ==
  [k \in {rs[i][key] : i \in DOMAIN rs} |-> Group(rs, {i \in DOMAIN rs : rs[i][key] = k})]

TopErrors(rs) ==
  LET failed == {i \in DOMAIN rs : ~rs[i].ok /\ rs[i].error # None}
  IN [e \in {rs[i].error : i \in failed} |-> Cardinality({i \in failed : rs[i].error = e})]

Stats(rs) ==
  [all |-> Group(rs, DOMAIN rs), allTime |-> totals, byKind |-> Split(rs, "kind"),
   byModel |-> Split(rs, "model"), topErrors |-> TopErrors(rs)]
=============================================================================
