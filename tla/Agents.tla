------------------------------- MODULE Agents -------------------------------
(* services/agents.py: a model that is given tools is asked again with what    *)
(* they returned until it answers or has been asked MAX_STEPS times.  Runs     *)
(* share nothing but the event buffer, the feedback file and the observer.     *)
EXTENDS LlmObserver

CONSTANTS AgentRun, AgentKind,  \* requests, and the endpoint of each
          ToolUses,       \* what the model may ask for in one turn
          Policies,       \* files of the policy corpus
          BufferMax, BufferRisk, BufferType,  \* the event buffer; what an event carries
          StepMax,        \* MAX_STEPS
          Verdicts,       \* lines of feedback.jsonl
          AgentNews,      \* the events that come, oldest first
          MaxSkips        \* bound: narrations refused meanwhile

ASSUME AgentAssumption ==
  /\ StepMax \in Nat \ {0} /\ BufferMax \in Nat \ {0}
  /\ AgentNews \in Seq(ToSet(AgentNews))
  /\ \A uses \in ToolUses : uses \in Seq(ToSet(uses)) /\ uses # <<>>
  /\ \A r \in AgentRun : AgentKind[r] # "narration"
  /\ None # "rate_budget_exhausted"

VARIABLES agentKey,       \* an Anthropic key is configured
          runs,           \* each request: its conversation and its end
          agentBuffer, came,   \* the event buffer; history: events that came
          recorded        \* history: the kinds of calls that recorded, oldest first

agentVars == <<agentKey, runs, agentBuffer, came, recorded, observerVars>>

Idle == [stage |-> "idle", turns |-> <<>>, log |-> <<>>, step |-> 0, ok |-> FALSE]

AgentTypeOK ==
  /\ came \in 0 .. Len(AgentNews) /\ Len(agentBuffer) <= BufferMax /\ Len(ring) <= RingMax
  /\ \A r \in AgentRun :
       /\ runs[r].stage \in {"idle", "asking", "ended", "refused", "raised"}
       /\ runs[r].step \in 0 .. StepMax /\ runs[r].ok \in BOOLEAN

AgentInit ==
  /\ agentKey \in BOOLEAN /\ runs = [r \in AgentRun |-> Idle]
  /\ agentBuffer = <<>> /\ came = 0 /\ recorded = <<>> /\ ObserverInit
-----------------------------------------------------------------------------
(* The tools: pure reads.  None stands for an answer that reports an error.    *)

(* tool_get_event() *)
GetEvent(id) == IF id \in ToSet(agentBuffer) THEN id ELSE None

(* tool_get_recent_events(): a limit of zero keeps them all.                   *)
GetRecentEvents(risk, type, limit) ==
  LET all == SelectSeq(agentBuffer, LAMBDA e : /\ risk \in {None, BufferRisk[e]}
                                               /\ type \in {None, BufferType[e]})
  IN IF limit = 0 THEN all ELSE LastOf(all, limit)

(* tool_get_policy() *)
GetPolicy(name) ==
  IF Policies = {} THEN None
  ELSE IF name = None THEN Policies
  ELSE IF name \in Policies THEN {name} ELSE None

(* tool_get_feedback() *)
GetFeedback(limit) == IF limit = 0 THEN Verdicts ELSE LastOf(Verdicts, limit)

(* tool_count_by_type(), tool_count_by_risk() *)
CountBy(of) ==
  [k \in {of[agentBuffer[i]] : i \in DOMAIN agentBuffer} |->
     Cardinality({i \in DOMAIN agentBuffer : of[agentBuffer[i]] = k})]

(* _dispatch_tool(); the drift monitor answers with its report.                *)
DispatchTool(use) ==
  CASE use.name = "get_event" -> GetEvent(use.arg)
    [] use.name = "get_recent_events" -> GetRecentEvents(use.arg, use.type, use.limit)
    [] use.name = "get_policy" -> GetPolicy(use.arg)
    [] use.name = "get_feedback" -> GetFeedback(use.limit)
    [] use.name = "get_drift_report" -> "report"
    [] use.name = "count_by_type" -> CountBy(BufferType)
    [] use.name = "count_by_risk" -> CountBy(BufferRisk)
    [] OTHER -> None

(* Mistake: the turn ends with the first tool that reports an error.           *)
ResultsUntilError(uses) ==
  LET bad == {i \in DOMAIN uses : DispatchTool(uses[i]) = None}
      last == IF bad = {} THEN Len(uses) ELSE Min(bad) - 1
  IN [i \in 1 .. last |-> [answers |-> <<i, uses[i]>>, content |-> DispatchTool(uses[i])]]

(* Every tool asked for in the turn, in order.                                 *)
Results(uses) ==
  [i \in DOMAIN uses |-> [answers |-> <<i, uses[i]>>, content |-> DispatchTool(uses[i])]]

(* A policy file that cannot be decoded, or a limit that is no number, raises. *)
MayRaise(uses) ==
  \E i \in DOMAIN uses : uses[i].name = "get_policy" /\ uses[i].arg \in Policies
-----------------------------------------------------------------------------
(* run() *)

End(r, run, ok) ==
  /\ runs' = [runs EXCEPT ![r] = [run EXCEPT !.stage = "ended", !.ok = ok]]
  /\ recorded' = Append(recorded, AgentKind[r])

StartAgent(r) ==
  /\ runs[r].stage = "idle"
  /\ runs' = [runs EXCEPT ![r].stage = IF agentKey THEN "asking" ELSE "refused"]
  /\ UNCHANGED <<agentKey, agentBuffer, came, recorded, observerVars>>

ModelFails(r) ==
  /\ runs[r].stage = "asking"
  /\ End(r, runs[r], FALSE)
  /\ Record(Failed(AgentKind[r], "haiku", 1, "unreachable"))
  /\ UNCHANGED <<agentKey, agentBuffer, came>>

(* Tokens are those of this last answer.                                       *)
ModelAnswers(r) ==
  /\ runs[r].stage = "asking"
  /\ End(r, [runs[r] EXCEPT !.step = @ + 1], TRUE)
  /\ Record(Answered(AgentKind[r], "haiku", 1, 1))
  /\ UNCHANGED <<agentKey, agentBuffer, came>>

ModelAsksTools(r, uses) ==
  /\ runs[r].stage = "asking"
  /\ LET run == [runs[r] EXCEPT
           !.turns = @ \o << [asks |-> uses], [results |-> Results(uses)] >>,
           !.log = @ \o [i \in DOMAIN uses |-> uses[i].name],
           !.step = @ + 1]
     IN IF run.step = StepMax
        THEN End(r, run, TRUE) /\ Record(Answered(AgentKind[r], "haiku", 0, 1))
        ELSE runs' = [runs EXCEPT ![r] = run] /\ UNCHANGED <<recorded, observerVars>>
  /\ UNCHANGED <<agentKey, agentBuffer, came>>

ToolRaises(r, uses) ==
  /\ runs[r].stage = "asking" /\ MayRaise(uses)
  /\ runs' = [runs EXCEPT ![r].stage = "raised"]
  /\ UNCHANGED <<agentKey, agentBuffer, came, recorded, observerVars>>

(* An event comes while the model thinks; the oldest may roll off.             *)
EventComes ==
  /\ came < Len(AgentNews) /\ came' = came + 1
  /\ agentBuffer' = LastOf(Append(agentBuffer, AgentNews[came + 1]), BufferMax)
  /\ UNCHANGED <<agentKey, runs, recorded, observerVars>>

(* The narration of an event is refused by its budget: the observer is shared. *)
NarrationSkipped ==
  /\ totals.skips < MaxSkips
  /\ Record(Skipped("narration", "haiku", "rate_budget_exhausted"))
  /\ recorded' = Append(recorded, "narration")
  /\ UNCHANGED <<agentKey, runs, agentBuffer, came>>

AgentNext ==
  \/ EventComes \/ NarrationSkipped
  \/ \E r \in AgentRun :
       \/ StartAgent(r) \/ ModelFails(r) \/ ModelAnswers(r)
       \/ \E uses \in ToolUses : ModelAsksTools(r, uses) \/ ToolRaises(r, uses)

AgentSpec == AgentInit /\ [][AgentNext]_agentVars
-----------------------------------------------------------------------------
(* However runs overlap and whatever the tools return, every tool a model asks *)
(* for is answered in the next turn, once and in order, as the provider's      *)
(* protocol demands, the log names them all, and each run that ended has its   *)
(* one record: the ring keeps the newest of them in order, the totals all.     *)
NamesIn(asked) ==
  FoldLeft(LAMBDA log, uses : log \o [i \in DOMAIN uses |-> uses[i].name], <<>>, asked)

TurnsAnswered(run) ==
  \E n \in 0 .. StepMax :
    /\ Len(run.turns) = 2 * n
    /\ \A k \in 1 .. n :
         LET asks == run.turns[2 * k - 1].asks
             results == run.turns[2 * k].results
         IN [j \in DOMAIN results |-> results[j].answers] = [j \in DOMAIN asks |-> <<j, asks[j]>>]
    /\ run.log = NamesIn([k \in 1 .. n |-> run.turns[2 * k - 1].asks])

AgentsAccounted ==
  LET byKind == Stats(ring).byKind
  IN /\ \A r \in AgentRun : TurnsAnswered(runs[r])
     /\ [i \in DOMAIN ring |-> ring[i].kind] = LastOf(recorded, RingMax)
     /\ totals.calls = Len(recorded)
     /\ totals.errors = Cardinality({r \in AgentRun : runs[r].stage = "ended" /\ ~runs[r].ok})
     /\ totals.skips = Cardinality({i \in DOMAIN recorded : recorded[i] = "narration"})
     /\ "narration" \in DOMAIN byKind => byKind["narration"].p95 = 0
     /\ \A k \in DOMAIN byKind : byKind[k].p50 <= 2 * byKind[k].p95
-----------------------------------------------------------------------------
(* "never raises, always produces a result".                                   *)
NeverRaises == \A r \in AgentRun : runs[r].stage # "raised"

(* "Every LLM call in this file records through it".                           *)
EveryCallIsRecorded ==
  (\A r \in AgentRun : runs[r].stage # "asking")
    => totals.calls >= FoldSet(LAMBDA r, n : n + runs[r].step, 0, AgentRun)

(* "at most ``limit`` long".                                                   *)
LimitKept == \A n \in 0 .. BufferMax : Len(GetRecentEvents(None, None, n)) <= n
=============================================================================
