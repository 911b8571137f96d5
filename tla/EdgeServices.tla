---------------------------- MODULE EdgeServices ----------------------------
(* The services of one edge process that share no state with each other: the   *)
(* event feed, the guard of the LLM calls, the validator and its shadow store, *)
(* the watchdog, the feedback loop, the Slack notifier, the agents and the     *)
(* perception of one slot.  A step of one leaves the variables of the others   *)
(* alone and does not read them, and each property is about the variables of   *)
(* one: it holds in every interleaving of the services if it holds in those    *)
(* where one of them steps and the others wait.  `running' is that one.        *)
EXTENDS EventFeed, LlmGuard, ValidatorQueue, Watchdog, Feedback, SlackAlerts,
        Agents, Perception

VARIABLE running

Service == {"feed", "guard", "validator", "watchdog", "feedback", "slack", "agents",
            "perception"}

servicesVars == <<vars, guardVars, validatorVars, watchdogVars, feedbackVars, slackVars,
                  agentVars, perceptionVars, now, running>>

(* What a service may start with matters for the one that runs only.           *)
AtRest ==
  /\ running = "guard" \/ capacity = Max(Capacities)
  /\ running = "slack" \/ (webhook /\ relay /\ floor = Max(Floors))
  /\ running = "agents" \/ agentKey

ServicesInit ==
  /\ running \in Service
  /\ Init /\ GuardInit /\ ValidatorInit /\ WatchdogInit /\ FeedbackInit /\ SlackInit
  /\ AgentInit /\ PerceptionInit /\ ClockInit
  /\ AtRest

ServicesNext ==
  \/ /\ running = "feed" /\ Next
     /\ UNCHANGED <<guardVars, validatorVars, watchdogVars, feedbackVars,
                   slackVars, agentVars, perceptionVars, now, running>>
  \/ /\ running = "guard" /\ GuardNext
     /\ UNCHANGED <<vars, validatorVars, watchdogVars, feedbackVars, slackVars,
                   agentVars, perceptionVars, running>>
  \/ /\ running = "validator" /\ ValidatorNext
     /\ UNCHANGED <<vars, guardVars, watchdogVars, feedbackVars, slackVars,
                   agentVars, perceptionVars, running>>
  \/ /\ running = "watchdog" /\ WatchdogNext
     /\ UNCHANGED <<vars, guardVars, validatorVars, feedbackVars, slackVars,
                   agentVars, perceptionVars, running>>
  \/ /\ running = "feedback" /\ FeedbackNext
     /\ UNCHANGED <<vars, guardVars, validatorVars, watchdogVars, slackVars,
                   agentVars, perceptionVars, now, running>>
  \/ /\ running = "slack" /\ SlackNext
     /\ UNCHANGED <<vars, guardVars, validatorVars, watchdogVars, feedbackVars,
                   agentVars, perceptionVars, running>>
  \/ /\ running = "agents" /\ AgentNext
     /\ UNCHANGED <<vars, guardVars, validatorVars, watchdogVars, feedbackVars,
                   slackVars, perceptionVars, now, running>>
  \/ /\ running = "perception" /\ PerceptionNext
     /\ UNCHANGED <<vars, guardVars, validatorVars, watchdogVars, feedbackVars,
                   slackVars, agentVars, running>>

ServicesSpec == ServicesInit /\ [][ServicesNext]_servicesVars
-----------------------------------------------------------------------------
(* The variables of each service hold what its code can put in them.           *)
ServicesTypeOK ==
  /\ TypeOK /\ GuardTypeOK /\ ValidatorTypeOK /\ WatchdogTypeOK
  /\ FeedbackTypeOK /\ SlackTypeOK /\ AgentTypeOK /\ PerceptionTypeOK
=============================================================================
