--------------------------- MODULE SettingsConsole ---------------------------
(* api/settings.py: the handlers that change settings, over the store and the  *)
(* impact monitor, with the cooldown per actor and the apply_log table.  The   *)
(* handlers run on the event loop and wait for nothing before they are done.   *)
(* Requests rejected without a trace (cooldown, validation, a missing privacy  *)
(* confirmation) take no step.  What an operator's page shows is not modelled: *)
(* a request may expect any revision, or none.                                 *)
EXTENDS ImpactMonitor

CONSTANTS Actor,         \* operators, by label
          MinInterval    \* MIN_CHANGE_INTERVAL_SEC

ASSUME ConsoleAssumption == MinInterval \in Nat

VARIABLES lastApply,  \* _last_apply_at
          logged,     \* the settings the newest apply_log row names, since start
          unlogged,   \* history: a change has no row in apply_log
          chain       \* history: sessions from this one on follow each other

consoleVars == <<lastApply, logged>>
historyVars == <<unlogged, chain>>
vars == <<storeVars, monitorVars, now, consoleVars, historyVars>>

Never == -MinInterval

TypeOK ==
  /\ StoreTypeOK
  /\ MonitorTypeOK
  /\ lastApply \in [Actor -> Nat \cup {Never}]
  /\ logged \in Snapshot \cup {None}
  /\ unlogged \in BOOLEAN
  /\ chain \in Nat

Init ==
  /\ StoreInit
  /\ MonitorInit
  /\ lastApply = [a \in Actor |-> Never]
  /\ logged = None
  /\ unlogged = FALSE
  /\ chain = 1
-----------------------------------------------------------------------------
CooledDown(a) == now - lastApply[a] >= MinInterval

RecordAttempt(a) == lastApply' = [lastApply EXCEPT ![a] = now]

(* The row names the snapshot now in force.                                    *)
Log(row) == /\ logged' = row
            /\ unlogged' = FALSE

(* POST /apply of a stale page.                                                *)
ApplyConflict(a) ==
  /\ CooledDown(a)
  /\ \E hash \in Snapshot : ~Matches(hash)
  /\ Log(snapshot)
  /\ UNCHANGED <<storeVars, monitorVars, now, lastApply, chain>>

(* A POST /apply or rollback that changes nothing still writes its row.        *)
LogNothing(a) ==
  /\ CooledDown(a)
  /\ Log(snapshot)
  /\ UNCHANGED <<storeVars, monitorVars, now, lastApply, chain>>

(* POST /apply.  The monitor is told of hot keys only; whether the values      *)
(* differ from those in force is not asked.                                    *)
Apply(a, diff) ==
  /\ CooledDown(a)
  /\ Accepts(diff)
  /\ DOMAIN diff # {}
  /\ Swap(Merged(diff))
  /\ IF Touches(diff, HotKey) THEN OnSettingsChange(snapshot, Merged(diff))
                              ELSE UNCHANGED monitorVars
  /\ RecordAttempt(a)
  /\ Log(Merged(diff))
  /\ UNCHANGED <<now, chain>>

(* The request fails with a 500 after the settings were changed.               *)
ApplyBreaks(a, diff) ==
  /\ CooledDown(a)
  /\ Accepts(diff)
  /\ Touches(diff, HotKey)
  /\ OnSettingsChangeBreaks(Merged(diff))
  /\ Swap(Merged(diff))
  /\ unlogged' = (unlogged \/ Merged(diff) # snapshot)
  /\ chain' = Len(rows) + 1
  /\ UNCHANGED <<now, consoleVars>>

(* POST /templates/{id}/apply: a template names every key; only those that     *)
(* differ are applied, and the monitor is told of all of them.                 *)
ApplyTemplate(a, template) ==
  /\ CooledDown(a)
  /\ template # snapshot
  /\ Swap(template)
  /\ OnSettingsChange(snapshot, template)
  /\ RecordAttempt(a)
  /\ Log(template)
  /\ UNCHANGED <<now, chain>>

ApplyTemplateBreaks(a, template) ==
  /\ CooledDown(a)
  /\ template # snapshot
  /\ OnSettingsChangeBreaks(template)
  /\ Swap(template)
  /\ unlogged' = TRUE
  /\ chain' = Len(rows) + 1
  /\ UNCHANGED <<now, consoleVars>>

(* Mistake: the monitor is not told.                                           *)
RollbackIntoSession(a) ==
  /\ CooledDown(a)
  /\ ~pristine
  /\ lastGood # snapshot
  /\ Swap(lastGood)
  /\ UNCHANGED monitorVars
  /\ RecordAttempt(a)
  /\ Log(lastGood)
  /\ UNCHANGED <<now, chain>>

(* Mistake: the row names the snapshot the rollback left.                      *)
RollbackLogsBefore(a) ==
  /\ CooledDown(a)
  /\ ~pristine
  /\ lastGood # snapshot
  /\ Swap(lastGood)
  /\ CanOpen
  /\ Open(Archived, snapshot, lastGood)
  /\ RecordAttempt(a)
  /\ Log(snapshot)
  /\ UNCHANGED <<now, chain>>

(* POST /rollback: the two snapshots change places, and the rollback is an     *)
(* experiment of its own.                                                      *)
Rollback(a) ==
  /\ CooledDown(a)
  /\ ~pristine
  /\ lastGood # snapshot
  /\ Swap(lastGood)
  /\ CanOpen
  /\ Open(Archived, snapshot, lastGood)
  /\ RecordAttempt(a)
  /\ Log(lastGood)
  /\ UNCHANGED <<now, chain>>

(* POST /baseline/capture                                                      *)
CaptureBaseline ==
  /\ OnSettingsChange(snapshot, snapshot)
  /\ UNCHANGED <<storeVars, now, consoleVars, historyVars>>

CaptureBaselineBreaks ==
  /\ OnSettingsChangeBreaks(snapshot)
  /\ chain' = Len(rows) + 1
  /\ UNCHANGED <<storeVars, now, consoleVars, unlogged>>

GetImpact == CurrentReport /\ UNCHANGED <<consoleVars, historyVars>>

(* The process is started again, which takes a while: the two tables stay.     *)
Restart ==
  /\ now < MaxTime
  /\ now' = now + 1
  /\ StoreReset
  /\ session' = None
  /\ lastApply' = [a \in Actor |-> Never]
  /\ logged' = None
  /\ unlogged' = FALSE
  /\ chain' = Len(rows) + 1
  /\ UNCHANGED rows

Tick == /\ now < MaxTime
        /\ now' = now + 1
        /\ UNCHANGED <<storeVars, monitorVars, consoleVars, historyVars>>

Next ==
  \/ \E a \in Actor :
       \/ ApplyConflict(a) \/ LogNothing(a) \/ Rollback(a)
       \/ \E diff \in Diff : Apply(a, diff) \/ ApplyBreaks(a, diff)
       \/ \E t \in Valid : ApplyTemplate(a, t) \/ ApplyTemplateBreaks(a, t)
  \/ CaptureBaseline \/ CaptureBaselineBreaks
  \/ GetImpact \/ Restart \/ Tick

Spec == Init /\ [][Next]_vars
-----------------------------------------------------------------------------
AgreeOnHot(s, t) == \A k \in HotKey : s[k] = t[k]

(* No sequence of partial diffs, templates and rollbacks leads to a snapshot   *)
(* that breaks a cross-field rule, nor leaves one to roll back to.             *)
AlwaysValid == snapshot \in Valid /\ lastGood \in Valid

(* The newest row of apply_log names the settings in force, conflicts and      *)
(* changes that change nothing included, unless a handler failed after it had  *)
(* changed the settings.                                                       *)
LogTellsState == logged # None /\ ~unlogged => logged = snapshot

(* A session opened by this process compares with the settings in force, as    *)
(* far as they are in force: the restart_required ones may have moved on.      *)
ImpactDescribesEffect ==
  session # None /\ ~session.restored => AgreeOnHot(session.after, snapshot)

(* What a restart would read back of the session is what it was: its state,    *)
(* and its settings too unless the session was itself read back.               *)
RowMirrorsSession ==
  session # None => /\ rows[session.id].state = session.state
                    /\ ~session.restored => rows[session.id].after = session.after

(* Of the sessions still active in the table, those that were replaced and     *)
(* never archived included, a restart reads back the one under way.            *)
RestoreFindsCurrent == session # None => NewestActive = {session.id}

(* A replaced session never comes back: once the newest is archived, reports   *)
(* archive the older ones one by one.                                          *)
NewestSession == session # None => session.id = Len(rows)

(* The sessions of one process tile the history of the settings: each starts   *)
(* from what the one before ended with, unless a change failed half-way.       *)
SessionsChain ==
  \A i \in DOMAIN rows : i >= chain /\ i + 1 \in DOMAIN rows =>
    AgreeOnHot(rows[i].after, rows[i + 1].before)
-----------------------------------------------------------------------------
(* What comments say and the code does not do.                                 *)

(* "apply_log -- every settings apply (success or failure)": the settings in   *)
(* force are those of the newest row.                                          *)
EveryChangeIsLogged == snapshot = IF logged = None THEN Defaults ELSE logged

(* "a no-op apply (... diff that resolves to the current values) ... shouldn't *)
(* lock the operator out".                                                     *)
NoOpLocksNobodyOut ==
  [][\A a \in Actor : lastApply'[a] = now /\ lastApply[a] # now => snapshot' # snapshot]_vars

(* "one active session at a time".                                             *)
OneActiveSession == \A i, j \in Active : i = j

(* "Restore the snapshot that was active immediately before the last apply":   *)
(* two rollbacks in a row go back further than one.                            *)
RollbackGoesBack ==
  [][\A a \in Actor : Rollback(a) => lastGood' # snapshot]_vars

(* "a server restart inside the monitoring window does not lose the operator's *)
(* experiment": the session read back is about the settings in force.          *)
ExperimentSurvives == session # None => AgreeOnHot(session.after, snapshot)

(* "Keys whose value was persisted but won't take effect until the process     *)
(* restarts": a restart leaves them as they were set.                          *)
PendingSurvivesRestart ==
  [][Restart => \A k \in RestartKey : snapshot'[k] = snapshot[k]]_vars
=============================================================================
