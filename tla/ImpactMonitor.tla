---------------------------- MODULE ImpactMonitor ----------------------------
(* services/impact.py: the session that compares the time before and after a   *)
(* change of the settings, in memory and in the impact_sessions table.  The    *)
(* statistics of the windows are left out: a session is when it was opened,    *)
(* the settings it compares, and its state.                                    *)
EXTENDS SettingsStore, Sequences

CONSTANTS CoalesceWindow,   \* COALESCE_WINDOW_SEC
          BannerLead,       \* UNATTENDED_BANNER_LEAD_SEC
          MaxAge,           \* IMPACT_SESSION_MAX_AGE_SEC
          MaxTime,          \* bound: ticks in one behaviour
          MaxSessions,      \* bound: sessions in one behaviour
          None

State == {"monitoring", "unattended", "archived"}

(* restored: read back from its row, which has no changed_keys.                *)
Session == [id : Nat, at : Nat, after : Snapshot, state : State, restored : BOOLEAN]

Row == [at : Nat, before : Snapshot, after : Snapshot, state : State]

ASSUME MonitorAssumption == /\ CoalesceWindow \in Nat \ {0}
                            /\ BannerLead \in Nat
                            /\ MaxAge \in Nat
                            /\ BannerLead <= MaxAge
                            /\ CoalesceWindow <= MaxAge
                            /\ MaxTime \in Nat
                            /\ MaxSessions \in Nat
                            /\ None \notin Session \cup Snapshot

VARIABLES now,      \* the clock
          session,  \* ImpactMonitor._session, or None
          rows      \* impact_sessions, in the order of their audit ids

monitorVars == <<session, rows>>

MonitorTypeOK ==
  /\ now \in 0 .. MaxTime
  /\ rows \in Seq(Row)
  /\ Len(rows) <= MaxSessions
  /\ session # None => session \in Session /\ session.id \in DOMAIN rows

MonitorInit == /\ now = 0
               /\ session = None
               /\ rows = <<>>
-----------------------------------------------------------------------------
Age(s) == now - s.at

Coalesces == session # None /\ Age(session) < CoalesceWindow

(* Adding to the changed_keys of a restored session raises a KeyError.         *)
Breaks == Coalesces /\ session.restored

(* Mistake: the state of a session is not written back.                        *)
UpsertAfterOnly(s) == [rows EXCEPT ![s.id].after = s.after]

(* _persist_session(): an upsert leaves the row's change_ts alone.             *)
Upsert(s) == [rows EXCEPT ![s.id] = [@ EXCEPT !.after = s.after, !.state = s.state]]

CanOpen == Len(rows) < MaxSessions

(* Mistake: the row is written at the first report only.                       *)
OpenInMemory(old, before, after) ==
  /\ session' = [id |-> Len(old) + 1, at |-> now, after |-> after,
                 state |-> "monitoring", restored |-> FALSE]
  /\ rows' = old

Open(old, before, after) ==
  /\ session' = [id |-> Len(old) + 1, at |-> now, after |-> after,
                 state |-> "monitoring", restored |-> FALSE]
  /\ rows' = Append(old, [at |-> now, before |-> before, after |-> after,
                          state |-> "monitoring"])

(* Mistake: a burst keeps the settings of its first change.                    *)
KeepFirst(before, after) ==
  \/ /\ Coalesces
     /\ ~Breaks
     /\ session' = [session EXCEPT !.at = now]
     /\ rows' = Upsert(session')
  \/ /\ ~Coalesces
     /\ CanOpen
     /\ Open(rows, before, after)

(* on_settings_change(): a change soon after the one before joins its session, *)
(* any other opens one; the session it replaces keeps its row as it is.        *)
OnSettingsChange(before, after) ==
  \/ /\ Coalesces
     /\ ~Breaks
     /\ session' = [session EXCEPT !.after = after, !.at = now]
     /\ rows' = Upsert(session')
  \/ /\ ~Coalesces
     /\ CanOpen
     /\ Open(rows, before, after)

(* ... and when it raises, the session has the new settings, its row has not.  *)
OnSettingsChangeBreaks(after) ==
  /\ Breaks
  /\ session' = [session EXCEPT !.after = after, !.at = now]
  /\ UNCHANGED rows

(* archive_active(): the rows once the session in memory is archived.          *)
Archived == IF session = None THEN rows
            ELSE Upsert([session EXCEPT !.state = "archived"])

Active == {i \in DOMAIN rows : rows[i].state # "archived"}

(* Mistake: the oldest active row is read back.                                *)
OldestActive == {i \in Active : \A j \in Active : rows[i].at <= rows[j].at}

(* get_active_impact_session(): ORDER BY change_ts DESC LIMIT 1.               *)
NewestActive == {i \in Active : \A j \in Active : rows[j].at <= rows[i].at}

Restored(i) == [id |-> i, at |-> rows[i].at, after |-> rows[i].after,
                state |-> rows[i].state, restored |-> TRUE]

(* _build_report(): a session left alone is flagged, then archived.            *)
Aged(s) == [s EXCEPT !.state = IF Age(s) >= MaxAge THEN "archived"
                               ELSE IF Age(s) >= MaxAge - BannerLead THEN "unattended"
                               ELSE @]

BuildReport(s) ==
  /\ rows' = Upsert(Aged(s))
  /\ session' = IF Aged(s).state = "archived" THEN None ELSE Aged(s)

(* current_report(), for the settings page and its event stream.               *)
CurrentReport ==
  /\ \/ session # None /\ BuildReport(session)
     \/ session = None /\ \E i \in NewestActive : BuildReport(Restored(i))
  /\ UNCHANGED <<now, storeVars>>
=============================================================================
