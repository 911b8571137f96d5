------------------------ MODULE SettingsConsole_proofs ------------------------
(* Proofs about SettingsConsole: its types, that the settings stay valid, what *)
(* the newest row of apply_log says, which session is under way and what its   *)
(* row has of it.                                                              *)
EXTENDS SettingsConsole, TLAPS

(* The rows are in the order of their times, and one that is still active is   *)
(* older than every later one.                                                 *)
InOrder ==
  \A i, j \in DOMAIN rows : i < j =>
    /\ rows[i].at <= rows[j].at
    /\ i \in Active => rows[i].at < rows[j].at

NoFutureRows == \A i \in DOMAIN rows : rows[i].at <= now

(* The session in memory is the newest, and its row is active.                 *)
SessionCurrent ==
  session # None => /\ session.id = Len(rows)
                    /\ rows[session.id].at <= session.at
                    /\ session.at <= now
                    /\ session.state # "archived"
                    /\ rows[session.id].state = session.state

(* Without a session in memory, the newest row is active because the process   *)
(* was restarted, or so old that every row is due to be archived.              *)
SessionAway ==
  session = None => /\ \A i \in Active : rows[i].at < now
                    /\ \A n \in DOMAIN rows :
                         n = Len(rows) /\ n \notin Active => rows[n].at + MaxAge <= now

SessionInv == InOrder /\ NoFutureRows /\ SessionCurrent /\ SessionAway

(* A session read back belongs to the time before the chain.                   *)
Tiling ==
  /\ chain <= Len(rows) => \A n \in DOMAIN rows :
                             n = Len(rows) => AgreeOnHot(rows[n].after, snapshot)
  /\ session # None /\ session.restored => Len(rows) < chain
  /\ session = None => \A n \in Active : n = Len(rows) => n < chain
-----------------------------------------------------------------------------
(* The step of a handler on the monitor's session and rows.                    *)

(* Writing a session back changes its own row only, and no row's time.         *)
LEMMA UpsertKeeps ==
  ASSUME rows \in Seq(Row), NEW s \in Session, s.id \in DOMAIN rows
  PROVE  /\ Upsert(s) \in Seq(Row)
         /\ Len(Upsert(s)) = Len(rows)
         /\ DOMAIN Upsert(s) = DOMAIN rows
         /\ \A i \in DOMAIN rows : /\ Upsert(s)[i].at = rows[i].at
                                   /\ Upsert(s)[i].before = rows[i].before
                                   /\ i # s.id => Upsert(s)[i] = rows[i]
         /\ Upsert(s)[s.id].after = s.after
         /\ Upsert(s)[s.id].state = s.state
<1> DEFINE new == [rows[s.id] EXCEPT !.after = s.after, !.state = s.state]
<1>1. rows[s.id] \in Row
  OBVIOUS
<1>2. s.after \in Snapshot /\ s.state \in State
  BY DEF Session
<1>3. /\ new \in Row
      /\ new.at = rows[s.id].at
      /\ new.before = rows[s.id].before
      /\ new.after = s.after
      /\ new.state = s.state
  BY <1>1, <1>2 DEF Row
<1>4. Upsert(s) = [rows EXCEPT ![s.id] = new]
  BY DEF Upsert
<1> HIDE DEF new
<1> QED BY <1>3, <1>4

(* A row more leaves the rows before it as they were.                          *)
LEMMA AppendKeeps ==
  ASSUME NEW old \in Seq(Row), NEW row \in Row
  PROVE  /\ Append(old, row) \in Seq(Row)
         /\ Len(Append(old, row)) = Len(old) + 1
         /\ DOMAIN Append(old, row) = DOMAIN old \cup {Len(old) + 1}
         /\ \A i \in DOMAIN old : Append(old, row)[i] = old[i]
         /\ Append(old, row)[Len(old) + 1] = row
  OBVIOUS

(* A session written back to its active row: the rows stay in order.           *)
LEMMA WriteBack ==
  ASSUME rows \in Seq(Row), InOrder, NoFutureRows,
         NEW s \in Session, s.id \in Active,
         rows' = Upsert(s), now' = now
  PROVE  /\ rows' \in Seq(Row)
         /\ Len(rows') = Len(rows)
         /\ DOMAIN rows' = DOMAIN rows
         /\ InOrder'
         /\ NoFutureRows'
         /\ Active' = IF s.state = "archived" THEN Active \ {s.id} ELSE Active
         /\ rows'[s.id].state = s.state
         /\ rows'[s.id].after = s.after
         /\ \A i \in DOMAIN rows : /\ rows'[i].at = rows[i].at
                                   /\ rows'[i].before = rows[i].before
                                   /\ i # s.id => rows'[i] = rows[i]
<1>1. s.id \in DOMAIN rows
  BY DEF Active
<1>2. /\ rows' \in Seq(Row)
      /\ Len(rows') = Len(rows)
      /\ DOMAIN rows' = DOMAIN rows
      /\ \A i \in DOMAIN rows : /\ rows'[i].at = rows[i].at
                                /\ rows'[i].before = rows[i].before
                                /\ i # s.id => rows'[i] = rows[i]
      /\ rows'[s.id].after = s.after
      /\ rows'[s.id].state = s.state
  BY <1>1, UpsertKeeps
<1>3. Active' = IF s.state = "archived" THEN Active \ {s.id} ELSE Active
  BY <1>1, <1>2 DEF Active
<1>4. Active' \subseteq Active
  BY <1>3
<1>5. InOrder'
  BY <1>2, <1>4 DEF InOrder
<1>6. NoFutureRows'
  BY <1>2 DEF NoFutureRows
<1> QED BY <1>2, <1>3, <1>5, <1>6

(* A new session: its row comes last.                                          *)
LEMMA NewRow ==
  ASSUME MonitorAssumption,
         now \in 0 .. MaxTime, now' = now,
         NEW old \in Seq(Row), Len(old) < MaxSessions,
         \A i, j \in DOMAIN old : i < j =>
            /\ old[i].at <= old[j].at
            /\ old[i].state # "archived" => old[i].at < old[j].at,
         \A i \in DOMAIN old : /\ old[i].at <= now
                               /\ old[i].state # "archived" => old[i].at < now,
         NEW before \in Snapshot, NEW after \in Snapshot,
         Open(old, before, after)
  PROVE  /\ MonitorTypeOK'
         /\ SessionInv'
         /\ session' # None
         /\ ~session'.restored
         /\ session'.after = after
         /\ Len(rows') = Len(old) + 1
         /\ DOMAIN rows' = DOMAIN old \cup {Len(old) + 1}
         /\ \A i \in DOMAIN old : rows'[i] = old[i]
         /\ rows'[Len(old) + 1].before = before
         /\ rows'[Len(old) + 1].after = after
<1> DEFINE row == [at |-> now, before |-> before, after |-> after, state |-> "monitoring"]
<1>1. row \in Row /\ now \in Nat
  BY DEF MonitorAssumption, Row, State
<1>2. rows' = Append(old, row)
  BY DEF Open
<1>3. row.at = now /\ row.before = before /\ row.after = after /\ row.state = "monitoring"
  OBVIOUS
<1> HIDE DEF row
<1>4. /\ rows' \in Seq(Row)
      /\ Len(rows') = Len(old) + 1
      /\ DOMAIN rows' = DOMAIN old \cup {Len(old) + 1}
      /\ \A i \in DOMAIN old : rows'[i] = old[i]
      /\ rows'[Len(old) + 1] = row
  BY <1>1, <1>2, AppendKeeps
<1>5. /\ session' \in Session
      /\ session' # None
      /\ session'.id = Len(old) + 1
      /\ session'.at = now
      /\ session'.after = after
      /\ session'.state = "monitoring"
      /\ ~session'.restored
  <2>1. session' = [id |-> Len(old) + 1, at |-> now, after |-> after,
                    state |-> "monitoring", restored |-> FALSE]
    BY DEF Open
  <2>2. session' \in Session
    BY <1>1, <2>1 DEF Session, State
  <2>3. session' # None
    BY <2>2 DEF MonitorAssumption
  <2> QED BY <2>1, <2>2, <2>3
<1>6. MonitorTypeOK'
  BY <1>4, <1>5 DEF MonitorTypeOK, MonitorAssumption
<1>7. InOrder'
  <2> SUFFICES ASSUME NEW i \in DOMAIN rows', NEW j \in DOMAIN rows', i < j
               PROVE  /\ rows'[i].at <= rows'[j].at
                      /\ rows'[i].state # "archived" => rows'[i].at < rows'[j].at
    BY DEF InOrder, Active
  <2>1. i \in DOMAIN old
    BY <1>4
  <2>2. CASE j \in DOMAIN old
    BY <1>4, <2>1, <2>2
  <2>3. CASE j = Len(old) + 1
    BY <1>3, <1>4, <2>1, <2>3
  <2> QED BY <1>4, <2>2, <2>3
<1>8. NoFutureRows'
  BY <1>1, <1>3, <1>4 DEF NoFutureRows
<1>9. SessionCurrent'
  BY <1>1, <1>3, <1>4, <1>5 DEF SessionCurrent
<1>10. SessionAway'
  BY <1>5 DEF SessionAway
<1> QED BY <1>3, <1>4, <1>5, <1>6, <1>7, <1>8, <1>9, <1>10 DEF SessionInv

(* What the types of the monitor say of its rows and its session.              *)
LEMMA MonitorTypes ==
  ASSUME MonitorAssumption, MonitorTypeOK
  PROVE  /\ rows \in Seq(Row)
         /\ Len(rows) \in Nat
         /\ now \in 0 .. MaxTime
         /\ now \in Nat
         /\ \A i \in DOMAIN rows : rows[i] \in Row /\ rows[i].at \in Nat
<1>1. rows \in Seq(Row) /\ now \in 0 .. MaxTime /\ now \in Nat
  BY DEF MonitorTypeOK, MonitorAssumption
<1>2. \A i \in DOMAIN rows : rows[i] \in Row
  BY <1>1
<1>3. \A r \in Row : r.at \in Nat
  BY DEF Row
<1> QED BY <1>1, <1>2, <1>3

(* The session under way has the newest row, and that one is active.           *)
LEMMA CurrentRow ==
  ASSUME MonitorTypeOK, SessionCurrent, session # None
  PROVE  session \in Session /\ session.id \in Active /\ session.id = Len(rows)
BY DEF MonitorTypeOK, SessionCurrent, Active

(* A change of the settings that joins the session under way.                  *)
LEMMA JoinStep ==
  ASSUME MonitorAssumption, MonitorTypeOK, SessionInv, now' = now,
         NEW after \in Snapshot,
         session # None,
         session' = [session EXCEPT !.after = after, !.at = now],
         rows' = Upsert(session') \/ rows' = rows
  PROVE  /\ MonitorTypeOK'
         /\ SessionInv'
         /\ session' # None
         /\ session'.id = session.id
         /\ session'.restored = session.restored
         /\ session'.after = after
         /\ Len(rows') = Len(rows)
         /\ DOMAIN rows' = DOMAIN rows
         /\ \A i \in DOMAIN rows : /\ rows'[i].before = rows[i].before
                                   /\ i # session.id => rows'[i] = rows[i]
         /\ rows' = Upsert(session') => rows'[session.id].after = after
<1>1. session \in Session /\ session.id \in Active /\ session.id = Len(rows)
  BY CurrentRow DEF SessionInv
<1>2. rows \in Seq(Row) /\ now \in Nat /\ Len(rows) <= MaxSessions
  BY DEF MonitorTypeOK, MonitorAssumption
<1>3. /\ session' \in Session
      /\ session'.id = session.id
      /\ session'.at = now
      /\ session'.after = after
      /\ session'.state = session.state
      /\ session'.restored = session.restored
  BY <1>1, <1>2 DEF Session
<1>4. session' # None
  BY <1>3 DEF MonitorAssumption
<1>5. session.state # "archived" /\ rows[session.id].state = session.state
  BY DEF SessionInv, SessionCurrent
<1>6. /\ rows' \in Seq(Row)
      /\ Len(rows') = Len(rows)
      /\ DOMAIN rows' = DOMAIN rows
      /\ InOrder'
      /\ NoFutureRows'
      /\ rows'[session.id].state = session.state
      /\ \A i \in DOMAIN rows : /\ rows'[i].at = rows[i].at
                                /\ rows'[i].before = rows[i].before
                                /\ i # session.id => rows'[i] = rows[i]
      /\ rows' = Upsert(session') => rows'[session.id].after = after
  <2>1. CASE rows' = Upsert(session')
    <3>1. PICK s \in Session : s = session'
      BY <1>3
    <3>2. s.id \in Active /\ s.id = session.id /\ s.state = session.state /\ s.after = after
      BY <1>1, <1>3, <3>1
    <3>3. InOrder /\ NoFutureRows /\ rows' = Upsert(s)
      BY <2>1, <3>1 DEF SessionInv
    <3> QED BY <1>2, <3>2, <3>3, WriteBack
  <2>2. CASE rows' = rows /\ rows' # Upsert(session')
    <3>1. InOrder' /\ NoFutureRows'
      BY <2>2 DEF SessionInv, InOrder, NoFutureRows, Active
    <3> QED BY <1>2, <1>5, <2>2, <3>1
  <2> QED BY <2>1, <2>2
<1>7. MonitorTypeOK'
  BY <1>1, <1>2, <1>3, <1>6 DEF MonitorTypeOK, Active
<1>8. SessionCurrent'
  <2>1. session.id \in DOMAIN rows
    BY <1>1 DEF Active
  <2>2. rows[session.id].at <= now
    BY <2>1 DEF SessionInv, NoFutureRows
  <2> QED BY <1>1, <1>2, <1>3, <1>5, <1>6, <2>1, <2>2 DEF SessionCurrent
<1>9. SessionAway'
  BY <1>4 DEF SessionAway
<1> QED BY <1>3, <1>4, <1>6, <1>7, <1>8, <1>9 DEF SessionInv

(* A change of the settings that opens a session.                              *)
LEMMA OpenStep ==
  ASSUME MonitorAssumption, MonitorTypeOK, SessionInv, now' = now,
         NEW before \in Snapshot, NEW after \in Snapshot,
         ~Coalesces, CanOpen, Open(rows, before, after)
  PROVE  /\ MonitorTypeOK'
         /\ SessionInv'
         /\ session' # None
         /\ ~session'.restored
         /\ session'.after = after
         /\ Len(rows') = Len(rows) + 1
         /\ DOMAIN rows' = DOMAIN rows \cup {Len(rows) + 1}
         /\ \A i \in DOMAIN rows : rows'[i] = rows[i]
         /\ rows'[Len(rows) + 1].before = before
         /\ rows'[Len(rows) + 1].after = after
<1>1. /\ rows \in Seq(Row)
      /\ Len(rows) < MaxSessions
      /\ now \in 0 .. MaxTime
      /\ now \in Nat
      /\ \A i \in DOMAIN rows : rows[i].at \in Nat
  BY MonitorTypes DEF CanOpen
<1>2. \A i, j \in DOMAIN rows : i < j =>
        /\ rows[i].at <= rows[j].at
        /\ rows[i].state # "archived" => rows[i].at < rows[j].at
  BY DEF SessionInv, InOrder, Active
<1>3. \A i \in DOMAIN rows : rows[i].at <= now
  BY DEF SessionInv, NoFutureRows
<1>4. \A i \in DOMAIN rows : rows[i].state # "archived" => rows[i].at < now
  <2>1. CASE session = None
    BY <2>1 DEF SessionInv, SessionAway, Active
  <2>2. CASE session # None
    <3>1. session \in Session /\ session.id \in DOMAIN rows /\ session.id = Len(rows)
      BY <2>2, CurrentRow DEF SessionInv, Active
    <3>2. session.at < now
      BY <1>1, <2>2, <3>1 DEF Coalesces, Age, Session, MonitorAssumption
    <3>3. rows[session.id].at < now
      BY <1>1, <2>2, <3>1, <3>2 DEF SessionInv, SessionCurrent, Session
    <3>4. ASSUME NEW i \in DOMAIN rows, rows[i].state # "archived"
          PROVE  rows[i].at < now
      <4>1. CASE i = session.id
        BY <3>3, <4>1
      <4>2. CASE i < session.id
        BY <1>1, <1>2, <3>1, <3>3, <3>4, <4>2
      <4> QED BY <1>1, <3>1, <4>1, <4>2
    <3> QED BY <3>4
  <2> QED BY <2>1, <2>2
<1> QED BY <1>1, <1>2, <1>3, <1>4, NewRow

(* A rollback: the session in memory is archived, another is opened.           *)
LEMMA RollbackStep ==
  ASSUME MonitorAssumption, MonitorTypeOK, SessionInv, now' = now,
         NEW before \in Snapshot, NEW after \in Snapshot,
         CanOpen, Open(Archived, before, after)
  PROVE  /\ MonitorTypeOK'
         /\ SessionInv'
         /\ session' # None
         /\ ~session'.restored
         /\ session'.after = after
         /\ Len(rows') = Len(rows) + 1
         /\ DOMAIN rows' = DOMAIN rows \cup {Len(rows) + 1}
         /\ \A i \in DOMAIN rows : rows'[i].before = rows[i].before
         /\ \A i \in DOMAIN rows : i # Len(rows) => rows'[i] = rows[i]
         /\ session = None => \A i \in DOMAIN rows : rows'[i] = rows[i]
         /\ session # None => rows'[Len(rows)].after = session.after
         /\ rows'[Len(rows) + 1].before = before
         /\ rows'[Len(rows) + 1].after = after
<1>1. /\ rows \in Seq(Row)
      /\ Len(rows) < MaxSessions
      /\ now \in 0 .. MaxTime
      /\ now \in Nat
      /\ \A i \in DOMAIN rows : rows[i].at \in Nat
  BY MonitorTypes DEF CanOpen
<1>2. \A i, j \in DOMAIN rows : i < j =>
        /\ rows[i].at <= rows[j].at
        /\ rows[i].state # "archived" => rows[i].at < rows[j].at
  BY DEF SessionInv, InOrder, Active
<1>3. \A i \in DOMAIN rows : rows[i].at <= now
  BY DEF SessionInv, NoFutureRows
<1>4. CASE session = None
  <2>1. Archived = rows
    BY <1>4 DEF Archived
  <2>2. \A i \in DOMAIN rows : rows[i].state # "archived" => rows[i].at < now
    BY <1>4 DEF SessionInv, SessionAway, Active
  <2>3. Open(rows, before, after)
    BY <2>1
  <2> QED BY <1>1, <1>2, <1>3, <1>4, <2>2, <2>3, NewRow
<1>5. CASE session # None
  <2> DEFINE s == [session EXCEPT !.state = "archived"]
             old == Upsert(s)
  <2>1. session \in Session /\ session.id \in DOMAIN rows /\ session.id = Len(rows)
    BY <1>5, CurrentRow DEF SessionInv, Active
  <2>2. /\ s \in Session
        /\ s.id = session.id
        /\ s.after = session.after
        /\ s.state = "archived"
    BY <2>1 DEF Session, State
  <2>3. /\ old \in Seq(Row)
        /\ Len(old) = Len(rows)
        /\ DOMAIN old = DOMAIN rows
        /\ \A i \in DOMAIN rows : /\ old[i].at = rows[i].at
                                  /\ old[i].before = rows[i].before
                                  /\ i # session.id => old[i] = rows[i]
        /\ old[session.id].after = session.after
        /\ old[session.id].state = "archived"
    <3> HIDE DEF s
    <3> QED BY <1>1, <2>1, <2>2, UpsertKeeps
  <2>4. Open(old, before, after)
    BY <1>5 DEF Archived
  <2> HIDE DEF old
  <2>5. \A i, j \in DOMAIN old : i < j =>
          /\ old[i].at <= old[j].at
          /\ old[i].state # "archived" => old[i].at < old[j].at
    BY <1>2, <2>3
  <2>6. \A i \in DOMAIN old : /\ old[i].at <= now
                              /\ old[i].state # "archived" => old[i].at < now
    <3> SUFFICES ASSUME NEW i \in DOMAIN rows, old[i].state # "archived"
                 PROVE  rows[i].at < now
      BY <1>3, <2>3
    <3>1. i < session.id
      BY <1>1, <2>1, <2>3
    <3>2. rows[i].at < rows[session.id].at
      BY <1>2, <2>1, <2>3, <3>1
    <3> QED BY <1>1, <1>3, <2>1, <3>2
  <2>7. Len(old) < MaxSessions /\ old \in Seq(Row)
    BY <1>1, <2>3
  <2>8. /\ MonitorTypeOK'
        /\ SessionInv'
        /\ session' # None
        /\ ~session'.restored
        /\ session'.after = after
        /\ Len(rows') = Len(old) + 1
        /\ DOMAIN rows' = DOMAIN old \cup {Len(old) + 1}
        /\ \A i \in DOMAIN old : rows'[i] = old[i]
        /\ rows'[Len(old) + 1].before = before
        /\ rows'[Len(old) + 1].after = after
    BY <1>1, <2>4, <2>5, <2>6, <2>7, NewRow
  <2> QED BY <1>5, <2>1, <2>3, <2>8
<1> QED BY <1>4, <1>5

(* Ageing changes the state of a session and nothing else.                     *)
LEMMA AgedKeeps ==
  ASSUME NEW s \in Session, now \in Nat, MonitorAssumption
  PROVE  /\ Aged(s) \in Session
         /\ Aged(s).id = s.id
         /\ Aged(s).at = s.at
         /\ Aged(s).after = s.after
         /\ Aged(s).restored = s.restored
         /\ s.at + MaxAge <= now => Aged(s).state = "archived"
         /\ s.state # "archived" /\ ~(s.at + MaxAge <= now) => Aged(s).state # "archived"
<1>1. s.at \in Nat /\ s.state \in State
  BY DEF Session
<1> DEFINE next == IF Age(s) >= MaxAge THEN "archived"
                   ELSE IF Age(s) >= MaxAge - BannerLead THEN "unattended"
                   ELSE s.state
<1>2. Aged(s) = [s EXCEPT !.state = next]
  BY DEF Aged
<1>3. next \in State
  BY <1>1 DEF State
<1>4. /\ s.at + MaxAge <= now => next = "archived"
      /\ s.state # "archived" /\ ~(s.at + MaxAge <= now) => next # "archived"
  BY <1>1 DEF Age, MonitorAssumption
<1> HIDE DEF next
<1> QED BY <1>2, <1>3, <1>4 DEF Session

(* A report: the session it is about is flagged or archived when it is due.    *)
LEMMA ReportStep ==
  ASSUME MonitorAssumption, MonitorTypeOK, SessionInv, CurrentReport
  PROVE  /\ MonitorTypeOK'
         /\ SessionInv'
         /\ Len(rows') = Len(rows)
         /\ DOMAIN rows' = DOMAIN rows
         /\ \A i \in DOMAIN rows : /\ rows'[i].before = rows[i].before
                                   /\ session = None \/ i # Len(rows) =>
                                        rows'[i].after = rows[i].after
         /\ session # None => rows'[Len(rows)].after = session.after
         /\ session' # None => /\ session'.id = Len(rows)
                               /\ Len(rows) \in Active
                               /\ session # None => /\ session'.after = session.after
                                                    /\ session'.restored = session.restored
                               /\ session = None => session'.restored
         /\ session' = None => /\ Active' \subseteq Active
                               /\ session # None => Len(rows) \notin Active'
<1>1. /\ rows \in Seq(Row)
      /\ Len(rows) \in Nat
      /\ Len(rows) <= MaxSessions
      /\ now \in 0 .. MaxTime
      /\ now \in Nat
      /\ \A i \in DOMAIN rows : rows[i] \in Row /\ rows[i].at \in Nat
  BY MonitorTypes DEF MonitorTypeOK
<1>2. now' = now
  BY DEF CurrentReport
<1>3. PICK s \in Session :
        /\ s.id \in Active
        /\ BuildReport(s)
        /\ rows[s.id].at <= s.at
        /\ s.at <= now
        /\ s.state # "archived"
        /\ session # None => s = session /\ s.id = Len(rows)
        /\ session = None => /\ s.at = rows[s.id].at
                             /\ s.after = rows[s.id].after
                             /\ s.restored
                             /\ s.id \in NewestActive
  <2>1. CASE session # None
    <3>1. session \in Session /\ session.id \in Active /\ session.id = Len(rows)
      BY <2>1, CurrentRow DEF SessionInv
    <3>2. BuildReport(session)
      BY <2>1 DEF CurrentReport
    <3> QED BY <2>1, <3>1, <3>2 DEF SessionInv, SessionCurrent
  <2>2. CASE session = None
    <3>1. PICK i \in NewestActive : BuildReport(Restored(i))
      BY <2>2 DEF CurrentReport
    <3>2. i \in Active /\ i \in DOMAIN rows /\ rows[i].state # "archived"
      BY DEF NewestActive, Active
    <3>3. Restored(i) \in Session
      BY <1>1, <3>2 DEF Restored, Session, Row
    <3>4. rows[i].at <= now
      BY <3>2 DEF SessionInv, NoFutureRows
    <3>5. /\ Restored(i).id = i
          /\ Restored(i).at = rows[i].at
          /\ Restored(i).after = rows[i].after
          /\ Restored(i).state = rows[i].state
          /\ Restored(i).restored
      BY DEF Restored
    <3> QED BY <1>1, <2>2, <3>1, <3>2, <3>3, <3>4, <3>5
  <2> QED BY <2>1, <2>2
<1>4. PICK t \in Session :
        /\ rows' = Upsert(t)
        /\ session' = IF t.state = "archived" THEN None ELSE t
        /\ t.id = s.id
        /\ t.at = s.at
        /\ t.after = s.after
        /\ t.restored = s.restored
        /\ t.state = "archived" <=> s.at + MaxAge <= now
  <2>1. /\ Aged(s) \in Session
        /\ Aged(s).id = s.id
        /\ Aged(s).at = s.at
        /\ Aged(s).after = s.after
        /\ Aged(s).restored = s.restored
        /\ Aged(s).state = "archived" <=> s.at + MaxAge <= now
    BY <1>1, <1>3, AgedKeeps
  <2>2. /\ rows' = Upsert(Aged(s))
        /\ session' = IF Aged(s).state = "archived" THEN None ELSE Aged(s)
    BY <1>3 DEF BuildReport
  <2> QED BY <2>1, <2>2
<1>5. /\ rows' \in Seq(Row)
      /\ Len(rows') = Len(rows)
      /\ DOMAIN rows' = DOMAIN rows
      /\ InOrder'
      /\ NoFutureRows'
      /\ Active' = IF t.state = "archived" THEN Active \ {s.id} ELSE Active
      /\ rows'[s.id].state = t.state
      /\ rows'[s.id].after = s.after
      /\ \A i \in DOMAIN rows : /\ rows'[i].at = rows[i].at
                                /\ rows'[i].before = rows[i].before
                                /\ i # s.id => rows'[i] = rows[i]
  <2>1. t.id \in Active /\ InOrder /\ NoFutureRows
    BY <1>3, <1>4 DEF SessionInv
  <2> QED BY <1>1, <1>2, <1>3, <1>4, <2>1, WriteBack
<1>6. Active \subseteq DOMAIN rows /\ s.id \in DOMAIN rows
  BY <1>3 DEF Active
<1>7. t # None
  BY <1>4 DEF MonitorAssumption
<1>8. CASE t.state = "archived"
  <2>1. session' = None /\ s.at + MaxAge <= now
    BY <1>4, <1>8
  <2>2. rows[s.id].at + MaxAge <= now
    BY <1>1, <1>3, <1>6, <2>1 DEF MonitorAssumption, Session
  <2>3. \A i \in Active' : rows'[i].at < now
    <3> SUFFICES ASSUME NEW i \in Active, i # s.id
                 PROVE  rows[i].at < now
      BY <1>5, <1>6, <1>8
    <3>1. CASE session = None
      BY <3>1 DEF SessionInv, SessionAway
    <3>2. CASE session # None
      <4>1. i \in DOMAIN rows /\ i < s.id
        BY <1>1, <1>3, <1>6, <3>2
      <4>2. rows[i].at < rows[s.id].at
        BY <1>6, <4>1 DEF SessionInv, InOrder
      <4> QED BY <1>1, <1>3, <1>6, <4>1, <4>2 DEF Session
    <3> QED BY <3>1, <3>2
  <2>4. \A n \in DOMAIN rows' : n = Len(rows') /\ n \notin Active' => rows'[n].at + MaxAge <= now
    <3> SUFFICES ASSUME NEW n \in DOMAIN rows, n = Len(rows), n \notin Active'
                 PROVE  rows[n].at + MaxAge <= now
      BY <1>5
    <3>1. CASE n = s.id
      BY <2>2, <3>1
    <3>2. CASE n # s.id
      <4>1. n \notin Active /\ session = None
        BY <1>3, <1>5, <1>8, <3>2
      <4> QED BY <4>1 DEF SessionInv, SessionAway
    <3> QED BY <3>1, <3>2
  <2>5. SessionAway'
    BY <1>2, <2>3, <2>4 DEF SessionAway
  <2>6. SessionCurrent'
    BY <2>1 DEF SessionCurrent
  <2>7. MonitorTypeOK'
    BY <1>1, <1>2, <1>5, <2>1 DEF MonitorTypeOK
  <2> QED BY <1>3, <1>5, <1>6, <1>8, <2>1, <2>5, <2>6, <2>7 DEF SessionInv
<1>9. CASE t.state # "archived"
  <2>1. session' = t /\ session' # None /\ ~(s.at + MaxAge <= now)
    BY <1>4, <1>7, <1>9
  <2>2. s.id = Len(rows)
    <3>1. CASE session # None
      BY <1>3, <3>1
    <3>2. CASE session = None
      <4>1. s.at = rows[s.id].at /\ s.id \in NewestActive
        BY <1>3, <3>2
      <4>2. Len(rows) \in DOMAIN rows /\ s.id <= Len(rows)
        BY <1>1, <1>6
      <4> SUFFICES ASSUME s.id < Len(rows)
                   PROVE  FALSE
        BY <1>1, <1>6, <4>2
      <4>3. rows[s.id].at < rows[Len(rows)].at
        BY <1>3, <1>6, <4>2 DEF SessionInv, InOrder
      <4>4. CASE Len(rows) \in Active
        BY <1>1, <1>6, <4>1, <4>2, <4>3, <4>4 DEF NewestActive
      <4>5. CASE Len(rows) \notin Active
        <5>1. rows[Len(rows)].at + MaxAge <= now
          BY <3>2, <4>2, <4>5 DEF SessionInv, SessionAway
        <5> QED BY <1>1, <1>6, <2>1, <4>1, <4>2, <4>3, <5>1 DEF MonitorAssumption
      <4> QED BY <4>4, <4>5
    <3> QED BY <3>1, <3>2
  <2>3. SessionCurrent'
    BY <1>2, <1>3, <1>4, <1>5, <1>6, <1>9, <2>1, <2>2 DEF SessionCurrent
  <2>4. SessionAway'
    BY <2>1 DEF SessionAway
  <2>5. MonitorTypeOK'
    BY <1>1, <1>2, <1>4, <1>5, <1>6, <2>1 DEF MonitorTypeOK
  <2> QED BY <1>3, <1>4, <1>5, <1>6, <1>9, <2>1, <2>2, <2>3, <2>4, <2>5 DEF SessionInv
<1> QED BY <1>8, <1>9
-----------------------------------------------------------------------------
(* What a step does to the settings and to the history of the sessions.        *)

HistoryInv == ImpactDescribesEffect /\ Tiling /\ SessionsChain

IInv == TypeOK /\ AlwaysValid /\ LogTellsState /\ SessionInv /\ HistoryInv

(* A swap to valid settings keeps the settings valid.                          *)
LEMMA SwapStep ==
  ASSUME StoreAssumption, StoreTypeOK, AlwaysValid, NEW next \in Valid, Swap(next)
  PROVE  StoreTypeOK' /\ AlwaysValid' /\ snapshot' = next /\ next \in Snapshot
BY DEF StoreAssumption, StoreTypeOK, AlwaysValid, Swap

(* Where the monitor does nothing its sessions stay as they are.               *)
LEMMA StillStep ==
  ASSUME SessionInv, MonitorTypeOK, UNCHANGED monitorVars, now' = now
  PROVE  SessionInv' /\ MonitorTypeOK'
BY DEF SessionInv, InOrder, NoFutureRows, SessionCurrent, SessionAway, Active,
       MonitorTypeOK, monitorVars

(* Sessions describe the settings as long as the hot ones stay.                *)
LEMMA StillHistory ==
  ASSUME HistoryInv, UNCHANGED monitorVars, chain' = chain, AgreeOnHot(snapshot', snapshot)
  PROVE  HistoryInv'
BY DEF HistoryInv, ImpactDescribesEffect, Tiling, SessionsChain, AgreeOnHot, Active, monitorVars

(* A change of the settings that the monitor is told of.                       *)
LEMMA ChangeStep ==
  ASSUME MonitorAssumption, MonitorTypeOK, SessionInv, HistoryInv,
         snapshot \in Snapshot, NEW next \in Snapshot, chain \in Nat,
         OnSettingsChange(snapshot, next),
         snapshot' = next, now' = now, chain' = chain
  PROVE  MonitorTypeOK' /\ SessionInv' /\ HistoryInv'
<1>1. rows \in Seq(Row) /\ Len(rows) \in Nat
  BY MonitorTypes
<1>2. CASE /\ Coalesces
           /\ ~Breaks
           /\ session' = [session EXCEPT !.after = next, !.at = now]
           /\ rows' = Upsert(session')
  <2>1. session # None /\ ~session.restored
    BY <1>2 DEF Coalesces, Breaks
  <2>2. session.id = Len(rows)
    BY <2>1 DEF SessionInv, SessionCurrent
  <2>3. /\ MonitorTypeOK'
        /\ SessionInv'
        /\ session' # None
        /\ session'.restored = session.restored
        /\ session'.after = next
        /\ Len(rows') = Len(rows)
        /\ DOMAIN rows' = DOMAIN rows
        /\ \A i \in DOMAIN rows : /\ rows'[i].before = rows[i].before
                                  /\ i # session.id => rows'[i] = rows[i]
        /\ rows'[session.id].after = next
    BY <1>2, <2>1, JoinStep
  <2>4. ImpactDescribesEffect'
    BY <2>3 DEF ImpactDescribesEffect, AgreeOnHot
  <2>5. Tiling'
    BY <2>1, <2>2, <2>3 DEF Tiling, AgreeOnHot
  <2>6. SessionsChain'
    <3> SUFFICES ASSUME NEW i \in DOMAIN rows, i >= chain, i + 1 \in DOMAIN rows
                 PROVE  AgreeOnHot(rows'[i].after, rows'[i + 1].before)
      BY <2>3 DEF SessionsChain, AgreeOnHot
    <3>1. i # session.id
      BY <1>1, <2>2
    <3> QED BY <2>3, <3>1 DEF HistoryInv, SessionsChain, AgreeOnHot
  <2> QED BY <2>3, <2>4, <2>5, <2>6 DEF HistoryInv
<1>3. CASE ~Coalesces /\ CanOpen /\ Open(rows, snapshot, next)
  <2>1. /\ MonitorTypeOK'
        /\ SessionInv'
        /\ session' # None
        /\ ~session'.restored
        /\ session'.after = next
        /\ Len(rows') = Len(rows) + 1
        /\ DOMAIN rows' = DOMAIN rows \cup {Len(rows) + 1}
        /\ \A i \in DOMAIN rows : rows'[i] = rows[i]
        /\ rows'[Len(rows) + 1].before = snapshot
        /\ rows'[Len(rows) + 1].after = next
    BY <1>3, OpenStep
  <2>2. ImpactDescribesEffect'
    BY <2>1 DEF ImpactDescribesEffect, AgreeOnHot
  <2>3. Tiling'
    BY <2>1 DEF Tiling, AgreeOnHot
  <2>4. SessionsChain'
    <3> SUFFICES ASSUME NEW i \in DOMAIN rows', i >= chain, i + 1 \in DOMAIN rows'
                 PROVE  AgreeOnHot(rows'[i].after, rows'[i + 1].before)
      BY DEF SessionsChain, AgreeOnHot
    <3>1. i \in DOMAIN rows
      BY <1>1, <2>1
    <3>2. CASE i = Len(rows)
      BY <2>1, <3>1, <3>2 DEF HistoryInv, Tiling, AgreeOnHot
    <3>3. CASE i + 1 \in DOMAIN rows
      BY <2>1, <3>1, <3>3 DEF HistoryInv, SessionsChain, AgreeOnHot
    <3> QED BY <1>1, <2>1, <3>1, <3>2, <3>3
  <2> QED BY <2>1, <2>2, <2>3, <2>4 DEF HistoryInv
<1> QED BY <1>2, <1>3 DEF OnSettingsChange

(* A change that the monitor fails to take in.                                 *)
LEMMA BreakStep ==
  ASSUME MonitorAssumption, MonitorTypeOK, SessionInv, HistoryInv,
         NEW next \in Snapshot,
         OnSettingsChangeBreaks(next),
         now' = now, chain' = Len(rows) + 1
  PROVE  MonitorTypeOK' /\ SessionInv' /\ HistoryInv'
<1>1. Len(rows) \in Nat /\ rows \in Seq(Row)
  BY MonitorTypes
<1>2. session # None /\ session.restored
  BY DEF OnSettingsChangeBreaks, Breaks, Coalesces
<1>3. /\ MonitorTypeOK'
      /\ SessionInv'
      /\ session' # None
      /\ session'.restored = session.restored
      /\ Len(rows') = Len(rows)
      /\ rows' = rows
  BY <1>2, JoinStep DEF OnSettingsChangeBreaks
<1> QED BY <1>1, <1>2, <1>3
       DEF HistoryInv, ImpactDescribesEffect, Tiling, SessionsChain

(* A rollback archives the session under way and opens its own.                *)
LEMMA RollbackHistory ==
  ASSUME MonitorAssumption, MonitorTypeOK, SessionInv, HistoryInv,
         snapshot \in Snapshot, NEW next \in Snapshot, chain \in Nat,
         CanOpen, Open(Archived, snapshot, next),
         snapshot' = next, now' = now, chain' = chain
  PROVE  MonitorTypeOK' /\ SessionInv' /\ HistoryInv'
<1>1. rows \in Seq(Row) /\ Len(rows) \in Nat
  BY MonitorTypes
<1>2. /\ MonitorTypeOK'
      /\ SessionInv'
      /\ session' # None
      /\ ~session'.restored
      /\ session'.after = next
      /\ Len(rows') = Len(rows) + 1
      /\ DOMAIN rows' = DOMAIN rows \cup {Len(rows) + 1}
      /\ \A i \in DOMAIN rows : rows'[i].before = rows[i].before
      /\ \A i \in DOMAIN rows : i # Len(rows) => rows'[i] = rows[i]
      /\ session = None => \A i \in DOMAIN rows : rows'[i] = rows[i]
      /\ session # None => rows'[Len(rows)].after = session.after
      /\ rows'[Len(rows) + 1].before = snapshot
      /\ rows'[Len(rows) + 1].after = next
  BY RollbackStep
<1>3. ImpactDescribesEffect'
  BY <1>2 DEF ImpactDescribesEffect, AgreeOnHot
<1>4. Tiling'
  BY <1>2 DEF Tiling, AgreeOnHot
<1>5. SessionsChain'
  <2> SUFFICES ASSUME NEW i \in DOMAIN rows', i >= chain, i + 1 \in DOMAIN rows'
               PROVE  AgreeOnHot(rows'[i].after, rows'[i + 1].before)
    BY DEF SessionsChain, AgreeOnHot
  <2>1. i \in DOMAIN rows
    BY <1>1, <1>2
  <2>2. CASE i = Len(rows)
    <3>1. CASE session = None
      BY <1>2, <2>1, <2>2, <3>1 DEF HistoryInv, Tiling, AgreeOnHot
    <3>2. CASE session # None
      <4>1. ~session.restored
        BY <1>1, <2>2, <3>2 DEF HistoryInv, Tiling
      <4> QED BY <1>2, <2>2, <3>2, <4>1 DEF HistoryInv, ImpactDescribesEffect, AgreeOnHot
    <3> QED BY <3>1, <3>2
  <2>3. CASE i + 1 \in DOMAIN rows
    <3>1. i # Len(rows)
      BY <1>1, <2>3
    <3> QED BY <1>2, <2>1, <2>3, <3>1 DEF HistoryInv, SessionsChain, AgreeOnHot
  <2> QED BY <1>1, <1>2, <2>1, <2>2, <2>3
<1> QED BY <1>2, <1>3, <1>4, <1>5 DEF HistoryInv

(* A report may age or archive the session it is about.                        *)
LEMMA ReportHistory ==
  ASSUME MonitorAssumption, MonitorTypeOK, SessionInv, HistoryInv, chain \in Nat,
         CurrentReport, chain' = chain
  PROVE  HistoryInv'
<1>1. rows \in Seq(Row) /\ Len(rows) \in Nat
  BY MonitorTypes
<1>2. snapshot' = snapshot
  BY DEF CurrentReport, storeVars
<1>3. /\ Len(rows') = Len(rows)
      /\ DOMAIN rows' = DOMAIN rows
      /\ \A i \in DOMAIN rows : /\ rows'[i].before = rows[i].before
                                /\ session = None \/ i # Len(rows) =>
                                     rows'[i].after = rows[i].after
      /\ session # None => rows'[Len(rows)].after = session.after
      /\ session' # None => /\ session'.id = Len(rows)
                            /\ Len(rows) \in Active
                            /\ session # None => /\ session'.after = session.after
                                                 /\ session'.restored = session.restored
                            /\ session = None => session'.restored
      /\ session' = None => /\ Active' \subseteq Active
                            /\ session # None => Len(rows) \notin Active'
  BY ReportStep
<1>4. ImpactDescribesEffect'
  BY <1>2, <1>3 DEF HistoryInv, ImpactDescribesEffect, AgreeOnHot
<1>5. Tiling'
  <2>1. ASSUME chain <= Len(rows), NEW n \in DOMAIN rows, n = Len(rows)
        PROVE  AgreeOnHot(rows'[n].after, snapshot)
    <3>1. CASE session = None
      BY <1>3, <2>1, <3>1 DEF HistoryInv, Tiling, AgreeOnHot
    <3>2. CASE session # None
      <4>1. ~session.restored
        BY <1>1, <2>1, <3>2 DEF HistoryInv, Tiling
      <4> QED BY <1>3, <2>1, <3>2, <4>1 DEF HistoryInv, ImpactDescribesEffect, AgreeOnHot
    <3> QED BY <3>1, <3>2
  <2>2. ASSUME session' # None, session'.restored
        PROVE  Len(rows) < chain
    BY <1>1, <1>3, <2>2 DEF HistoryInv, Tiling, Active
  <2>3. ASSUME session' = None, NEW n \in Active', n = Len(rows)
        PROVE  n < chain
    BY <1>3, <2>3 DEF HistoryInv, Tiling
  <2> QED BY <1>2, <1>3, <2>1, <2>2, <2>3 DEF Tiling, AgreeOnHot
<1>6. SessionsChain'
  <2> SUFFICES ASSUME NEW i \in DOMAIN rows, i >= chain, i + 1 \in DOMAIN rows
               PROVE  AgreeOnHot(rows'[i].after, rows'[i + 1].before)
    BY <1>3 DEF SessionsChain, AgreeOnHot
  <2>1. i # Len(rows)
    BY <1>1
  <2> QED BY <1>3, <2>1 DEF HistoryInv, SessionsChain, AgreeOnHot
<1> QED BY <1>4, <1>5, <1>6 DEF HistoryInv
-----------------------------------------------------------------------------
(* The inductive invariant                                                     *)

(* The console starts with valid settings and no session.                      *)
LEMMA InitIInv == Init => IInv
<1> SUFFICES ASSUME Init PROVE IInv
  OBVIOUS
<1> USE StoreAssumption, MonitorAssumption, ConsoleAssumption
<1>1. Defaults \in Snapshot /\ rows = <<>> /\ session = None /\ now = 0
  BY DEF StoreAssumption, Init, MonitorInit
<1>2. StoreTypeOK /\ AlwaysValid
  BY <1>1 DEF StoreAssumption, Init, StoreInit, StoreTypeOK, AlwaysValid
<1>3. MonitorTypeOK
  BY <1>1 DEF MonitorTypeOK, MonitorAssumption
<1>4. TypeOK
  BY <1>2, <1>3 DEF Init, TypeOK
<1>5. LogTellsState
  BY DEF Init, LogTellsState
<1>6. SessionInv
  BY <1>1 DEF SessionInv, InOrder, NoFutureRows, SessionCurrent, SessionAway, Active
<1>7. HistoryInv
  BY <1>1 DEF HistoryInv, ImpactDescribesEffect, Tiling, SessionsChain, Active, Init
<1> QED BY <1>2, <1>4, <1>5, <1>6, <1>7 DEF IInv

(* Settings agree with themselves.                                             *)
LEMMA AgreeWithSelf == \A t : AgreeOnHot(t, t)
BY DEF AgreeOnHot

(* Every step of the console keeps the invariant.                              *)
LEMMA NextIInv == IInv /\ [Next]_vars => IInv'
<1> SUFFICES ASSUME IInv, [Next]_vars PROVE IInv'
  OBVIOUS
<1> USE StoreAssumption, MonitorAssumption, ConsoleAssumption
<1>a. /\ StoreTypeOK /\ MonitorTypeOK /\ SessionInv /\ HistoryInv /\ AlwaysValid
      /\ LogTellsState
      /\ snapshot \in Snapshot /\ snapshot \in Valid /\ lastGood \in Valid
      /\ chain \in Nat /\ now \in Nat /\ now \in 0 .. MaxTime
      /\ rows \in Seq(Row) /\ Len(rows) \in Nat
      /\ lastApply \in [Actor -> Nat \cup {Never}]
      /\ logged \in Snapshot \cup {None}
      /\ unlogged \in BOOLEAN
  BY MonitorTypes DEF IInv, TypeOK, StoreTypeOK, AlwaysValid
<1>b. ASSUME StoreTypeOK', MonitorTypeOK', SessionInv', HistoryInv', AlwaysValid',
             LogTellsState', chain' \in Nat, unlogged' \in BOOLEAN,
             lastApply' \in [Actor -> Nat \cup {Never}], logged' \in Snapshot \cup {None}
      PROVE  IInv'
  BY <1>b DEF IInv, TypeOK
<1>c. ASSUME UNCHANGED storeVars
      PROVE  StoreTypeOK' /\ AlwaysValid' /\ snapshot' = snapshot /\ AgreeOnHot(snapshot', snapshot)
  BY <1>a, <1>c, AgreeWithSelf DEF storeVars, StoreTypeOK, AlwaysValid
<1>d. ASSUME NEW a \in Actor, RecordAttempt(a)
      PROVE  lastApply' \in [Actor -> Nat \cup {Never}]
  BY <1>a, <1>d DEF RecordAttempt
<1>1. ASSUME NEW a \in Actor, ApplyConflict(a) \/ LogNothing(a)
      PROVE  IInv'
  <2>1. /\ UNCHANGED <<storeVars, monitorVars, now, lastApply, chain>>
        /\ logged' = snapshot /\ unlogged' = FALSE
    BY <1>1 DEF ApplyConflict, LogNothing, Log
  <2>2. SessionInv' /\ MonitorTypeOK' /\ HistoryInv'
    BY <1>a, <1>c, <2>1, StillStep, StillHistory
  <2>3. LogTellsState'
    BY <1>c, <2>1 DEF LogTellsState
  <2> QED BY <1>a, <1>b, <1>c, <2>1, <2>2, <2>3
<1>2. ASSUME NEW a \in Actor, NEW diff \in Diff, Apply(a, diff)
      PROVE  IInv'
  <2> DEFINE next == Merged(diff)
  <2>1. /\ next \in Valid
        /\ Swap(next)
        /\ RecordAttempt(a)
        /\ logged' = next /\ unlogged' = FALSE
        /\ now' = now /\ chain' = chain
    BY <1>2 DEF Apply, Accepts, Log
  <2>2. StoreTypeOK' /\ AlwaysValid' /\ snapshot' = next /\ next \in Snapshot
    BY <1>a, <2>1, SwapStep
  <2>3. MonitorTypeOK' /\ SessionInv' /\ HistoryInv'
    <3>1. CASE Touches(diff, HotKey)
      <4>1. OnSettingsChange(snapshot, next)
        BY <1>2, <3>1 DEF Apply
      <4> HIDE DEF next
      <4> QED BY <1>a, <2>1, <2>2, <4>1, ChangeStep
    <3>2. CASE ~Touches(diff, HotKey)
      <4>1. UNCHANGED monitorVars
        BY <1>2, <3>2 DEF Apply
      <4>2. AgreeOnHot(next, snapshot)
        BY <3>2 DEF AgreeOnHot, Merged, Touches, Key
      <4> HIDE DEF next
      <4> QED BY <1>a, <2>1, <2>2, <4>1, <4>2, StillStep, StillHistory
    <3> QED BY <3>1, <3>2
  <2>4. LogTellsState'
    BY <2>1, <2>2 DEF LogTellsState
  <2> QED BY <1>a, <1>b, <1>d, <2>1, <2>2, <2>3, <2>4
<1>3. ASSUME NEW a \in Actor, NEW diff \in Diff, ApplyBreaks(a, diff)
      PROVE  IInv'
  <2> DEFINE next == Merged(diff)
  <2>1. /\ next \in Valid
        /\ Swap(next)
        /\ OnSettingsChangeBreaks(next)
        /\ unlogged' = (unlogged \/ next # snapshot)
        /\ now' = now /\ chain' = Len(rows) + 1
        /\ UNCHANGED consoleVars
    BY <1>3 DEF ApplyBreaks, Accepts
  <2>2. StoreTypeOK' /\ AlwaysValid' /\ snapshot' = next /\ next \in Snapshot
    BY <1>a, <2>1, SwapStep
  <2> HIDE DEF next
  <2>3. MonitorTypeOK' /\ SessionInv' /\ HistoryInv'
    BY <1>a, <2>1, <2>2, BreakStep
  <2>4. LogTellsState'
    BY <1>a, <2>1, <2>2 DEF LogTellsState, consoleVars
  <2> QED BY <1>a, <1>b, <2>1, <2>2, <2>3, <2>4 DEF consoleVars
<1>4. ASSUME NEW a \in Actor, NEW next \in Valid, ApplyTemplate(a, next)
      PROVE  IInv'
  <2>1. /\ Swap(next)
        /\ OnSettingsChange(snapshot, next)
        /\ RecordAttempt(a)
        /\ logged' = next /\ unlogged' = FALSE
        /\ now' = now /\ chain' = chain
    BY <1>4 DEF ApplyTemplate, Log
  <2>2. StoreTypeOK' /\ AlwaysValid' /\ snapshot' = next /\ next \in Snapshot
    BY <1>a, <2>1, SwapStep
  <2>3. MonitorTypeOK' /\ SessionInv' /\ HistoryInv'
    BY <1>a, <2>1, <2>2, ChangeStep
  <2>4. LogTellsState'
    BY <2>1, <2>2 DEF LogTellsState
  <2> QED BY <1>a, <1>b, <1>d, <2>1, <2>2, <2>3, <2>4
<1>5. ASSUME NEW a \in Actor, NEW next \in Valid, ApplyTemplateBreaks(a, next)
      PROVE  IInv'
  <2>1. /\ Swap(next)
        /\ OnSettingsChangeBreaks(next)
        /\ unlogged' = TRUE
        /\ now' = now /\ chain' = Len(rows) + 1
        /\ UNCHANGED consoleVars
    BY <1>5 DEF ApplyTemplateBreaks
  <2>2. StoreTypeOK' /\ AlwaysValid' /\ snapshot' = next /\ next \in Snapshot
    BY <1>a, <2>1, SwapStep
  <2>3. MonitorTypeOK' /\ SessionInv' /\ HistoryInv'
    BY <1>a, <2>1, <2>2, BreakStep
  <2>4. LogTellsState'
    BY <2>1 DEF LogTellsState
  <2> QED BY <1>a, <1>b, <2>1, <2>2, <2>3, <2>4 DEF consoleVars
<1>6. ASSUME NEW a \in Actor, Rollback(a)
      PROVE  IInv'
  <2>1. /\ Swap(lastGood)
        /\ CanOpen
        /\ Open(Archived, snapshot, lastGood)
        /\ RecordAttempt(a)
        /\ logged' = lastGood /\ unlogged' = FALSE
        /\ now' = now /\ chain' = chain
    BY <1>6 DEF Rollback, Log
  <2>2. StoreTypeOK' /\ AlwaysValid' /\ snapshot' = lastGood /\ lastGood \in Snapshot
    BY <1>a, <2>1, SwapStep
  <2>3. MonitorTypeOK' /\ SessionInv' /\ HistoryInv'
    BY <1>a, <2>1, <2>2, RollbackHistory
  <2>4. LogTellsState'
    BY <2>1, <2>2 DEF LogTellsState
  <2> QED BY <1>a, <1>b, <1>d, <2>1, <2>2, <2>3, <2>4
<1>7. CASE CaptureBaseline
  <2>1. /\ OnSettingsChange(snapshot, snapshot)
        /\ UNCHANGED <<storeVars, now, consoleVars, historyVars>>
    BY <1>7 DEF CaptureBaseline
  <2>2. MonitorTypeOK' /\ SessionInv' /\ HistoryInv'
    BY <1>a, <1>c, <2>1, ChangeStep DEF historyVars
  <2>3. LogTellsState'
    BY <1>a, <1>c, <2>1 DEF LogTellsState, consoleVars, historyVars
  <2> QED BY <1>a, <1>b, <1>c, <2>1, <2>2, <2>3 DEF consoleVars, historyVars
<1>8. CASE CaptureBaselineBreaks
  <2>1. /\ OnSettingsChangeBreaks(snapshot)
        /\ chain' = Len(rows) + 1
        /\ UNCHANGED <<storeVars, now, consoleVars, unlogged>>
    BY <1>8 DEF CaptureBaselineBreaks
  <2>2. MonitorTypeOK' /\ SessionInv' /\ HistoryInv'
    BY <1>a, <2>1, BreakStep
  <2>3. LogTellsState'
    BY <1>a, <1>c, <2>1 DEF LogTellsState, consoleVars
  <2> QED BY <1>a, <1>b, <1>c, <2>1, <2>2, <2>3 DEF consoleVars
<1>9. CASE GetImpact
  <2>1. CurrentReport /\ UNCHANGED <<consoleVars, historyVars>>
    BY <1>9 DEF GetImpact
  <2>2. UNCHANGED storeVars
    BY <2>1 DEF CurrentReport
  <2>3. MonitorTypeOK' /\ SessionInv'
    BY <1>a, <2>1, ReportStep
  <2>4. HistoryInv'
    BY <1>a, <2>1, ReportHistory DEF historyVars
  <2>5. LogTellsState'
    BY <1>a, <1>c, <2>1, <2>2 DEF LogTellsState, consoleVars, historyVars
  <2> QED BY <1>a, <1>b, <1>c, <2>1, <2>2, <2>3, <2>4, <2>5 DEF consoleVars, historyVars
<1>10. CASE Restart
  <2>1. /\ now < MaxTime /\ now' = now + 1
        /\ session' = None /\ rows' = rows
        /\ chain' = Len(rows) + 1
        /\ logged' = None /\ unlogged' = FALSE
        /\ lastApply' \in [Actor -> Nat \cup {Never}]
    BY <1>10 DEF Restart
  <2>2. StoreTypeOK' /\ AlwaysValid'
    BY <1>10 DEF Restart, StoreReset, StoreAssumption, StoreTypeOK, AlwaysValid
  <2>3. MonitorTypeOK'
    BY <1>a, <2>1 DEF MonitorTypeOK, MonitorAssumption
  <2>4. \A i \in DOMAIN rows : rows[i].at <= now /\ rows[i].at \in Nat
    BY <1>a, MonitorTypes DEF SessionInv, NoFutureRows
  <2>5. \A n \in DOMAIN rows : n = Len(rows) /\ n \notin Active => rows[n].at + MaxAge <= now
    <3>1. CASE session = None
      BY <1>a, <3>1 DEF SessionInv, SessionAway
    <3>2. CASE session # None
      BY <1>a, <3>2, CurrentRow DEF SessionInv
    <3> QED BY <3>1, <3>2
  <2>6. SessionInv'
    <3>1. Active' = Active
      BY <2>1 DEF Active
    <3>2. InOrder'
      BY <1>a, <2>1, <3>1 DEF SessionInv, InOrder
    <3>3. NoFutureRows' /\ SessionCurrent'
      BY <1>a, <2>1, <2>4 DEF NoFutureRows, SessionCurrent
    <3>4. SessionAway'
      <4>1. \A i \in Active : rows[i].at < now + 1
        BY <1>a, <2>4 DEF Active
      <4>2. \A n \in DOMAIN rows : n = Len(rows) /\ n \notin Active => rows[n].at + MaxAge <= now + 1
        BY <1>a, <2>4, <2>5 DEF MonitorAssumption
      <4> QED BY <2>1, <3>1, <4>1, <4>2 DEF SessionAway
    <3> QED BY <3>2, <3>3, <3>4 DEF SessionInv
  <2>7. HistoryInv'
    BY <1>a, <2>1 DEF HistoryInv, ImpactDescribesEffect, Tiling, SessionsChain, Active
  <2>8. LogTellsState'
    BY <2>1 DEF LogTellsState
  <2>9. /\ chain' \in Nat /\ unlogged' \in BOOLEAN
        /\ logged' \in Snapshot \cup {None}
    <3>1. Len(rows) + 1 \in Nat
      BY <1>a
    <3> QED BY <2>1, <3>1
  <2>10. lastApply' \in [Actor -> Nat \cup {Never}]
    BY <2>1
  <2> QED BY <1>b, <2>2, <2>3, <2>6, <2>7, <2>8, <2>9, <2>10
<1>11. CASE Tick
  <2>1. /\ now < MaxTime /\ now' = now + 1
        /\ UNCHANGED <<storeVars, monitorVars, consoleVars, historyVars>>
    BY <1>11 DEF Tick
  <2>2. MonitorTypeOK'
    BY <1>a, <2>1 DEF MonitorTypeOK, MonitorAssumption, monitorVars
  <2>3. \A i \in DOMAIN rows : rows[i].at \in Nat
    BY <1>a, MonitorTypes
  <2>4. SessionInv'
    <3>1. Active' = Active /\ rows' = rows /\ session' = session /\ Active \subseteq DOMAIN rows
      BY <2>1 DEF Active, monitorVars
    <3>2. InOrder'
      BY <1>a, <3>1 DEF SessionInv, InOrder
    <3>3. NoFutureRows'
      BY <1>a, <2>1, <2>3, <3>1 DEF SessionInv, NoFutureRows
    <3>4. SessionCurrent'
      <4>1. session # None => session.at \in Nat
        BY <1>a DEF MonitorTypeOK, Session
      <4> QED BY <1>a, <2>1, <3>1, <4>1 DEF SessionInv, SessionCurrent
    <3>5. SessionAway'
      BY <1>a, <2>1, <2>3, <3>1 DEF SessionInv, SessionAway, MonitorAssumption
    <3> QED BY <3>2, <3>3, <3>4, <3>5 DEF SessionInv
  <2>5. HistoryInv'
    BY <1>a, <1>c, <2>1, StillHistory DEF historyVars
  <2>6. LogTellsState'
    BY <1>a, <1>c, <2>1 DEF LogTellsState, consoleVars, historyVars
  <2> QED BY <1>a, <1>b, <1>c, <2>1, <2>2, <2>4, <2>5, <2>6 DEF consoleVars, historyVars
<1>12. CASE UNCHANGED vars
  <2>1. UNCHANGED <<storeVars, monitorVars, now, consoleVars, historyVars>>
    BY <1>12 DEF vars
  <2>2. SessionInv' /\ MonitorTypeOK' /\ HistoryInv'
    BY <1>a, <1>c, <2>1, StillStep, StillHistory DEF historyVars
  <2>3. LogTellsState'
    BY <1>a, <1>c, <2>1 DEF LogTellsState, consoleVars, historyVars
  <2> QED BY <1>a, <1>b, <1>c, <2>1, <2>2, <2>3 DEF consoleVars, historyVars
<1> QED
  BY <1>1, <1>2, <1>3, <1>4, <1>5, <1>6, <1>7, <1>8, <1>9, <1>10, <1>11, <1>12 DEF Next

(* The inductive invariant of the settings console.                            *)
LEMMA Invariant == Spec => []IInv
BY InitIInv, NextIInv, PTL DEF Spec
-----------------------------------------------------------------------------
(* The variables hold what the code can put in them.                           *)
THEOREM TypeCorrect == Spec => []TypeOK
<1>1. IInv => TypeOK
  BY DEF IInv
<1> QED BY <1>1, Invariant, PTL

(* Whatever diffs, templates and rollbacks come, the settings in force and     *)
(* those to roll back to pass settings_spec.validate().                        *)
THEOREM StaysValid == Spec => []AlwaysValid
<1>1. IInv => AlwaysValid
  BY DEF IInv
<1> QED BY <1>1, Invariant, PTL

(* The newest row of apply_log names the settings in force, unless a handler   *)
(* failed half-way.                                                            *)
THEOREM LogSound == Spec => []LogTellsState
<1>1. IInv => LogTellsState
  BY DEF IInv
<1> QED BY <1>1, Invariant, PTL

(* A replaced monitoring session never comes back.                             *)
THEOREM NeverReplaced == Spec => []NewestSession
<1>1. IInv => NewestSession
  BY DEF IInv, SessionInv, SessionCurrent, NewestSession
<1> QED BY <1>1, Invariant, PTL

(* Restart and report agree on which session is under way.                     *)
THEOREM RestoreSound == Spec => []RestoreFindsCurrent
<1>1. IInv => RestoreFindsCurrent
  <2> SUFFICES ASSUME IInv, session # None
               PROVE  NewestActive = {session.id}
    BY DEF RestoreFindsCurrent
  <2>1. session.id \in Active /\ session.id = Len(rows)
    BY CurrentRow DEF IInv, TypeOK, SessionInv
  <2>2. /\ rows \in Seq(Row)
        /\ \A i \in DOMAIN rows : rows[i].at \in Nat
    BY MonitorTypes, MonitorAssumption DEF IInv, TypeOK
  <2>3. \A i \in Active : i # session.id => rows[i].at < rows[session.id].at
    BY <2>1, <2>2 DEF IInv, SessionInv, InOrder, Active
  <2>4. Active \subseteq DOMAIN rows
    BY DEF Active
  <2> QED BY <2>1, <2>2, <2>3, <2>4 DEF NewestActive
<1> QED BY <1>1, Invariant, PTL

(* What the session in memory compares with is in force.                       *)
THEOREM EffectDescribed == Spec => []ImpactDescribesEffect
<1>1. IInv => ImpactDescribesEffect
  BY DEF IInv, HistoryInv
<1> QED BY <1>1, Invariant, PTL

(* The sessions of one process tile the history of its settings.               *)
THEOREM Tiled == Spec => []SessionsChain
<1>1. IInv => SessionsChain
  BY DEF IInv, HistoryInv
<1> QED BY <1>1, Invariant, PTL
-----------------------------------------------------------------------------
(* What the row of the session under way has.                                  *)

(* A session opened by this process wrote its row when it was opened and at    *)
(* every change that joined it.                                                *)
RowHasAfter == session # None /\ ~session.restored => rows[session.id].after = session.after

(* A change joins the session under way or opens one: its row has the settings *)
(* it leads to.                                                                *)
LEMMA ChangeWritesRow ==
  ASSUME MonitorAssumption, MonitorTypeOK, SessionInv, now' = now,
         NEW before \in Snapshot, NEW after \in Snapshot, OnSettingsChange(before, after)
  PROVE  RowHasAfter'
<1>1. CASE /\ Coalesces
           /\ session' = [session EXCEPT !.after = after, !.at = now]
           /\ rows' = Upsert(session')
  <2>1. session # None
    BY <1>1 DEF Coalesces
  <2>2. /\ session'.id = session.id
        /\ session'.after = after
        /\ rows'[session.id].after = after
    BY <1>1, <2>1, JoinStep
  <2> QED BY <2>2 DEF RowHasAfter
<1>2. CASE ~Coalesces /\ CanOpen /\ Open(rows, before, after)
  <2>1. /\ SessionInv' /\ session' # None /\ session'.after = after
        /\ Len(rows') = Len(rows) + 1
        /\ rows'[Len(rows) + 1].after = after
    BY <1>2, OpenStep
  <2>2. session'.id = Len(rows')
    BY <2>1 DEF SessionInv, SessionCurrent
  <2> QED BY <2>1, <2>2 DEF RowHasAfter
<1> QED BY <1>1, <1>2 DEF OnSettingsChange

(* A change that breaks finds a session that was read back.                    *)
LEMMA BreakWritesNoRow ==
  ASSUME MonitorAssumption, MonitorTypeOK, SessionInv, now' = now,
         NEW after \in Snapshot, OnSettingsChangeBreaks(after)
  PROVE  RowHasAfter'
<1>1. session # None /\ session.restored
  BY DEF OnSettingsChangeBreaks, Breaks, Coalesces
<1>2. session'.restored = session.restored
  BY <1>1, JoinStep DEF OnSettingsChangeBreaks
<1> QED BY <1>1, <1>2 DEF RowHasAfter

(* A rollback opens a session too, a report writes the session back as it is.  *)
LEMMA NextRow == IInv /\ RowHasAfter /\ [Next]_vars => RowHasAfter'
<1> SUFFICES ASSUME IInv, RowHasAfter, [Next]_vars PROVE RowHasAfter'
  OBVIOUS
<1> USE StoreAssumption, MonitorAssumption
<1>a. /\ MonitorTypeOK /\ SessionInv
      /\ snapshot \in Snapshot /\ lastGood \in Snapshot /\ Valid \subseteq Snapshot
  BY DEF IInv, TypeOK, StoreTypeOK, StoreAssumption
<1>b. ASSUME UNCHANGED monitorVars
      PROVE  RowHasAfter'
  BY <1>b DEF RowHasAfter, monitorVars
<1>1. ASSUME NEW a \in Actor, ApplyConflict(a) \/ LogNothing(a)
      PROVE  RowHasAfter'
  BY <1>b, <1>1 DEF ApplyConflict, LogNothing
<1>2. ASSUME NEW a \in Actor, NEW diff \in Diff, Apply(a, diff)
      PROVE  RowHasAfter'
  <2>1. Merged(diff) \in Snapshot /\ now' = now
    BY <1>2, <1>a DEF Apply, Accepts
  <2>2. \/ OnSettingsChange(snapshot, Merged(diff))
        \/ UNCHANGED monitorVars
    BY <1>2 DEF Apply
  <2> QED BY <1>a, <1>b, <2>1, <2>2, ChangeWritesRow
<1>3. ASSUME NEW a \in Actor, NEW diff \in Diff, ApplyBreaks(a, diff)
      PROVE  RowHasAfter'
  <2>1. Merged(diff) \in Snapshot /\ now' = now /\ OnSettingsChangeBreaks(Merged(diff))
    BY <1>3, <1>a DEF ApplyBreaks, Accepts
  <2> QED BY <1>a, <2>1, BreakWritesNoRow
<1>4. ASSUME NEW a \in Actor, NEW t \in Valid, ApplyTemplate(a, t)
      PROVE  RowHasAfter'
  BY <1>a, <1>4, ChangeWritesRow DEF ApplyTemplate
<1>5. ASSUME NEW a \in Actor, NEW t \in Valid, ApplyTemplateBreaks(a, t)
      PROVE  RowHasAfter'
  BY <1>a, <1>5, BreakWritesNoRow DEF ApplyTemplateBreaks
<1>6. ASSUME NEW a \in Actor, Rollback(a)
      PROVE  RowHasAfter'
  <2>1. CanOpen /\ Open(Archived, snapshot, lastGood) /\ now' = now
    BY <1>6 DEF Rollback
  <2>2. /\ SessionInv' /\ session' # None /\ session'.after = lastGood
        /\ Len(rows') = Len(rows) + 1
        /\ rows'[Len(rows) + 1].after = lastGood
    BY <1>a, <2>1, RollbackStep
  <2>3. session'.id = Len(rows')
    BY <2>2 DEF SessionInv, SessionCurrent
  <2> QED BY <2>2, <2>3 DEF RowHasAfter
<1>7. CASE CaptureBaseline
  BY <1>a, <1>7, ChangeWritesRow DEF CaptureBaseline
<1>8. CASE CaptureBaselineBreaks
  BY <1>a, <1>8, BreakWritesNoRow DEF CaptureBaselineBreaks
<1>9. CASE GetImpact
  <2>1. /\ session # None => rows'[Len(rows)].after = session.after
        /\ session' # None => /\ session'.id = Len(rows)
                              /\ session # None => session'.after = session.after
                              /\ session = None => session'.restored
    BY <1>a, <1>9, ReportStep DEF GetImpact
  <2> QED BY <2>1 DEF RowHasAfter
<1>10. CASE Restart
  BY <1>10 DEF Restart, RowHasAfter
<1>11. CASE Tick \/ UNCHANGED vars
  BY <1>b, <1>11 DEF Tick, vars
<1> QED
  BY <1>1, <1>2, <1>3, <1>4, <1>5, <1>6, <1>7, <1>8, <1>9, <1>10, <1>11 DEF Next

(* What a restart would read back of the session under way is what it was: its *)
(* state, and its settings too unless it was itself read back.                 *)
THEOREM RowMirrors == Spec => []RowMirrorsSession
<1>1. Init => RowHasAfter
  BY DEF Init, MonitorInit, RowHasAfter
<1>2. IInv /\ RowHasAfter => RowMirrorsSession
  BY DEF IInv, SessionInv, SessionCurrent, RowHasAfter, RowMirrorsSession
<1> QED BY <1>1, <1>2, NextRow, Invariant, PTL DEF Spec
=============================================================================
