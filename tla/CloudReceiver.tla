---------------------------- MODULE CloudReceiver ----------------------------
(* cloud/receiver.py: POST /ingest/events and the SQLite table it fills.       *)
EXTENDS CloudLink

VARIABLES received,   \* received[e]: which commit stored e, 0 when it has no row
          commits,    \* the commits that stored at least one row
          skewed      \* the two clocks differ by more than TIMESTAMP_WINDOW_SEC

cloudVars == <<received, commits, skewed>>

CloudTypeOK == /\ received \in [Event -> Nat]
               /\ commits \in Nat
               /\ skewed \in BOOLEAN

CloudInit == /\ received = [e \in Event |-> 0]
             /\ commits = 0
             /\ skewed \in BOOLEAN

Stored == {e \in Event : received[e] > 0}

(* Mistake: INSERT OR REPLACE.                                                 *)
InsertOrReplace(batch, now) ==
  [e \in Event |-> IF e \in batch THEN now ELSE received[e]]

(* INSERT OR IGNORE: a row whose event_id is already there is left alone.      *)
InsertOrIgnore(batch, now) ==
  [e \in Event |-> IF e \in batch /\ received[e] = 0 THEN now ELSE received[e]]

(* The signature check passes only inside the timestamp window.                *)
SignatureFresh(r) == ~skewed

(* ... and a request delayed until after its sender gave up may have aged out. *)
SignatureStale(r) == skewed \/ ~r.waiting

(* One transaction per request; the counts in the answer are not modelled.     *)
IngestEvents(r) ==
  /\ r \in wire
  /\ SignatureFresh(r)
  /\ received' = InsertOrIgnore(r.batch, commits + 1)
  /\ commits' = IF r.batch \subseteq Stored THEN commits ELSE commits + 1
  /\ AnswerWith(r, "ok")
  /\ UNCHANGED skewed

RejectBatch(r) ==
  /\ r \in wire
  /\ SignatureStale(r)
  /\ AnswerWith(r, "refused")
  /\ UNCHANGED cloudVars

(* A clock is set: NTP starts, stops, or corrects a wrong time.                *)
ClockStep == /\ skewed' = ~skewed
             /\ UNCHANGED <<received, commits, linkVars>>

CloudNext == \/ \E r \in wire : IngestEvents(r) \/ RejectBatch(r)
             \/ ClockStep
=============================================================================
