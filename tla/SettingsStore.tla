---------------------------- MODULE SettingsStore ----------------------------
(* settings_store.py: the settings snapshot of the edge process, apply_diff()  *)
(* and rollback_to_last_good().  Both hold the lock throughout, and are called *)
(* from handlers that do not wait: a call is one step.  Subscribers cannot     *)
(* fail an apply and are left out; StreamSlots models what they start.         *)
EXTENDS Integers

CONSTANTS HotKey,       \* settings that are hot_apply or warm_reload
          RestartKey,   \* settings that are restart_required
          Value,
          Valid,        \* the snapshots settings_spec.validate() accepts
          Defaults      \* settings_spec.defaults()

Key == HotKey \cup RestartKey
Snapshot == [Key -> Value]

ASSUME StoreAssumption == /\ HotKey \cap RestartKey = {}
                          /\ Valid \subseteq Snapshot
                          /\ Defaults \in Valid

VARIABLES snapshot,   \* STORE._snapshot
          lastGood,   \* STORE._last_good
          pristine    \* it is the very same object: nothing applied since start

storeVars == <<snapshot, lastGood, pristine>>

StoreTypeOK == /\ snapshot \in Snapshot
               /\ lastGood \in Snapshot
               /\ pristine \in BOOLEAN

(* Nothing is read back from disk: a process starts from the defaults.         *)
StoreInit == /\ snapshot = Defaults
             /\ lastGood = Defaults
             /\ pristine = TRUE

StoreReset == /\ snapshot' = Defaults
              /\ lastGood' = Defaults
              /\ pristine' = TRUE

(* What is left of a request's diff without unknown and read-only keys.        *)
Diff == UNION {[K -> Value] : K \in SUBSET Key}

Touches(diff, keys) == DOMAIN diff \cap keys # {}

Merged(diff) == [k \in Key |-> IF k \in DOMAIN diff THEN diff[k] ELSE snapshot[k]]

(* Mistake: the diff is validated, not the merged snapshot.                    *)
AcceptsDiff(diff) == [k \in Key |-> IF k \in DOMAIN diff THEN diff[k] ELSE Defaults[k]] \in Valid

(* The merged snapshot as a whole is validated, cross-field rules included.    *)
Accepts(diff) == Merged(diff) \in Valid

Swap(next) == /\ snapshot' = next
              /\ lastGood' = snapshot
              /\ pristine' = FALSE

(* expected_revision_hash: a hash stands for its snapshot.                     *)
Matches(hash) == hash = snapshot
=============================================================================
