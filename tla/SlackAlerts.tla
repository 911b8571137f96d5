----------------------------- MODULE SlackAlerts -----------------------------
(* integrations/slack.py and services/digest.py: an event is posted at once,   *)
(* or kept for the hourly or the daily digest.  Everything runs on the event   *)
(* loop, which is given up while the image host or the webhook is asked.       *)
EXTENDS Clock, Sequences, FiniteSets, SequencesExt

CONSTANTS Alert,            \* the events that are emitted
          AlertRisk,        \* the risk of each
          Sustained,        \* those of a long enough episode with enough high frames
          Sureness,         \* the confidence of each
          Floors,           \* what SLACK_HIGH_MIN_CONFIDENCE may be set to
          MediumEvery, LowEvery,  \* DIGEST_INTERVAL_SEC, DAILY_INTERVAL_SEC
          DigestLines,      \* lines of a digest
          MaxFloorChanges,  \* bound
          SlackEnd          \* bound: the last tick

ASSUME SlackAssumption ==
  /\ \A a \in Alert : AlertRisk[a] \in {"high", "medium", "low"} /\ Sureness[a] \in Nat
  /\ Floors \subseteq Nat /\ Floors # {}
  /\ MediumEvery \in Nat \ {0} /\ LowEvery \in Nat \ {0} /\ DigestLines \in Nat \ {0}
  /\ SlackEnd \in Nat

ASSUME NoDigestAssumption ==
  None \notin [lines : Seq(Alert), more : Nat, alerts : SUBSET Alert]

VARIABLES webhook, relay,   \* SLACK_WEBHOOK_URL is set, SLACK_ENABLE_IMAGE_RELAY
          floor,            \* the setting SLACK_HIGH_MIN_CONFIDENCE
          told,             \* tasks notify_event() yet to run, oldest first
          mediumBuffer, lowBuffer,
          cards,            \* cards on their way: uploading or posting
          digests,          \* each scheduler's digest on its way, or None
          flushAt,          \* when each scheduler wakes
          outcome,          \* history: what became of posts
          alerted, floorChanges  \* history

slackVars == <<webhook, relay, floor, told, mediumBuffer, lowBuffer, cards, digests,
               flushAt, outcome, alerted, floorChanges>>

Tier == {"medium", "low"}
Every == [medium |-> MediumEvery, low |-> LowEvery]
Outcome == {"shown", "unanswered", "failed", "off"}

SlackTypeOK ==
  /\ webhook \in BOOLEAN /\ relay \in BOOLEAN /\ floor \in Floors
  /\ ToSet(told) \cup ToSet(mediumBuffer) \cup ToSet(lowBuffer) \subseteq alerted
  /\ \A c \in cards : c.alert \in alerted /\ c.stage \in {"upload", "post"}
  /\ \A p \in outcome : p.result \in Outcome
  /\ \A t \in Tier : flushAt[t] \in 0 .. SlackEnd + Every[t]

SlackInit ==
  /\ webhook \in BOOLEAN /\ relay \in BOOLEAN /\ floor \in Floors
  /\ told = <<>> /\ mediumBuffer = <<>> /\ lowBuffer = <<>>
  /\ cards = {} /\ digests = [t \in Tier |-> None]
  /\ flushAt = [t \in Tier |-> Every[t]]
  /\ outcome = {} /\ alerted = {} /\ floorChanges = 0
-----------------------------------------------------------------------------
(* _emit_event() starts the task and goes on.                                  *)
EmitAlert(a) ==
  /\ a \notin alerted
  /\ alerted' = alerted \cup {a} /\ told' = Append(told, a)
  /\ UNCHANGED <<webhook, relay, floor, mediumBuffer, lowBuffer, cards, digests, flushAt,
                 outcome, floorChanges, now>>

(* An operator moves the floor in the Settings Console.                        *)
MoveFloor ==
  /\ floorChanges < MaxFloorChanges /\ floorChanges' = floorChanges + 1
  /\ \E f \in Floors \ {floor} : floor' = f
  /\ UNCHANGED <<webhook, relay, told, mediumBuffer, lowBuffer, cards, digests, flushAt,
                 outcome, alerted, now>>

(* _passes_high_quality_gate(), by the floor of the moment.                    *)
PassesGate(a) == a \in Sustained /\ Sureness[a] >= floor

Post(kind, as, result) == [kind |-> kind, alerts |-> as, result |-> result]

(* notify_high(): nothing at all without a webhook; the picture goes first.    *)
NotifyHigh(a) ==
  IF webhook
  THEN /\ \E picture \in BOOLEAN :   \* the thumbnail exists
            cards' = cards \cup {[alert |-> a, image |-> FALSE,
                                  stage |-> IF relay /\ picture THEN "upload" ELSE "post"]}
       /\ UNCHANGED outcome
  ELSE outcome' = outcome \cup {Post("card", {a}, "off")} /\ UNCHANGED cards

(* notify_event(): SLACK_MIN_RISK is only ever compared with "high", the top.  *)
NotifyEvent ==
  /\ told # <<>> /\ told' = Tail(told)
  /\ LET a == Head(told)
         risk == AlertRisk[a]
     IN CASE risk = "high" /\ PassesGate(a) ->
               NotifyHigh(a) /\ UNCHANGED <<mediumBuffer, lowBuffer>>
          [] risk = "medium" \/ (risk = "high" /\ ~PassesGate(a)) ->
               /\ mediumBuffer' = Append(mediumBuffer, a)
               /\ UNCHANGED <<lowBuffer, cards, outcome>>
          [] risk = "low" ->
               lowBuffer' = Append(lowBuffer, a) /\ UNCHANGED <<mediumBuffer, cards, outcome>>
  /\ UNCHANGED <<webhook, relay, floor, digests, flushAt, alerted, floorChanges, now>>

(* _upload_public_image(): the card goes out with the picture or without.      *)
EndUpload(c) ==
  /\ c \in cards /\ c.stage = "upload"
  /\ \E image \in BOOLEAN :
       cards' = (cards \ {c}) \cup {[c EXCEPT !.image = image, !.stage = "post"]}
  /\ UNCHANGED <<webhook, relay, floor, told, mediumBuffer, lowBuffer, digests, flushAt,
                 outcome, alerted, floorChanges, now>>

(* The webhook accepts, accepts without its answer arriving, or refuses.       *)
EndCard(c, result) ==
  /\ c \in cards /\ c.stage = "post" /\ result # "off"
  /\ cards' = cards \ {c}
  /\ outcome' = outcome \cup {Post("card", {c.alert}, result)}
  /\ UNCHANGED <<webhook, relay, floor, told, mediumBuffer, lowBuffer, digests, flushAt,
                 alerted, floorChanges, now>>
-----------------------------------------------------------------------------
(* digest_scheduler(), daily_scheduler(): flush_medium_digest() and            *)
(* flush_low_daily() take the buffer and empty it before they post.            *)

Buffer(t) == IF t = "medium" THEN mediumBuffer ELSE lowBuffer

(* Mistake: the digest is made of the lines it shows.                          *)
DigestOfLines(as) ==
  LET shown == Min({Len(as), DigestLines})
  IN [lines |-> SubSeq(as, 1, shown), more |-> 0, alerts |-> ToSet(SubSeq(as, 1, shown))]

(* _format_digest_lines(): the first ones by name, the others as a number.     *)
Digest(as) ==
  LET shown == Min({Len(as), DigestLines})
  IN [lines |-> SubSeq(as, 1, shown), more |-> Len(as) - shown, alerts |-> ToSet(as)]

Clear(t) ==
  /\ mediumBuffer' = IF t = "medium" THEN <<>> ELSE mediumBuffer
  /\ lowBuffer' = IF t = "low" THEN <<>> ELSE lowBuffer

Flush(t) ==
  /\ digests[t] = None /\ now >= flushAt[t] /\ Buffer(t) # <<>>
  /\ Clear(t)
  /\ IF webhook
     THEN /\ digests' = [digests EXCEPT ![t] = Digest(Buffer(t))]
          /\ UNCHANGED <<outcome, flushAt>>
     ELSE /\ outcome' = outcome \cup {Post(t, ToSet(Buffer(t)), "off")}
          /\ flushAt' = [flushAt EXCEPT ![t] = now + Every[t]]
          /\ UNCHANGED digests
  /\ UNCHANGED <<webhook, relay, floor, told, cards, alerted, floorChanges, now>>

FlushNothing(t) ==
  /\ digests[t] = None /\ now >= flushAt[t] /\ Buffer(t) = <<>>
  /\ flushAt' = [flushAt EXCEPT ![t] = now + Every[t]]
  /\ UNCHANGED <<webhook, relay, floor, told, mediumBuffer, lowBuffer, cards, digests,
                 outcome, alerted, floorChanges, now>>

(* _post_digest() has ended; the scheduler sleeps from now on.                 *)
EndDigest(t, result) ==
  /\ digests[t] # None /\ result # "off"
  /\ outcome' = outcome \cup {Post(t, digests[t].alerts, result)}
  /\ digests' = [digests EXCEPT ![t] = None]
  /\ flushAt' = [flushAt EXCEPT ![t] = now + Every[t]]
  /\ UNCHANGED <<webhook, relay, floor, told, mediumBuffer, lowBuffer, cards, alerted,
                 floorChanges, now>>

(* GET /api/coaching_queue: the medium events still waiting for their digest,  *)
(* or those of events.json, which no code here writes.                         *)
CoachingQueue(limit, onDisk) ==
  LET source == IF mediumBuffer # <<>> THEN mediumBuffer ELSE onDisk
  IN SubSeq(source, IF Len(source) > limit THEN Len(source) - limit + 1 ELSE 1, Len(source))
-----------------------------------------------------------------------------
SlackTick == Tick(SlackEnd) /\ UNCHANGED slackVars

SlackNext ==
  \/ SlackTick \/ MoveFloor \/ NotifyEvent
  \/ \E a \in Alert : EmitAlert(a)
  \/ \E c \in cards : EndUpload(c) \/ \E result \in Outcome : EndCard(c, result)
  \/ \E t \in Tier : Flush(t) \/ FlushNothing(t) \/ \E result \in Outcome : EndDigest(t, result)

SlackSpec == SlackInit /\ ClockInit /\ [][SlackNext]_<<slackVars, now>>
-----------------------------------------------------------------------------
(* Whatever is flushed, posted and emitted meanwhile, an event is in one place *)
(* only: its task, a buffer, a post on its way or one post that ended; it is   *)
(* never dropped between two of them, nor posted in two.  A digest names or    *)
(* counts each.                                                                *)
Places(a) ==
  Cardinality({i \in DOMAIN told : told[i] = a})
  + Cardinality({i \in DOMAIN mediumBuffer : mediumBuffer[i] = a})
  + Cardinality({i \in DOMAIN lowBuffer : lowBuffer[i] = a})
  + Cardinality({c \in cards : c.alert = a})
  + Cardinality({t \in Tier : digests[t] # None /\ a \in digests[t].alerts})
  + Cardinality({p \in outcome : a \in p.alerts})

AlertsAccounted ==
  /\ \A a \in alerted : Places(a) = 1
  /\ \A t \in Tier : digests[t] # None =>
       Len(digests[t].lines) + digests[t].more = Cardinality(digests[t].alerts)

(* "nothing is lost but the channel stays quiet".                              *)
DowngradedIsShown ==
  \A p \in outcome : p.kind = "medium" => p.result \in {"shown", "unanswered"}

(* "Return pending medium-risk events for operator review": a flush empties it. *)
PendingStaysQueued ==
  [][ToSet(CoachingQueue(Cardinality(Alert), <<>>))
       \subseteq ToSet(CoachingQueue(Cardinality(Alert), <<>>))']_slackVars
=============================================================================
